-------------------------- MODULE ExecuteOpts_proof --------------------------
(***************************************************************************)
(* What holds of every run of ExecuteOpts, for any rules and options.  No  *)
(* rule outlives the call, phases do not overlap and a failure in a        *)
(* fail-fast phase is the last thing started: that is about where the      *)
(* caller is (IInv), however the modes lay out their phases.  That the     *)
(* outcome is honest rests on the shapes the modes give their phases       *)
(* (Told), and that salience decides what starts first on the order the    *)
(* rules are resolved to (InTurn).                                         *)
(***************************************************************************)
EXTENDS ExecuteOpts, SequenceTheorems, FiniteSetTheorems, TLAPS

(* Where the rules are that have been launched, run or ended, for each     *)
(* place the caller may be at.                                             *)
Joined ==
  /\ ph \in Nat
  /\ \A x \in launched \cup running : x[1] = ph
  /\ \A y \in done : y[1] \in Nat /\ y[1] <= ph
  /\ failed \subseteq done
  /\ pc \in {"start", "enter", "serial", "execute", "launch", "wait", "returned", "panicked"}
  /\ pc \in {"start", "enter", "serial", "returned", "panicked"} => launched = {} /\ running = {}
  /\ pc = "start" => done = {}
  /\ pc = "execute" => launched = {} /\ running = {Occurrence}
  /\ pc \in {"serial", "execute"} => ~Phase.conc
  /\ pc \in {"launch", "wait"} => Phase.conc

(* A failed rule of a fail-fast phase: the run is over, or its phase is    *)
(* concurrent, not yet waited for, and the error has been collected.       *)
FailureKept ==
  \A x \in failed :
    plan[x[1]].failFast => Ended \/ (pc \in {"launch", "wait"} /\ x[1] = ph /\ x \in errs)

IInv == Joined /\ FailureKept

-----------------------------------------------------------------------------
LEMMA InitJoined == Init => IInv
  BY DEF Init, IInv, Joined, FailureKept

(* The steps of the caller before and between phases *)
LEMMA BetweenPhases ==
  ASSUME IInv, Reject \/ EnterCancelled \/ EnterConcurrent \/ EnterSerial \/ End
  PROVE  IInv'
<1> USE DEF IInv, Joined, FailureKept, Ended, Return, control, position, flags, Phase, Occurrence
<1>1. CASE Reject
  BY <1>1 DEF Reject
<1>2. CASE EnterCancelled
  BY <1>2 DEF EnterCancelled
<1>3. CASE EnterConcurrent
  BY <1>3 DEF EnterConcurrent
<1>4. CASE EnterSerial
  BY <1>4 DEF EnterSerial
<1>5. CASE End
  BY <1>5 DEF End
<1> QED
  BY <1>1, <1>2, <1>3, <1>4, <1>5

(* The steps that lay out the phases or go from one to the next *)
LEMMA NewPhase ==
  ASSUME IInv, Start \/ EnterEmpty \/ SerialDone
  PROVE  IInv'
<1> USE DEF IInv, Joined, FailureKept, Ended, NextPhase, control, position, flags, Phase, Occurrence
<1>1. CASE Start
  BY <1>1 DEF Start
<1>2. CASE EnterEmpty
  BY <1>2 DEF EnterEmpty
<1>3. CASE SerialDone
  BY <1>3 DEF SerialDone
<1> QED
  BY <1>1, <1>2, <1>3

(* The serial phases: one rule at a time, and none after a failure that    *)
(* ends the run.                                                           *)
LEMMA SerialPhase ==
  ASSUME IInv, SerialStart \/ SerialCancelled \/ (\E out \in Outcomes : SerialEnd(out)) \/ SerialPanic
  PROVE  IInv'
<1> USE DEF IInv, Joined, FailureKept, Ended, Return, NextPhase, control, position, flags, Phase, Occurrence
<1>1. CASE SerialStart
  BY <1>1 DEF SerialStart
<1>2. CASE SerialCancelled
  BY <1>2 DEF SerialCancelled
<1>3. ASSUME NEW out \in Outcomes, SerialEnd(out)
      PROVE  IInv'
  <2>1. CASE HasError(out) /\ Phase.failFast
    BY <1>3, <2>1 DEF SerialEnd, EndRule
  <2>2. CASE ~(HasError(out) /\ Phase.failFast)
    BY <1>3, <2>2 DEF SerialEnd, EndRule
  <2> QED
    BY <2>1, <2>2
<1>4. CASE SerialPanic
  BY <1>4 DEF SerialPanic, EndRule
<1> QED
  BY <1>1, <1>2, <1>3, <1>4

(* The concurrent phases: the errors are collected before the wait is      *)
(* over, and a fail-fast phase looks at them then.                         *)
LEMMA ConcurrentPhase ==
  ASSUME IInv, Launch \/ LaunchDone \/ Wait \/ Goroutine
  PROVE  IInv'
<1> USE DEF IInv, Joined, FailureKept, Ended, Return, NextPhase, control, position, flags, Phase, Occurrence
<1>1. CASE Launch
  BY <1>1 DEF Launch
<1>2. CASE LaunchDone
  BY <1>2 DEF LaunchDone
<1>3. CASE Wait
  BY <1>3 DEF Wait
<1>4. ASSUME NEW x \in launched, GoStart(x)
      PROVE  IInv'
  BY <1>4 DEF GoStart
<1>5. ASSUME NEW x \in running, NEW out \in Outcomes, GoEnd(x, out)
      PROVE  IInv'
  BY <1>5 DEF GoEnd, EndRule
<1> QED
  BY <1>1, <1>2, <1>3, <1>4, <1>5 DEF Goroutine

(* Cancellation, the StopTag and stuttering *)
LEMMA Flags ==
  ASSUME IInv, Cancel \/ Propagate \/ SetStopTag \/ UNCHANGED vars
  PROVE  IInv'
BY DEF IInv, Joined, FailureKept, Ended, Phase, Occurrence, Cancel, Propagate, SetStopTag, vars, control, flags

LEMMA IInvStep == IInv /\ [Next]_vars => IInv'
  BY BetweenPhases, NewPhase, SerialPhase, ConcurrentPhase, Flags DEF Next, Caller

(* The caller's place determines what may be running, in every reachable   *)
(* state.                                                                  *)
THEOREM ExecutionInvariant == Safety => []IInv
  BY InitJoined, IInvStep, PTL DEF Safety

-----------------------------------------------------------------------------
(* When ExecuteOpts has returned or panicked no goroutine of it is left to *)
(* touch the DataContext or the result map.                                *)
THEOREM NothingLeftRunning == Safety => []NoRuleOutlivesTheCall
<1>1. IInv => NoRuleOutlivesTheCall
  BY DEF IInv, Joined, NoRuleOutlivesTheCall, Ended
<1> QED
  BY <1>1, ExecutionInvariant, PTL

(* Rules of two phases never run at the same time, and a serial phase runs *)
(* one rule.                                                               *)
THEOREM PhasesApart == Safety => []PhasesDoNotOverlap
<1>1. IInv => PhasesDoNotOverlap
  BY DEF IInv, Joined, PhasesDoNotOverlap, Phase, Occurrence
<1> QED
  BY <1>1, ExecutionInvariant, PTL

(* After a failure in a fail-fast phase no rule is started but those of    *)
(* its own concurrent batch.                                               *)
THEOREM NothingStartedAfterFailure == Safety => FailFast
<1> DEFINE Kept ==
      \A x \in failed, y \in running' \ running :
        plan[x[1]].failFast => plan[x[1]].conc /\ y[1] = x[1]
<1>1. ASSUME IInv, Next
      PROVE  Kept
  <2>1. running' \subseteq running
          \/ SerialStart \/ \E x \in launched : GoStart(x)
    BY <1>1 DEF Next, Caller, Goroutine, Reject, Start, EnterCancelled, EnterEmpty,
      EnterConcurrent, EnterSerial, End, SerialCancelled, SerialEnd, SerialPanic, SerialDone,
      Launch, LaunchDone, Wait, GoEnd, EndRule, Cancel, Propagate, SetStopTag, position, Occurrence
  <2>2. CASE SerialStart
    BY <1>1, <2>2 DEF SerialStart, IInv, Joined, FailureKept, Ended
  <2>3. ASSUME NEW x \in launched, GoStart(x)
        PROVE  Kept
    <3>1. \A y \in running' \ running : y = x /\ y[1] = ph
      BY <1>1, <2>3 DEF GoStart, IInv, Joined
    <3> QED
      BY <1>1, <3>1, <2>3 DEF IInv, Joined, FailureKept, Ended, Phase
  <2> QED
    BY <2>1, <2>2, <2>3
<1>2. UNCHANGED vars => Kept
  BY DEF vars
<1> QED
  BY <1>1, <1>2, ExecutionInvariant, PTL DEF Safety, FailFast

-----------------------------------------------------------------------------
(* The sum of two batch sizes, as ints add them *)
LEMMA SumWraps ==
  ASSUME NEW n \in 1 .. MaxInt, NEW m \in 1 .. MaxInt
  PROVE  Wrap(n + m) = IF n + m <= MaxInt THEN n + m ELSE n + m - 2 * (MaxInt + 1)
<1> DEFINE s == 2 * (MaxInt + 1)
<1>1. MaxInt \in Nat
  BY OptionsAssumption
<1>2. \A r \in Int : 0 <= r /\ r < s => r % s = r /\ (r + s) % s = r
  <2> SUFFICES ASSUME NEW r \in Int, 0 <= r, r < s PROVE r % s = r /\ (r + s) % s = r
    OBVIOUS
  <2>1. PICK d \in Nat \ {0} : d = s
    BY <1>1
  <2> HIDE DEF s
  <2>2. r % d = r /\ (r + d) % d = r
    BY <2>1, SMT
  <2> QED BY <2>1, <2>2
<1>3. CASE n + m <= MaxInt
  <2>1. n + m + MaxInt + 1 \in Int /\ 0 <= n + m + MaxInt + 1 /\ n + m + MaxInt + 1 < s
    BY <1>1, <1>3
  <2>2. (n + m + MaxInt + 1) % s = n + m + MaxInt + 1
    BY <1>2, <2>1
  <2> QED BY <1>1, <1>3, <2>2 DEF Wrap
<1>4. CASE ~(n + m <= MaxInt)
  <2> DEFINE r == n + m - MaxInt - 1
  <2>1. r \in Int /\ 0 <= r /\ r < s /\ n + m + MaxInt + 1 = r + s
    BY <1>1, <1>4
  <2>2. (n + m + MaxInt + 1) % s = r
    BY <1>2, <2>1
  <2> QED BY <1>1, <1>4, <2>2 DEF Wrap
<1> QED BY <1>3, <1>4

(* A slice, as far as its length and its indices go *)
SeqLike(s) == Len(s) \in Nat /\ DOMAIN s = 1 .. Len(s) /\ (s = <<>> <=> Len(s) = 0)

LEMMA Sequences ==
  ASSUME NEW S, NEW s \in Seq(S)
  PROVE  SeqLike(s)
BY LenProperties, EmptySeq DEF SeqLike

LEMMA Resolved ==
  ASSUME NEW o \in Options
  PROVE  \E S : resolveRules(o) \in Seq(S)
<1>1. SortRules \in Seq(Rules) /\ Known(o.Selected) \in Seq(Rules)
  BY SortedRules, OptionsAssumption
<1>2. ASSUME NEW s \in Seq(Rules) PROVE \E S : StableSort(s) \in Seq(S)
  <2> DEFINE S == {StableSort(s)[k] : k \in 1 .. Len(s)}
  <2>1. Len(s) \in Nat /\ DOMAIN s = 1 .. Len(s)
    BY LenProperties
  <2>2. StableSort(s) \in [1 .. Len(s) -> S]
    <3> DEFINE e(k) == s[CHOOSE i \in DOMAIN s : Rank(s, i) = k]
    <3>1. StableSort(s) = [k \in 1 .. Len(s) |-> e(k)]
      BY <2>1 DEF StableSort
    <3> HIDE DEF e
    <3>2. \A k \in 1 .. Len(s) : StableSort(s)[k] = e(k)
      BY <3>1
    <3>3. \A k \in 1 .. Len(s) : e(k) \in S
      BY <3>2
    <3> QED BY <3>1, <3>3
  <2> HIDE DEF S
  <2>3. StableSort(s) \in Seq(S)
    BY <2>1, <2>2
  <2> QED BY <2>3
<1> QED BY <1>1, <1>2 DEF resolveRules

(* A phase whose end by an error or by the context names nothing that was  *)
(* collected before *)
Abrupt(f) == ~f.conc /\ ~f.join /\ (f.failFast \/ f.onCancel # "break")

(* What the modes have in common: such a phase comes first, or after a     *)
(* batch that passes no error on.                                          *)
Shape(pl, o) ==
  /\ Len(pl) \in Nat /\ DOMAIN pl = 1 .. Len(pl)
  /\ \A p \in DOMAIN pl :
       /\ SeqLike(pl[p].rules)
       /\ pl[p].stag => o.Mode \in {"Sort", "Mix"}
       /\ pl[p].conc \in BOOLEAN /\ pl[p].failFast \in BOOLEAN
       /\ Abrupt(pl[p]) => /\ pl[p].failFast
                           /\ p = 1 \/ (p = 2 /\ pl[1].conc /\ pl[1].failFast)

(* Options that are let through ask for no more than there is. *)
LEMMA BatchesFit ==
  ASSUME NEW o \in Options, ~Rejected(o), ~SliceOutOfRange(o), o.Mode \in NModes
  PROVE  o.N \in 1 .. Len(resolveRules(o)) /\ o.M \in Nat /\ o.N + o.M <= Len(resolveRules(o))
<1> DEFINE n == Len(resolveRules(o))
<1>1. o.N \in 1 .. MaxInt /\ o.M \in 1 .. MaxInt /\ MaxInt \in Nat
  BY OptionsAssumption DEF Rejected, NModes
<1>2. n \in Nat
  BY Resolved, LenProperties
<1>3. ~(o.N > n) /\ Wrap(o.N + o.M) \in o.N .. n
  BY DEF SliceOutOfRange
<1>4. Wrap(o.N + o.M) = IF o.N + o.M <= MaxInt THEN o.N + o.M ELSE o.N + o.M - 2 * (MaxInt + 1)
  BY <1>1, SumWraps
<1> QED BY <1>1, <1>2, <1>3, <1>4

LEMMA PlanShape ==
  ASSUME NEW o \in Options, ~Rejected(o), ~SliceOutOfRange(o)
  PROVE  Shape(Plan(o), o)
<1> DEFINE rules == resolveRules(o)
           n == Len(rules)
           b == o.ContinueOnError
<1>1. PICK S : rules \in Seq(S)
  BY Resolved
<1>2. /\ n \in Nat /\ SeqLike(rules) /\ (~b) \in BOOLEAN /\ b \in BOOLEAN /\ o.StopTag \in BOOLEAN
      /\ \A i \in 1 .. n : rules[i] \in S
  <2>1. b \in BOOLEAN /\ o.StopTag \in BOOLEAN
    BY OptionsAssumption
  <2>2. (~b) \in BOOLEAN
    BY Zenon
  <2>3. SeqLike(rules) /\ n \in Nat /\ \A i \in 1 .. n : rules[i] \in S
    <3> HIDE DEF rules
    <3> QED BY <1>1, Sequences, LenProperties DEF SeqLike
  <2> QED BY <2>1, <2>2, <2>3, Zenon
<1>3. o.Mode # "DAG" => o.Mode \in Modes /\ rules # <<>>
  BY DEF Rejected
<1>4. ASSUME NEW f, NEW g, SeqLike(f.rules), SeqLike(g.rules),
             f.stag => o.Mode \in {"Sort", "Mix"}, ~g.stag,
             f.conc \in BOOLEAN, g.conc \in BOOLEAN, f.failFast \in BOOLEAN, g.failFast \in BOOLEAN,
             Abrupt(f) => f.failFast,
             Abrupt(g) => g.failFast /\ f.conc /\ f.failFast
      PROVE  Shape(<<f, g>>, o)
  <2>1. PICK pl : pl = <<f, g>>
    OBVIOUS
  <2>2. Len(pl) = 2 /\ DOMAIN pl = {1, 2} /\ pl[1] = f /\ pl[2] = g /\ 1 .. 2 = {1, 2}
    BY <2>1
  <2> QED BY <1>4, <2>1, <2>2 DEF Shape
<1>5. ASSUME NEW f, SeqLike(f.rules), f.stag => o.Mode \in {"Sort", "Mix"},
             f.conc \in BOOLEAN, f.failFast \in BOOLEAN, Abrupt(f) => f.failFast
      PROVE  Shape(<<f>>, o)
  <2>1. PICK pl : pl = <<f>>
    OBVIOUS
  <2>2. Len(pl) = 1 /\ DOMAIN pl = {1} /\ pl[1] = f /\ 1 .. 1 = {1}
    BY <2>1
  <2> QED BY <1>5, <2>1, <2>2 DEF Shape
<1>6. CASE o.Mode = "DAG"
  <2>1. Plan(o) = execDAG(o.DAG)
    BY <1>6 DEF Plan
  <2>2. \A i \in DOMAIN o.DAG : SeqLike(Known(o.DAG[i]))
    BY Sequences, OptionsAssumption
  <2>3. Len(execDAG(o.DAG)) = Len(o.DAG) /\ DOMAIN execDAG(o.DAG) = DOMAIN o.DAG
    <3>1. PICK k \in Nat : k = Len(o.DAG) /\ DOMAIN o.DAG = 1 .. k
      BY OptionsAssumption
    <3> DEFINE e(i) == Concurrent(Known(o.DAG[i]), TRUE, "return")
    <3>2. execDAG(o.DAG) = [i \in 1 .. k |-> e(i)]
      BY <3>1 DEF execDAG
    <3> HIDE DEF e
    <3> QED BY <3>1, <3>2
  <2>4. ASSUME NEW i \in DOMAIN o.DAG
        PROVE  LET f == execDAG(o.DAG)[i]
               IN  f.rules = Known(o.DAG[i]) /\ f.conc = TRUE /\ f.failFast = TRUE /\ f.stag = FALSE
    BY DEF execDAG, Concurrent
  <2> HIDE DEF rules
  <2> QED BY <2>1, <2>2, <2>3, <2>4, OptionsAssumption DEF Shape, Abrupt
<1>7. CASE o.Mode = "Sort"
  <2> DEFINE f == Serial(rules, ~b, "break", o.StopTag, FALSE)
  <2>1. Plan(o) = <<f>>
    BY <1>7 DEF Plan, execSort
  <2>2. /\ f.rules = rules /\ f.conc = FALSE /\ f.failFast = ~b /\ f.onCancel = "break"
    BY DEF Serial
  <2>3. Abrupt(f) => f.failFast
    BY <1>2, <2>2 DEF Abrupt
  <2> HIDE DEF f
  <2> QED BY <1>2, <1>5, <1>7, <2>1, <2>2, <2>3
<1>8. CASE o.Mode = "Concurrent"
  <2> DEFINE f == Concurrent(rules, FALSE, "none")
  <2>1. Plan(o) = <<f>>
    BY <1>8 DEF Plan
  <2>2. f.rules = rules /\ f.conc = TRUE /\ f.failFast = FALSE /\ f.stag = FALSE
    BY DEF Concurrent
  <2> HIDE DEF f
  <2> QED BY <1>2, <1>5, <2>1, <2>2 DEF Abrupt
<1>9. CASE o.Mode = "Mix"
  <2> DEFINE f == Serial(<<Head(rules)>>, TRUE, "return", o.StopTag, FALSE)
             g == Concurrent(Tail(rules), FALSE, "none")
  <2>1. Plan(o) = <<f, g>>
    BY <1>9 DEF Plan, execMix
  <2>2. SeqLike(<<Head(rules)>>) /\ SeqLike(Tail(rules))
    <3>1. Tail(rules) \in Seq(S) /\ Head(rules) \in S
      BY <1>1, <1>3, <1>9, HeadTailProperties
    <3>2. <<Head(rules)>> \in Seq(S)
      BY <3>1
    <3> QED BY <3>1, <3>2, Sequences
  <2>3. /\ f.rules = <<Head(rules)>> /\ f.conc = FALSE /\ f.failFast = TRUE
        /\ g.rules = Tail(rules) /\ g.conc = TRUE /\ g.failFast = FALSE /\ g.stag = FALSE
    BY DEF Serial, Concurrent
  <2> HIDE DEF f, g
  <2> QED BY <1>4, <1>9, <2>1, <2>2, <2>3 DEF Abrupt
<1>10. CASE o.Mode = "InverseMix" /\ n <= 2
  <2> DEFINE f == Serial(rules, FALSE, "break", FALSE, FALSE)
  <2>1. Plan(o) = <<f>>
    BY <1>10 DEF Plan, execInverseMix, execSort
  <2>2. f.rules = rules /\ f.conc = FALSE /\ f.failFast = FALSE /\ f.stag = FALSE /\ f.onCancel = "break"
    BY DEF Serial
  <2> HIDE DEF f
  <2> QED BY <1>2, <1>5, <2>1, <2>2 DEF Abrupt
<1>11. CASE o.Mode = "InverseMix" /\ ~(n <= 2)
  <2> DEFINE f == Concurrent(SubSeq(rules, 1, n - 1), FALSE, "none")
             g == Serial(<<rules[n]>>, TRUE, "return", FALSE, TRUE)
  <2>1. Plan(o) = <<f, g>>
    BY <1>11 DEF Plan, execInverseMix
  <2>2. SeqLike(SubSeq(rules, 1, n - 1)) /\ SeqLike(<<rules[n]>>)
    <3>1. n - 1 \in Int /\ \A i \in 1 .. n - 1 : rules[i] \in S
      BY <1>2
    <3>2. SubSeq(rules, 1, n - 1) \in Seq(S)
      BY <3>1, SubSeqProperties
    <3>3. <<rules[n]>> \in Seq({rules[n]})
      OBVIOUS
    <3> QED BY <3>2, <3>3, Sequences
  <2>3. /\ f.rules = SubSeq(rules, 1, n - 1) /\ f.conc = TRUE /\ f.failFast = FALSE /\ f.stag = FALSE
        /\ g.rules = <<rules[n]>> /\ g.conc = FALSE /\ g.failFast = TRUE /\ g.stag = FALSE /\ g.join = TRUE
    BY DEF Serial, Concurrent
  <2> HIDE DEF f, g
  <2> QED BY <1>4, <2>1, <2>2, <2>3 DEF Abrupt
<1>12. CASE o.Mode \in NModes
  <2> DEFINE nRules == SubSeq(rules, 1, o.N)
             mRules == SubSeq(rules, o.N + 1, o.N + o.M)
  <2>1. o.N \in 1 .. n /\ o.M \in Nat /\ o.N + o.M <= n
    BY <1>12, BatchesFit
  <2>2. SeqLike(nRules) /\ SeqLike(mRules)
    <3>1. /\ \A i \in 1 .. o.N : rules[i] \in S
          /\ \A i \in (o.N + 1) .. (o.N + o.M) : rules[i] \in S
          /\ 1 \in Int /\ o.N \in Int /\ o.N + 1 \in Int /\ o.N + o.M \in Int
      BY <1>2, <2>1
    <3>2. nRules \in Seq(S) /\ mRules \in Seq(S)
      BY <3>1, SubSeqProperties
    <3> QED BY <3>2, Sequences
  <2> HIDE DEF nRules, mRules
  <2>3. CASE o.Mode = "NSortMConcurrent"
    <3> DEFINE f == Serial(nRules, ~b, "break", FALSE, FALSE)
               g == Concurrent(mRules, FALSE, "none")
    <3>1. Plan(o) = <<f, g>>
      BY <2>3 DEF Plan, execNSortM, nRules, mRules
    <3>2. /\ f.rules = nRules /\ f.conc = FALSE /\ f.failFast = ~b /\ f.onCancel = "break" /\ f.stag = FALSE
          /\ g.rules = mRules /\ g.conc = TRUE /\ g.failFast = FALSE /\ g.stag = FALSE
      BY DEF Serial, Concurrent
    <3>3. Abrupt(f) => f.failFast
      BY <1>2, <3>2 DEF Abrupt
    <3> HIDE DEF f, g
    <3> QED BY <1>2, <1>4, <2>2, <3>1, <3>2, <3>3 DEF Abrupt
  <2>4. CASE o.Mode = "NConcurrentMSort"
    <3> DEFINE f == Concurrent(nRules, ~b, "none")
               g == Serial(mRules, ~b, "break", FALSE, FALSE)
    <3>1. Plan(o) = <<f, g>>
      BY <2>4 DEF Plan, execNConcurrentM, nRules, mRules
    <3>2. /\ f.rules = nRules /\ f.conc = TRUE /\ f.failFast = ~b /\ f.stag = FALSE
          /\ g.rules = mRules /\ g.conc = FALSE /\ g.failFast = ~b /\ g.onCancel = "break" /\ g.stag = FALSE
      BY DEF Serial, Concurrent
    <3>3. Abrupt(g) => g.failFast /\ f.conc /\ f.failFast
      BY <1>2, <3>2 DEF Abrupt
    <3> HIDE DEF f, g
    <3> QED BY <1>2, <1>4, <2>2, <3>1, <3>2, <3>3 DEF Abrupt
  <2>5. CASE o.Mode = "NConcurrentMConcurrent"
    <3> DEFINE f == Concurrent(nRules, ~b, "none")
               g == Concurrent(mRules, FALSE, "none")
    <3>1. Plan(o) = <<f, g>>
      BY <2>5 DEF Plan, execNConcurrentM, nRules, mRules
    <3>2. /\ f.rules = nRules /\ f.conc = TRUE /\ f.failFast = ~b /\ f.stag = FALSE
          /\ g.rules = mRules /\ g.conc = TRUE /\ g.failFast = FALSE /\ g.stag = FALSE
      BY DEF Concurrent
    <3> HIDE DEF f, g
    <3> QED BY <1>2, <1>4, <2>2, <3>1, <3>2 DEF Abrupt
  <2> QED BY <1>12, <2>3, <2>4, <2>5 DEF NModes
<1> QED
  BY <1>3, <1>6, <1>7, <1>8, <1>9, <1>10, <1>11, <1>12 DEF Modes

-----------------------------------------------------------------------------
Listed(x) == \E p \in DOMAIN plan : \E i \in DOMAIN plan[p].rules : x = <<p, i>>

LEMMA ListedAre == \A x : x \in Occurrences <=> Listed(x)
BY DEF Listed, Occurrences

(* Where the caller is, and that nothing is there before the start *)
Position ==
  /\ opts \in Options
  /\ Shape(plan, opts)
  /\ ph \in Nat \ {0} /\ next \in Nat \ {0}
  /\ pc \in {"enter", "launch", "wait", "serial", "execute"} => ph <= Len(plan) + 1
  /\ pc \in {"launch", "wait", "serial", "execute"} => ph \in DOMAIN plan
  /\ pc = "start" => plan = <<>> /\ ph = 1 /\ next = 1 /\ errs = {} /\ failed = {}
  /\ pc = "enter" => next = 1
  /\ pc = "execute" => next <= Len(Phase.rules)
  /\ gctx /\ pc \in {"launch", "wait"} => cancelled
  /\ \A x \in launched \cup running \cup done : Listed(x)

(* What has failed has been collected; and where the end of a phase names  *)
(* nothing that was collected before, there was nothing to name.           *)
Collected ==
  ~Ended =>
    /\ failed \subseteq errs
    /\ pc = "enter" /\ ph = 1 => errs = {}
    /\ pc \in {"enter", "serial", "execute"} /\ ph \in DOMAIN plan /\ Abrupt(Phase) => errs = {}

(* Unless an error says otherwise, what lies behind the caller was run.    *)
Behind ==
  ~Ended =>
    /\ errs = {} => \A p \in DOMAIN plan : p < ph => \A i \in DOMAIN plan[p].rules : <<p, i>> \in done
    /\ pc \in {"serial", "execute"} =>
         \A i \in DOMAIN Phase.rules : i < next => <<ph, i>> \in done
    /\ pc \in {"launch", "wait"} /\ ~gctx =>
         \A i \in DOMAIN Phase.rules : i < next => <<ph, i>> \in launched \cup running \cup done
    /\ pc = "wait" /\ ~gctx => next > Len(Phase.rules)

Told == Position /\ Collected /\ Behind /\ OutcomeIsHonest

LEMMA InitTold == Init => Told
<1> SUFFICES ASSUME Init PROVE Told
  OBVIOUS
<1>1. Shape(<<>>, opts)
  BY DEF Shape
<1>2. Position
  BY <1>1 DEF Init, Position
<1> QED BY <1>2 DEF Init, Told, Collected, Behind, OutcomeIsHonest, Ended

(* Before the first phase *)
LEMMA ToldReject == ASSUME IInv, Told, Reject PROVE Told'
<1>1. Position'
  BY DEF Reject, Told, Position, Return, control, position, flags, Listed, Phase
<1> QED
  BY <1>1 DEF Reject, Told, Position, Return, position, flags, control,
              Collected, Behind, OutcomeIsHonest, Ended

LEMMA ToldStart == ASSUME IInv, Told, Start PROVE Told'
<1>1. /\ pc = "start" /\ ~Rejected(opts) /\ opts \in Options /\ opts' = opts
      /\ ph' = 1 /\ next' = 1 /\ errs' = {} /\ failed' = {}
      /\ launched' = {} /\ running' = {} /\ done' = {} /\ err' = err
  BY DEF Start, IInv, Joined, Told, Position, position
<1>2. CASE SliceOutOfRange(opts)
  <2>1. pc' = "panicked" /\ plan' = plan
    BY <1>2 DEF Start
  <2>2. Wrap(opts.N + opts.M) # opts.N + opts.M
    <3>1. Len(resolveRules(opts)) \in Nat
      BY <1>1, Resolved, LenProperties
    <3>2. MaxInt \in Nat
      BY OptionsAssumption
    <3>3. opts.Mode \in NModes /\ opts.Mode # "DAG"
      BY <1>2 DEF SliceOutOfRange, NModes
    <3>4. opts.N \in 1 .. MaxInt /\ opts.M \in 1 .. MaxInt
      BY <1>1, <3>3, OptionsAssumption DEF Rejected
    <3>5. Wrap(opts.N + opts.M) \in Int
      BY <3>2, <3>4, SumWraps
    <3>6. /\ opts.N \in 1 .. MaxInt /\ opts.M \in 1 .. MaxInt
          /\ Wrap(opts.N + opts.M) <= Len(resolveRules(opts))
      BY <1>1, <3>3, <3>1, <3>4, <3>5 DEF Rejected
    <3>7. opts.N > Len(resolveRules(opts)) \/ Wrap(opts.N + opts.M) \notin opts.N .. Len(resolveRules(opts))
      BY <1>2 DEF SliceOutOfRange
    <3> QED BY <3>6, <3>7, <3>1, <3>2
  <2>3. Position'
    BY <1>1, <2>1 DEF Told, Position
  <2> QED BY <1>1, <2>1, <2>2, <2>3 DEF Told, Collected, Behind, OutcomeIsHonest, Ended
<1>3. CASE ~SliceOutOfRange(opts)
  <2>1. pc' = "enter" /\ plan' = Plan(opts) /\ Shape(plan', opts')
    BY <1>1, <1>3, PlanShape DEF Start
  <2>2. Position'
    BY <1>1, <2>1 DEF Position, Shape
  <2>3. \A p \in DOMAIN plan' : ~(p < 1)
    BY <2>1 DEF Shape
  <2> QED BY <1>1, <2>1, <2>2, <2>3 DEF Told, Collected, Behind, OutcomeIsHonest, Ended
<1> QED BY <1>2, <1>3

LEMMA ToldEnter ==
  ASSUME IInv, Told, EnterCancelled \/ EnterConcurrent \/ EnterSerial \/ End
  PROVE  Told'
<1>1. CASE EnterCancelled
  <2>1. Position'
    BY <1>1 DEF EnterCancelled, Told, Position, Return, control, position, flags, Listed, Phase
  <2> QED BY <1>1, <2>1 DEF EnterCancelled, Told, Return, position, flags, control,
                            Collected, Behind, OutcomeIsHonest, Ended
<1>2. CASE EnterConcurrent
  <2>1. Position'
    BY <1>2 DEF EnterConcurrent, Told, Position, Shape, control, position, flags, Listed, Phase
  <2>2. Collected'
    BY <1>2 DEF EnterConcurrent, Told, position, control, Collected, Ended
  <2>3. \A i \in DOMAIN Phase.rules : ~(i < 1)
    BY <1>2 DEF EnterConcurrent, Told, Position, Shape, SeqLike, Phase
  <2>4. Behind'
    BY <1>2, <2>3 DEF EnterConcurrent, Told, Position, position, control, Behind, Ended, Phase
  <2> QED BY <1>2, <2>1, <2>2, <2>4 DEF EnterConcurrent, Told, OutcomeIsHonest, position, control
<1>3. CASE EnterSerial
  <2>1. Position'
    BY <1>3 DEF EnterSerial, Told, Position, Shape, control, position, flags, Listed, Phase
  <2>2. Collected'
    BY <1>3 DEF EnterSerial, Told, position, control, Collected, Ended, Phase, Abrupt
  <2>3. \A i \in DOMAIN Phase.rules : ~(i < 1)
    BY <1>3 DEF EnterSerial, Told, Position, Shape, SeqLike, Phase
  <2>4. Behind'
    BY <1>3, <2>3 DEF EnterSerial, Told, Position, position, control, flags, Behind, Ended, Phase
  <2> QED BY <1>3, <2>1, <2>2, <2>4 DEF EnterSerial, Told, OutcomeIsHonest, position, control, flags
<1>4. CASE End
  <2>1. Position'
    BY <1>4 DEF End, Told, Position, Return, control, position, flags, Listed, Phase
  <2>2. errs = {} => failed = {} /\ done = Occurrences
    <3> SUFFICES ASSUME errs = {} PROVE failed = {} /\ done = Occurrences
      OBVIOUS
    <3>1. failed = {} /\ \A p \in DOMAIN plan : \A i \in DOMAIN plan[p].rules : <<p, i>> \in done
      BY <1>4 DEF End, Told, Position, Shape, Collected, Behind, Ended
    <3>2. \A x \in done : Listed(x)
      BY DEF Told, Position
    <3> QED BY <3>1, <3>2, ListedAre DEF Listed
  <2>3. pc' = "returned" /\ err' = errs /\ failed \subseteq errs
    BY <1>4 DEF End, Return, Told, Collected, Ended
  <2>4. OutcomeIsHonest'
    <3>1. failed' = failed /\ done' = done /\ Occurrences' = Occurrences
      BY <1>4 DEF End, control, Occurrences
    <3> QED BY <2>2, <2>3, <3>1 DEF OutcomeIsHonest
  <2> QED BY <2>1, <2>3, <2>4 DEF Told, Collected, Behind, Ended
<1> QED BY <1>1, <1>2, <1>3, <1>4

(* A phase is over, with these errors, and the next begins *)
LEMMA ToldNext ==
  ASSUME IInv, Told, ph \in DOMAIN plan, ~Ended, NextPhase,
         UNCHANGED <<control, launched, running, done, failed, result, flags>>,
         errs \subseteq errs',
         errs' = {} => \A i \in DOMAIN Phase.rules : <<ph, i>> \in done,
         ph = 1 /\ Phase.conc /\ Phase.failFast => errs' = {}
  PROVE  Told'
<1>1. /\ pc' = "enter" /\ ph' = ph + 1 /\ next' = 1 /\ plan' = plan /\ opts' = opts
      /\ launched' = launched /\ running' = running /\ done' = done /\ failed' = failed
  BY DEF NextPhase, control
<1>2. Position'
  BY <1>1 DEF Told, Position, Shape, Listed, flags
<1>3. Collected'
  <2>1. failed' \subseteq errs'
    BY <1>1 DEF Told, Collected
  <2>2. ~(ph' = 1)
    BY <1>1 DEF Told, Position
  <2>3. ASSUME ph' \in DOMAIN plan', Abrupt(Phase)' PROVE errs' = {}
    BY <1>1, <2>3 DEF Told, Position, Shape, Phase, Abrupt
  <2> QED BY <1>1, <2>1, <2>2, <2>3 DEF Collected
<1>4. Behind'
  <2>1. ASSUME errs' = {}, NEW p \in DOMAIN plan, p < ph', NEW i \in DOMAIN plan[p].rules
        PROVE  <<p, i>> \in done'
    <3>1. p < ph \/ p = ph
      BY <1>1, <2>1 DEF Told, Position, Shape
    <3>2. errs = {}
      BY <2>1
    <3> QED BY <1>1, <2>1, <3>1, <3>2 DEF Told, Behind, Phase
  <2> QED BY <1>1, <2>1 DEF Behind
<1>5. OutcomeIsHonest'
  BY <1>1 DEF OutcomeIsHonest
<1> QED BY <1>2, <1>3, <1>4, <1>5 DEF Told

LEMMA ToldEmpty == ASSUME IInv, Told, EnterEmpty PROVE Told'
<1>1. /\ ph \in DOMAIN plan /\ ~Ended /\ NextPhase /\ errs' = errs
      /\ UNCHANGED <<control, launched, running, done, failed, result, flags>>
  BY DEF EnterEmpty, Ended, Told, Position, Shape
<1>2. \A i \in DOMAIN Phase.rules : FALSE
  BY <1>1 DEF EnterEmpty, Told, Position, Shape, SeqLike, Phase
<1>3. ph = 1 => errs = {}
  BY DEF EnterEmpty, Told, Collected, Ended
<1> QED BY <1>1, <1>2, <1>3, ToldNext

LEMMA ToldSerialDone == ASSUME IInv, Told, SerialDone PROVE Told'
<1>1. /\ ph \in DOMAIN plan /\ ~Ended /\ NextPhase /\ errs' = errs /\ ~Phase.conc
      /\ UNCHANGED <<control, launched, running, done, failed, result, flags>>
  BY DEF SerialDone, Ended, Told, Position, IInv, Joined
<1>2. \A i \in DOMAIN Phase.rules : i < next
  BY <1>1 DEF SerialDone, Told, Position, Shape, SeqLike, Phase
<1>3. \A i \in DOMAIN Phase.rules : <<ph, i>> \in done
  BY <1>1, <1>2 DEF SerialDone, Told, Behind
<1> QED BY <1>1, <1>3, ToldNext

LEMMA ToldSerialCancelled == ASSUME IInv, Told, SerialCancelled PROVE Told'
<1>1. /\ ph \in DOMAIN plan /\ ~Ended /\ ~Phase.conc /\ pc = "serial"
      /\ UNCHANGED <<control, launched, running, done, failed, result, flags>>
  BY DEF SerialCancelled, Ended, Told, Position, IInv, Joined
<1>2. CASE Phase.onCancel = "break"
  <2>1. NextPhase /\ errs' = errs \cup {ctxErr}
    BY <1>2 DEF SerialCancelled
  <2> QED BY <1>1, <2>1, ToldNext
<1>3. CASE Phase.onCancel # "break"
  <2>1. /\ pc' = "returned" /\ ph' = ph /\ next' = next /\ errs' = errs
        /\ err' = IF Phase.join THEN errs \cup {ctxErr} ELSE {ctxErr}
    BY <1>3 DEF SerialCancelled, Return
  <2>2. failed \subseteq err' /\ err' # {}
    <3>1. ~Phase.join => errs = {}
      BY <1>1, <1>3 DEF Told, Collected, Abrupt
    <3> QED BY <1>1, <2>1, <3>1 DEF Told, Collected
  <2>3. Position'
    BY <1>1, <2>1 DEF Told, Position, Listed, control, flags
  <2> QED BY <1>1, <2>1, <2>2, <2>3 DEF Told, Collected, Behind, OutcomeIsHonest, Ended
<1> QED BY <1>2, <1>3

LEMMA ToldSerialStart == ASSUME IInv, Told, SerialStart PROVE Told'
<1>1. /\ pc = "serial" /\ pc' = "execute" /\ ph \in DOMAIN plan /\ next \in DOMAIN Phase.rules
      /\ next <= Len(Phase.rules)
      /\ running' = running \cup {Occurrence} /\ Listed(Occurrence)
      /\ UNCHANGED <<control, ph, next, launched, done, failed, errs, err, result, flags>>
  <2>1. pc = "serial" /\ ph \in DOMAIN plan /\ next \in DOMAIN Phase.rules
    BY DEF SerialStart, Told, Position, Shape, SeqLike, Phase
  <2> QED BY <2>1 DEF SerialStart, Listed, Occurrence, Phase
<1>2. Position'
  BY <1>1 DEF Told, Position, Listed, Phase, control, flags
<1>3. Collected' /\ Behind'
  BY <1>1 DEF Told, Collected, Behind, Ended, Phase, control, flags
<1> QED BY <1>1, <1>2, <1>3 DEF Told, OutcomeIsHonest

(* The rule of a serial phase ends. *)
LEMMA ToldSerialEnd == ASSUME IInv, Told, NEW out \in Outcomes, SerialEnd(out) PROVE Told'
<1>1. /\ pc = "execute" /\ ph \in DOMAIN plan /\ next \in DOMAIN Phase.rules /\ Listed(Occurrence)
      /\ ~Ended /\ ~Phase.conc /\ next <= Len(Phase.rules) /\ next \in Nat
      /\ running' = {} /\ launched' = launched /\ launched = {} /\ done' = done \cup {Occurrence}
      /\ failed' = IF HasError(out) THEN failed \cup {Occurrence} ELSE failed
      /\ plan' = plan /\ opts' = opts /\ cancelled' = cancelled /\ gctx' = gctx /\ sTag' = sTag
  <2>1. /\ pc = "execute" /\ ph \in DOMAIN plan /\ next \in DOMAIN Phase.rules /\ next \in Nat
        /\ next <= Len(Phase.rules)
    BY DEF SerialEnd, Told, Position, Shape, SeqLike, Phase
  <2> QED BY <2>1 DEF SerialEnd, EndRule, IInv, Joined, Ended, Listed, Occurrence, Phase, control, flags
<1>2. CASE HasError(out) /\ Phase.failFast
  <2>1. /\ pc' = "returned" /\ ph' = ph /\ next' = next /\ errs' = errs
        /\ err' = IF Phase.join THEN errs \cup {Occurrence} ELSE {Occurrence}
        /\ failed' = failed \cup {Occurrence}
    BY <1>1, <1>2 DEF SerialEnd, Return
  <2>2. failed' \subseteq err' /\ err' # {}
    <3>1. ~Phase.join => errs = {}
      BY <1>1, <1>2 DEF Told, Collected, Abrupt
    <3> QED BY <1>1, <2>1, <3>1 DEF Told, Collected
  <2>3. Position'
    BY <1>1, <2>1 DEF Told, Position, Listed
  <2> QED BY <1>1, <2>1, <2>2, <2>3 DEF Told, Collected, Behind, OutcomeIsHonest, Ended
<1>3. CASE ~(HasError(out) /\ Phase.failFast) /\ Phase.stag /\ sTag
  <2>1. /\ pc' = "returned" /\ ph' = ph /\ next' = next /\ err' = errs'
        /\ errs' = IF HasError(out) THEN errs \cup {Occurrence} ELSE errs
    BY <1>1, <1>3 DEF SerialEnd, Return
  <2>2. failed' \subseteq errs'
    BY <1>1, <2>1 DEF Told, Collected
  <2>3. opts.Mode \in {"Sort", "Mix"}
    BY <1>1, <1>3 DEF Told, Position, Shape, Phase
  <2>4. Position'
    BY <1>1, <2>1 DEF Told, Position, Listed
  <2> QED BY <1>1, <1>3, <2>1, <2>2, <2>3, <2>4 DEF Told, Collected, Behind, OutcomeIsHonest, Ended
<1>4. CASE ~(HasError(out) /\ Phase.failFast) /\ ~(Phase.stag /\ sTag)
  <2>1. /\ pc' = "serial" /\ ph' = ph /\ next' = next + 1
        /\ errs' = IF HasError(out) THEN errs \cup {Occurrence} ELSE errs
    BY <1>1, <1>4 DEF SerialEnd
  <2>2. Collected'
    <3>1. failed' \subseteq errs'
      BY <1>1, <2>1 DEF Told, Collected
    <3>2. Abrupt(Phase) => errs' = {}
      <4>1. Abrupt(Phase) => errs = {} /\ Phase.failFast
        BY <1>1 DEF Told, Collected, Position, Shape, Phase
      <4> QED BY <1>4, <2>1, <4>1
    <3> QED BY <1>1, <2>1, <3>1, <3>2 DEF Collected, Phase
  <2>3. Behind'
    <3>1. \A i \in DOMAIN Phase.rules : i < next + 1 => i < next \/ i = next
      BY <1>1 DEF Told, Position, Shape, SeqLike, Phase
    <3>2. \A i \in DOMAIN Phase.rules : i < next + 1 => <<ph, i>> \in done'
      BY <1>1, <3>1 DEF Told, Behind, Occurrence
    <3>3. errs' = {} => errs = {}
      BY <2>1
    <3> QED BY <1>1, <2>1, <3>2, <3>3 DEF Told, Behind, Phase
  <2>4. Position'
    BY <1>1, <2>1 DEF Told, Position, Listed
  <2> QED BY <1>1, <2>1, <2>2, <2>3, <2>4 DEF Told, OutcomeIsHonest
<1> QED BY <1>2, <1>3, <1>4

LEMMA ToldSerialPanic == ASSUME IInv, Told, SerialPanic PROVE Told'
<1>1. /\ pc = "execute" /\ pc' = "panicked" /\ ph \in DOMAIN plan /\ next \in DOMAIN Phase.rules
      /\ Listed(Occurrence) /\ running' = {} /\ launched' = {}
      /\ done' = done \cup {Occurrence} /\ failed' = failed \cup {Occurrence}
      /\ UNCHANGED <<control, ph, next, errs, err, flags>>
  <2>1. pc = "execute" /\ ph \in DOMAIN plan /\ next \in DOMAIN Phase.rules
    BY DEF SerialPanic, Told, Position, Shape, SeqLike, Phase
  <2> QED BY <2>1 DEF SerialPanic, EndRule, HasError, IInv, Joined, Listed, Occurrence, Phase
<1>2. Position'
  BY <1>1 DEF Told, Position, Listed, control, flags
<1> QED BY <1>1, <1>2 DEF Told, Collected, Behind, OutcomeIsHonest, Ended

LEMMA ToldLaunch == ASSUME IInv, Told, Launch \/ LaunchDone PROVE Told'
<1>1. CASE Launch
  <2>1. /\ pc = "launch" /\ ph \in DOMAIN plan /\ next \in DOMAIN Phase.rules /\ next \in Nat
        /\ Listed(Occurrence) /\ ~gctx
        /\ launched' = launched \cup {Occurrence} /\ next' = next + 1
        /\ UNCHANGED <<control, pc, ph, running, done, failed, errs, err, result, flags>>
    <3>1. pc = "launch" /\ ph \in DOMAIN plan /\ next \in DOMAIN Phase.rules /\ next \in Nat
      BY <1>1 DEF Launch, Told, Position, Shape, SeqLike, Phase
    <3> QED BY <1>1, <3>1 DEF Launch, Listed, Occurrence, Phase
  <2>2. Position'
    BY <2>1 DEF Told, Position, Listed, Phase, control, flags
  <2>3. Collected'
    BY <2>1 DEF Told, Collected, Ended
  <2>4. Behind'
    <3>1. \A i \in DOMAIN Phase.rules : i < next + 1 => i < next \/ i = next
      BY <2>1 DEF Told, Position, Shape, SeqLike, Phase
    <3>2. \A i \in DOMAIN Phase.rules : i < next + 1 => <<ph, i>> \in launched' \cup running \cup done
      BY <2>1, <3>1 DEF Told, Behind, Occurrence, Ended
    <3> QED BY <2>1, <3>2 DEF Told, Behind, Phase, Ended, control
  <2> QED BY <2>1, <2>2, <2>3, <2>4 DEF Told, OutcomeIsHonest
<1>2. CASE LaunchDone
  <2>1. /\ pc = "launch" /\ pc' = "wait" /\ ph \in DOMAIN plan /\ (next > Len(Phase.rules) \/ gctx)
        /\ UNCHANGED <<control, ph, next, launched, running, done, failed, errs, err, result, flags>>
    BY <1>2 DEF LaunchDone, Told, Position
  <2>2. Position'
    BY <2>1 DEF Told, Position, Listed, control, flags
  <2>3. Collected' /\ Behind'
    BY <2>1 DEF Told, Collected, Behind, Ended, Phase, control, flags
  <2> QED BY <2>1, <2>2, <2>3 DEF Told, OutcomeIsHonest
<1> QED BY <1>1, <1>2

LEMMA ToldWait == ASSUME IInv, Told, Wait PROVE Told'
<1>1. /\ pc = "wait" /\ ph \in DOMAIN plan /\ ~Ended /\ Phase.conc
      /\ launched = {} /\ running = {}
      /\ errs' = (IF cancelled THEN errs \cup {ctxErr} ELSE errs)
      /\ UNCHANGED <<control, launched, running, done, failed, result, flags>>
  BY DEF Wait, Told, Position, IInv, Joined, Ended
<1>2. CASE Phase.failFast /\ errs' # {}
  <2>1. pc' = "returned" /\ ph' = ph /\ next' = next /\ err' = errs'
    BY <1>2 DEF Wait, Return
  <2>2. failed \subseteq err' /\ err' # {}
    BY <1>1, <1>2, <2>1 DEF Told, Collected
  <2>3. Position'
    BY <1>1, <2>1 DEF Told, Position, Listed, control, flags
  <2> QED BY <1>1, <2>1, <2>2, <2>3 DEF Told, Collected, Behind, OutcomeIsHonest, Ended
<1>3. CASE ~(Phase.failFast /\ errs' # {})
  <2>1. NextPhase
    BY <1>3 DEF Wait
  <2>2. ASSUME errs' = {}, NEW i \in DOMAIN Phase.rules PROVE <<ph, i>> \in done
    <3>1. ~gctx
      BY <1>1, <2>2 DEF Told, Position
    <3>2. i < next
      BY <1>1, <3>1 DEF Told, Position, Behind, Shape, SeqLike, Phase
    <3> QED BY <1>1, <3>1, <3>2 DEF Told, Behind
  <2> QED BY <1>1, <1>3, <2>1, <2>2, ToldNext
<1> QED BY <1>2, <1>3

(* The goroutines of a batch *)
LEMMA ToldGoroutine == ASSUME IInv, Told, Goroutine PROVE Told'
<1>1. ASSUME NEW x \in launched, GoStart(x) PROVE Told'
  <2>1. /\ pc \in {"launch", "wait"} /\ ~Ended
        /\ launched' = launched \ {x} /\ running' = (IF gctx THEN running ELSE running \cup {x})
        /\ UNCHANGED <<control, pc, ph, next, done, failed, errs, err, result, flags>>
    BY <1>1 DEF GoStart, IInv, Joined, Ended
  <2>2. Position'
    BY <2>1 DEF Told, Position, Listed, Phase, control, flags
  <2>3. Collected' /\ Behind'
    BY <2>1 DEF Told, Collected, Behind, Ended, Phase, control, flags
  <2> QED BY <2>1, <2>2, <2>3 DEF Told, OutcomeIsHonest, Ended
<1>2. ASSUME NEW x \in running, NEW out \in Outcomes, GoEnd(x, out) PROVE Told'
  <2>1. /\ pc \in {"launch", "wait"} /\ ~Ended
        /\ running' = running \ {x} /\ done' = done \cup {x}
        /\ failed' = (IF HasError(out) THEN failed \cup {x} ELSE failed)
        /\ errs' = (IF HasError(out) THEN errs \cup {x} ELSE errs)
        /\ UNCHANGED <<control, pc, ph, next, launched, err, flags>>
    BY <1>2 DEF GoEnd, EndRule, IInv, Joined, Ended, Phase
  <2>2. Position'
    BY <2>1 DEF Told, Position, Listed, Phase, control, flags
  <2>3. Collected'
    BY <2>1 DEF Told, Collected, Ended
  <2>4. Behind'
    <3>1. errs' = {} => errs = {}
      BY <2>1
    <3> QED BY <2>1, <3>1 DEF Told, Behind, Ended, Phase, control, flags
  <2> QED BY <2>1, <2>2, <2>3, <2>4 DEF Told, OutcomeIsHonest, Ended
<1> QED BY <1>1, <1>2 DEF Goroutine

LEMMA ToldFlags == ASSUME IInv, Told, Cancel \/ Propagate \/ SetStopTag \/ UNCHANGED vars PROVE Told'
<1>1. CASE Cancel \/ Propagate \/ SetStopTag
  <2>1. /\ ~Ended /\ (cancelled => cancelled')
        /\ (gctx' => gctx \/ cancelled)
        /\ UNCHANGED <<control, pc, ph, next, launched, running, done, failed, errs, err, result>>
    BY <1>1 DEF Cancel, Propagate, SetStopTag, Ended
  <2>2. (gctx => gctx') /\ (gctx' /\ pc \in {"launch", "wait"} => cancelled')
    BY <1>1 DEF Cancel, Propagate, SetStopTag, Told, Position
  <2>3. Position'
    BY <2>1, <2>2 DEF Told, Position, Listed, Phase, control
  <2>4. Collected' /\ Behind'
    BY <2>1, <2>2 DEF Told, Collected, Behind, Ended, Phase, control
  <2> QED BY <2>1, <2>3, <2>4 DEF Told, OutcomeIsHonest, Ended
<1>2. CASE UNCHANGED vars
  BY <1>2 DEF vars, control, flags, Told, Position, Listed, Collected, Behind, OutcomeIsHonest,
              Occurrences, Ended, Phase
<1> QED BY <1>1, <1>2

LEMMA ToldStep == IInv /\ Told /\ [Next]_vars => Told'
BY ToldReject, ToldStart, ToldEnter, ToldEmpty, ToldSerialDone, ToldSerialCancelled, ToldSerialStart,
   ToldSerialEnd, ToldSerialPanic, ToldLaunch, ToldWait, ToldGoroutine, ToldFlags
   DEF Next, Caller

(* Whatever mode, options, rules and moments of cancellation: the error    *)
(* names every failure, no error means that nothing was left out, and only *)
(* a rule or batch sizes that wrap make an execution panic.                *)
THEOREM OutcomesHonest == Safety => []OutcomeIsHonest
<1>1. Told => OutcomeIsHonest
  BY DEF Told
<1> QED BY <1>1, InitTold, ToldStep, ExecutionInvariant, PTL DEF Safety

-----------------------------------------------------------------------------
(* By descending salience *)
Ordered(s) == \A i, j \in DOMAIN s : i < j => Salience[s[i]] >= Salience[s[j]]

(* The positions that come before j in the stable order, j among them, are *)
(* what Rank counts.  The count is one to one, hence hits every position.  *)
LEMMA Ranks ==
  ASSUME NEW s \in Seq(Rules)
  PROVE  /\ \A i, j \in DOMAIN s : Salience[s[i]] > Salience[s[j]] => Rank(s, i) < Rank(s, j)
         /\ \A k \in DOMAIN s : \E i \in DOMAIN s : Rank(s, i) = k
<1> DEFINE D == 1 .. Len(s)
           Sal(i) == Salience[s[i]]
           Before(j) == {i \in D : Sal(i) > Sal(j) \/ (Sal(i) = Sal(j) /\ i <= j)}
<1>1. DOMAIN s = D /\ Len(s) \in Nat /\ IsFiniteSet(D) /\ Cardinality(D) = Len(s)
  <2>1. DOMAIN s = D /\ Len(s) \in Nat
    BY LenProperties
  <2> QED BY <2>1, FS_Interval
<1>2. \A i \in D : Sal(i) \in Int /\ Rank(s, i) = Cardinality(Before(i))
  <2>1. \A i \in D : s[i] \in Rules
    BY <1>1
  <2>2. \A i \in D : Sal(i) \in Int
    BY <2>1, SortedRules
  <2> QED BY <1>1, <2>2 DEF Rank
<1>9. \A i, j \in D : i \in Before(j) <=> Sal(i) > Sal(j) \/ (Sal(i) = Sal(j) /\ i <= j)
  OBVIOUS
<1>10. \A i \in D : i \in Int /\ Sal(i) \in Int
  <2>1. \A i \in D : i \in Int
    BY <1>1
  <2>2. \A i \in D : Sal(i) \in Int
    BY <1>2, Zenon
  <2> QED BY <2>1, <2>2, Zenon
<1> HIDE DEF Sal
<1>3. \A i \in D : /\ Before(i) \in SUBSET D /\ i \in Before(i) /\ IsFiniteSet(Before(i))
                   /\ Cardinality(Before(i)) \in 1 .. Len(s)
  <2> SUFFICES ASSUME NEW i \in D
               PROVE  /\ Before(i) \in SUBSET D /\ i \in Before(i) /\ IsFiniteSet(Before(i))
                      /\ Cardinality(Before(i)) \in 1 .. Len(s)
    OBVIOUS
  <2>1. Before(i) \in SUBSET D /\ i \in Before(i)
    BY <1>1, <1>2
  <2>2. IsFiniteSet(Before(i)) /\ Cardinality(Before(i)) <= Cardinality(D)
    BY <1>1, <2>1, FS_Subset
  <2>3. Cardinality(Before(i)) \in Nat /\ Cardinality(Before(i)) # 0
    BY <2>1, <2>2, FS_CardinalityType, FS_EmptySet
  <2> QED BY <1>1, <2>1, <2>2, <2>3
<1>4. \A i, j \in D : i \in Before(j) /\ i # j => Cardinality(Before(i)) < Cardinality(Before(j))
  <2> SUFFICES ASSUME NEW i \in D, NEW j \in D, i \in Before(j), i # j
               PROVE  Cardinality(Before(i)) < Cardinality(Before(j))
    OBVIOUS
  <2>1. Before(i) \in SUBSET Before(j) /\ j \notin Before(i) /\ j \in Before(j)
    <3>1. j \notin Before(i) /\ j \in Before(j)
      BY <1>9, <1>10
    <3>2. ASSUME NEW h \in Before(i) PROVE h \in Before(j)
      <4>1. h \in D
        OBVIOUS
      <4>2. PICK a, c, d : a = Sal(h) /\ c = Sal(i) /\ d = Sal(j) /\ a \in Int /\ c \in Int /\ d \in Int
        BY <1>10, <4>1
      <4> HIDE DEF Before, D
      <4>3. (a > c \/ (a = c /\ h <= i)) /\ (c > d \/ (c = d /\ i <= j))
        BY <1>9, <3>2, <4>1, <4>2
      <4>4. a > d \/ (a = d /\ h <= j)
        BY <1>10, <4>1, <4>2, <4>3
      <4> QED BY <1>9, <4>1, <4>2, <4>4
    <3> QED BY <3>1, <3>2
  <2>2. Cardinality(Before(i)) <= Cardinality(Before(j)) /\ Cardinality(Before(j)) # Cardinality(Before(i))
    BY <1>3, <2>1, FS_Subset
  <2>3. Cardinality(Before(i)) \in Nat /\ Cardinality(Before(j)) \in Nat
    <3> HIDE DEF Before
    <3> QED BY <1>1, <1>3
  <2> QED BY <2>2, <2>3
<1>5. \A i, j \in D : i \in Before(j) \/ j \in Before(i)
  <2> HIDE DEF Before, D
  <2> SUFFICES ASSUME NEW i \in D, NEW j \in D PROVE i \in Before(j) \/ j \in Before(i)
    OBVIOUS
  <2>1. Sal(i) > Sal(j) \/ Sal(j) > Sal(i) \/ (Sal(i) = Sal(j) /\ (i <= j \/ j <= i))
    BY <1>10
  <2> QED BY <1>9, <2>1
<1>6. \A i, j \in D : Rank(s, i) = Rank(s, j) => i = j
  <2>1. \A i, j \in D : Cardinality(Before(i)) = Cardinality(Before(j)) => i = j
    <3> HIDE DEF Before, D
    <3>1. \A i \in D : Cardinality(Before(i)) \in Int
      BY <1>3
    <3> QED BY <1>4, <1>5, <3>1
  <2> QED BY <1>2, <2>1
<1>7. \A k \in D : \E i \in D : Rank(s, i) = k
  <2> DEFINE f == [i \in D |-> Rank(s, i)]
  <2>1. f \in [D -> D]
    BY <1>2, <1>3
  <2>2. f \in Injection(D, D)
    BY <1>6, <2>1 DEF Injection, IsInjective
  <2>3. f \in Surjection(D, D)
    BY <1>1, <2>2, FS_Injection
  <2> QED BY <2>3 DEF Surjection
<1>8. \A i, j \in D : Sal(i) > Sal(j) => Rank(s, i) < Rank(s, j)
  <2> SUFFICES ASSUME NEW i \in D, NEW j \in D, Sal(i) > Sal(j) PROVE Rank(s, i) < Rank(s, j)
    OBVIOUS
  <2>1. i \in Before(j) /\ i # j
    <3> HIDE DEF Before, D
    <3>1. Sal(i) \in Int /\ Sal(j) \in Int
      BY <1>10
    <3> QED BY <1>9, <3>1
  <2> QED BY <1>2, <1>4, <2>1
<1> QED BY <1>1, <1>7, <1>8 DEF Sal

LEMMA Sorted ==
  ASSUME NEW s \in Seq(Rules)
  PROVE  /\ StableSort(s) \in [1 .. Len(s) -> Rules] /\ Len(s) \in Nat
         /\ Ordered(StableSort(s))
<1> DEFINE at(k) == CHOOSE i \in DOMAIN s : Rank(s, i) = k
           D == DOMAIN s
<1>1. Len(s) \in Nat /\ DOMAIN s = 1 .. Len(s)
  BY LenProperties
<1>2. \A k \in D : at(k) \in D /\ Rank(s, at(k)) = k
  <2>1. \A k \in D : \E i \in D : Rank(s, i) = k
    BY Ranks
  <2> QED BY <2>1
<1>3. StableSort(s) = [k \in D |-> s[at(k)]]
  BY DEF StableSort
<1> HIDE DEF at
<1>4. StableSort(s) \in [1 .. Len(s) -> Rules]
  BY <1>1, <1>2, <1>3
<1>5. ASSUME NEW i \in D, NEW j \in D, i < j PROVE Salience[s[at(i)]] >= Salience[s[at(j)]]
  <2>1. Salience[s[at(i)]] \in Int /\ Salience[s[at(j)]] \in Int
    BY <1>1, <1>2, SortedRules
  <2>2. ~(Salience[s[at(j)]] > Salience[s[at(i)]])
    <3>1. Salience[s[at(j)]] > Salience[s[at(i)]] => Rank(s, at(j)) < Rank(s, at(i))
      BY <1>2, Ranks
    <3> QED BY <1>1, <1>2, <1>5, <3>1
  <2> QED BY <2>1, <2>2
<1> QED BY <1>1, <1>3, <1>4, <1>5 DEF Ordered

LEMMA ResolvedSorted ==
  ASSUME NEW o \in Options, ~o.PreserveOrder
  PROVE  resolveRules(o) \in Seq(Rules) /\ Ordered(resolveRules(o))
<1>1. SortRules \in Seq(Rules) /\ Ordered(SortRules)
  BY SortedRules DEF Ordered
<1>2. Known(o.Selected) \in Seq(Rules)
  BY OptionsAssumption
<1>3. PICK s \in Seq(Rules) : s = Known(o.Selected)
  BY <1>2
<1>4. StableSort(s) \in Seq(Rules) /\ Ordered(StableSort(s))
  BY Sorted
<1> QED BY <1>1, <1>3, <1>4 DEF resolveRules

(* The phases of a plan, one after the other, in the order of the rules *)
InOrder(pl) ==
  \A p, q \in DOMAIN pl : \A i \in DOMAIN pl[p].rules, j \in DOMAIN pl[q].rules :
    p < q \/ (p = q /\ i <= j) => ~(Salience[pl[q].rules[j]] > Salience[pl[p].rules[i]])

LEMMA PlanInOrder ==
  ASSUME NEW o \in Options, ~Rejected(o), ~SliceOutOfRange(o), o.Mode # "DAG", ~o.PreserveOrder
  PROVE  InOrder(Plan(o))
<1> DEFINE rules == resolveRules(o)
           n == Len(rules)
<1>1. rules \in Seq(Rules) /\ n \in Nat /\ DOMAIN rules = 1 .. n /\ o.Mode \in Modes /\ rules # <<>>
  BY ResolvedSorted, LenProperties DEF Rejected
<1>2. \A i, j \in 1 .. n : i <= j => ~(Salience[rules[j]] > Salience[rules[i]])
  <2> HIDE DEF rules
  <2>1. \A i \in 1 .. n : rules[i] \in Rules
    BY <1>1
  <2>2. \A i \in 1 .. n : Salience[rules[i]] \in Int
    BY <2>1, SortedRules
  <2>3. \A i, j \in 1 .. n : i < j => Salience[rules[i]] >= Salience[rules[j]]
    BY <1>1, ResolvedSorted DEF Ordered, rules
  <2> QED BY <1>1, <2>2, <2>3
<1>3. ASSUME NEW f, NEW g, NEW k \in 0 .. n,
             DOMAIN f.rules \subseteq 1 .. k, \A i \in DOMAIN f.rules : f.rules[i] = rules[i],
             DOMAIN g.rules \subseteq 1 .. (n - k), \A j \in DOMAIN g.rules : g.rules[j] = rules[k + j]
      PROVE  InOrder(<<f, g>>)
  <2>1. PICK pl : pl = <<f, g>>
    OBVIOUS
  <2>2. DOMAIN pl = {1, 2} /\ pl[1] = f /\ pl[2] = g
    BY <2>1
  <2> HIDE DEF rules
  <2>3. /\ \A i \in DOMAIN f.rules : i \in 1 .. k /\ i \in 1 .. n
        /\ \A j \in DOMAIN g.rules : j \in 1 .. n /\ k + j \in 1 .. n /\ k < k + j
    BY <1>1, <1>3
  <2>4. \A i, j \in DOMAIN f.rules : i <= j => ~(Salience[f.rules[j]] > Salience[f.rules[i]])
    BY <1>2, <1>3, <2>3
  <2>5. \A i, j \in DOMAIN g.rules : i <= j => ~(Salience[g.rules[j]] > Salience[g.rules[i]])
    <3> SUFFICES ASSUME NEW i \in DOMAIN g.rules, NEW j \in DOMAIN g.rules, i <= j
                 PROVE  ~(Salience[g.rules[j]] > Salience[g.rules[i]])
      OBVIOUS
    <3>1. k + i <= k + j /\ k + i \in 1 .. n /\ k + j \in 1 .. n
      BY <2>3
    <3> QED BY <1>2, <1>3, <3>1
  <2>6. \A i \in DOMAIN f.rules, j \in DOMAIN g.rules : ~(Salience[g.rules[j]] > Salience[f.rules[i]])
    <3> SUFFICES ASSUME NEW i \in DOMAIN f.rules, NEW j \in DOMAIN g.rules
                 PROVE  ~(Salience[g.rules[j]] > Salience[f.rules[i]])
      OBVIOUS
    <3>1. i <= k + j /\ i \in 1 .. n /\ k + j \in 1 .. n
      BY <2>3
    <3> QED BY <1>2, <1>3, <3>1
  <2>7. InOrder(pl)
    BY <2>2, <2>4, <2>5, <2>6 DEF InOrder
  <2> QED BY <2>1, <2>7
<1>4. ASSUME NEW f, f.rules = rules PROVE InOrder(<<f>>)
  <2>1. PICK pl : pl = <<f>>
    OBVIOUS
  <2>2. DOMAIN pl = {1} /\ pl[1] = f
    BY <2>1
  <2>3. InOrder(pl)
    BY <1>1, <1>2, <1>4, <2>2 DEF InOrder
  <2> QED BY <2>1, <2>3
<1>5. ASSUME NEW a \in Nat, NEW b \in Int, b <= n
      PROVE  LET s == SubSeq(rules, a + 1, b) IN
               /\ DOMAIN s \subseteq 1 .. (n - a)
               /\ \A j \in DOMAIN s : s[j] = rules[a + j]
               /\ a <= b => DOMAIN s \subseteq 1 .. (b - a)
  <2> DEFINE s == SubSeq(rules, a + 1, b)
  <2>1. \A i \in (a + 1) .. b : rules[i] \in Rules
    BY <1>1, <1>5
  <2>2. /\ s \in Seq(Rules) /\ Len(s) = (IF a + 1 <= b THEN b - (a + 1) + 1 ELSE 0)
        /\ \A i \in 1 .. (b - (a + 1) + 1) : s[i] = rules[(a + 1) + i - 1]
    BY <2>1, SubSeqProperties
  <2>3. DOMAIN s = 1 .. Len(s)
    BY <2>2, LenProperties
  <2> HIDE DEF s, rules
  <2>4. \A j \in DOMAIN s : j \in 1 .. (b - a) /\ (a + 1) + j - 1 = a + j
    BY <1>5, <2>2, <2>3
  <2>5. b - (a + 1) + 1 = b - a /\ \A j \in 1 .. (b - a) : j \in 1 .. (n - a)
    BY <1>1, <1>5
  <2>6. \A j \in DOMAIN s : s[j] = rules[a + j]
    BY <2>2, <2>4, <2>5
  <2>7. DOMAIN s \subseteq 1 .. (b - a) /\ DOMAIN s \subseteq 1 .. (n - a)
    BY <2>4, <2>5
  <2> QED BY <2>6, <2>7 DEF s, rules
<1>12. ASSUME NEW b \in Nat, b <= n
       PROVE  LET s == SubSeq(rules, 1, b) IN DOMAIN s \subseteq 1 .. b /\ \A i \in DOMAIN s : s[i] = rules[i]
  <2>1. \A i \in 1 .. b : rules[i] \in Rules
    BY <1>1, <1>12
  <2> DEFINE s == SubSeq(rules, 1, b)
  <2>2. /\ s \in Seq(Rules) /\ Len(s) = (IF 1 <= b THEN b - 1 + 1 ELSE 0)
        /\ \A i \in 1 .. (b - 1 + 1) : s[i] = rules[1 + i - 1]
    BY <2>1, SubSeqProperties
  <2>3. DOMAIN s = 1 .. Len(s)
    BY <2>2, LenProperties
  <2>4. (IF 1 <= b THEN b - 1 + 1 ELSE 0) = b /\ b - 1 + 1 = b /\ \A i \in 1 .. b : 1 + i - 1 = i
    OBVIOUS
  <2> HIDE DEF s, rules
  <2>5. DOMAIN s = 1 .. b /\ \A i \in 1 .. b : s[i] = rules[i]
    BY <2>2, <2>3, <2>4
  <2> QED BY <2>5 DEF s, rules
<1>6. CASE o.Mode = "Sort"
  <2> DEFINE f == Serial(rules, ~o.ContinueOnError, "break", o.StopTag, FALSE)
  <2>1. Plan(o) = <<f>> /\ f.rules = rules
    BY <1>6 DEF Plan, execSort, Serial
  <2> QED BY <1>4, <2>1
<1>7. CASE o.Mode = "Concurrent"
  <2> DEFINE f == Concurrent(rules, FALSE, "none")
  <2>1. Plan(o) = <<f>> /\ f.rules = rules
    BY <1>7 DEF Plan, Concurrent
  <2> QED BY <1>4, <2>1
<1>8. CASE o.Mode = "InverseMix" /\ n <= 2
  <2> DEFINE f == Serial(rules, FALSE, "break", FALSE, FALSE)
  <2>1. Plan(o) = <<f>> /\ f.rules = rules
    BY <1>8 DEF Plan, execInverseMix, execSort, Serial
  <2> QED BY <1>4, <2>1
<1>9. CASE o.Mode = "Mix"
  <2> DEFINE f == Serial(<<Head(rules)>>, TRUE, "return", o.StopTag, FALSE)
             g == Concurrent(Tail(rules), FALSE, "none")
  <2>1. Plan(o) = <<f, g>> /\ f.rules = <<Head(rules)>> /\ g.rules = Tail(rules)
    BY <1>9 DEF Plan, execMix, Serial, Concurrent
  <2> HIDE DEF f, g
  <2>2. /\ Tail(rules) \in Seq(Rules) /\ Len(Tail(rules)) = n - 1
        /\ \A i \in 1 .. Len(Tail(rules)) : Tail(rules)[i] = rules[i + 1]
        /\ Head(rules) = rules[1]
    <3> HIDE DEF rules
    <3> QED BY <1>1, HeadTailProperties
  <2>3. /\ 1 \in 0 .. n /\ DOMAIN f.rules \subseteq 1 .. 1 /\ \A i \in DOMAIN f.rules : f.rules[i] = rules[i]
    <3>1. n # 0
      <4> HIDE DEF rules
      <4> QED BY <1>1, EmptySeq
    <3>2. PICK h : h = <<Head(rules)>>
      OBVIOUS
    <3>3. DOMAIN h = {1} /\ h[1] = Head(rules)
      BY <3>2
    <3> QED BY <1>1, <2>1, <2>2, <3>1, <3>2, <3>3
  <2>4. DOMAIN g.rules \subseteq 1 .. (n - 1) /\ \A j \in DOMAIN g.rules : g.rules[j] = rules[1 + j]
    <3>1. PICK t : t = Tail(rules)
      OBVIOUS
    <3>2. DOMAIN t = 1 .. (n - 1) /\ \A i \in 1 .. (n - 1) : t[i] = rules[i + 1]
      BY <2>2, <3>1, LenProperties
    <3>3. \A j \in 1 .. (n - 1) : 1 + j = j + 1
      BY <1>1
    <3> QED BY <2>1, <3>1, <3>2, <3>3
  <2> QED BY <1>3, <2>1, <2>3, <2>4
<1>10. CASE o.Mode = "InverseMix" /\ ~(n <= 2)
  <2> DEFINE f == Concurrent(SubSeq(rules, 1, n - 1), FALSE, "none")
             g == Serial(<<rules[n]>>, TRUE, "return", FALSE, TRUE)
  <2>1. Plan(o) = <<f, g>> /\ f.rules = SubSeq(rules, 1, n - 1) /\ g.rules = <<rules[n]>>
    BY <1>10 DEF Plan, execInverseMix, Serial, Concurrent
  <2> HIDE DEF f, g
  <2>2. /\ DOMAIN f.rules \subseteq 1 .. (n - 1) /\ \A i \in DOMAIN f.rules : f.rules[i] = rules[i]
    <3>1. n - 1 \in Nat /\ n - 1 <= n
      BY <1>1, <1>10
    <3> QED BY <1>12, <2>1, <3>1
  <2>3. /\ n - 1 \in 0 .. n /\ DOMAIN g.rules \subseteq 1 .. (n - (n - 1))
        /\ \A j \in DOMAIN g.rules : g.rules[j] = rules[(n - 1) + j]
    <3>1. PICK h : h = <<rules[n]>>
      OBVIOUS
    <3>2. DOMAIN h = {1} /\ h[1] = rules[n]
      BY <3>1
    <3>3. n - (n - 1) = 1 /\ (n - 1) + 1 = n /\ n - 1 \in 0 .. n
      BY <1>1, <1>10
    <3> QED BY <2>1, <3>1, <3>2, <3>3
  <2> QED BY <1>3, <2>1, <2>2, <2>3
<1>11. CASE o.Mode \in NModes
  <2> DEFINE fs == SubSeq(rules, 1, o.N)
             gs == SubSeq(rules, o.N + 1, o.N + o.M)
  <2>1. o.N \in 1 .. n /\ o.M \in Nat /\ o.N + o.M <= n
    BY <1>11, BatchesFit
  <2>2. PICK f, g : Plan(o) = <<f, g>> /\ f.rules = fs /\ g.rules = gs
    <3>1. CASE o.Mode = "NSortMConcurrent"
      BY <3>1 DEF Plan, execNSortM, Serial, Concurrent
    <3>2. CASE o.Mode = "NConcurrentMSort"
      BY <3>2 DEF Plan, execNConcurrentM, Serial, Concurrent
    <3>3. CASE o.Mode = "NConcurrentMConcurrent"
      BY <3>3 DEF Plan, execNConcurrentM, Serial, Concurrent
    <3> QED BY <1>11, <3>1, <3>2, <3>3 DEF NModes
  <2>3. DOMAIN f.rules \subseteq 1 .. o.N /\ \A i \in DOMAIN f.rules : f.rules[i] = rules[i]
    <3>1. o.N \in Nat /\ o.N <= n
      BY <1>1, <2>1
    <3> QED BY <1>12, <2>2, <3>1
  <2>4. DOMAIN g.rules \subseteq 1 .. (n - o.N) /\ \A j \in DOMAIN g.rules : g.rules[j] = rules[o.N + j]
    <3>1. o.N \in Nat /\ o.N + o.M \in Int
      BY <1>1, <2>1
    <3>2. PICK a \in Nat, c \in Int : a = o.N /\ c = o.N + o.M /\ c <= n
      BY <2>1, <3>1
    <3>3. /\ DOMAIN SubSeq(rules, a + 1, c) \subseteq 1 .. (n - a)
          /\ \A j \in DOMAIN SubSeq(rules, a + 1, c) : SubSeq(rules, a + 1, c)[j] = rules[a + j]
      <4> HIDE DEF rules
      <4> QED BY <1>5, <3>2
    <3>4. SubSeq(rules, a + 1, c) = g.rules
      BY <2>2, <3>2
    <3> QED BY <3>2, <3>3, <3>4
  <2>5. PICK k \in 0 .. n : k = o.N
    BY <1>1, <2>1
  <2> HIDE DEF rules
  <2> QED BY <1>3, <2>2, <2>3, <2>4, <2>5
<1> QED BY <1>1, <1>6, <1>7, <1>8, <1>9, <1>10, <1>11 DEF Modes

-----------------------------------------------------------------------------
EarlierDone == \A p \in DOMAIN plan : p < ph => \A i \in DOMAIN plan[p].rules : <<p, i>> \in done

(* As long as a rule may still be started, the phases behind the caller    *)
(* have run all their rules; and the phases are in the order of the rules. *)
InTurn ==
  /\ opts.Mode # "DAG" /\ ~opts.PreserveOrder => InOrder(plan)
  /\ \/ ~cancelled /\ ~Ended
     \/ pc \in {"launch", "wait"} /\ ~gctx
     \/ launched \cup running # {}
     => EarlierDone

LEMMA InitInTurn == Init => InTurn
BY DEF Init, InTurn, InOrder, EarlierDone

LEMMA InTurnStart == ASSUME IInv, Told, InTurn, Start PROVE InTurn'
<1>1. /\ pc = "start" /\ ~Rejected(opts) /\ opts \in Options /\ opts' = opts /\ ph' = 1
      /\ launched' = {} /\ running' = {} /\ cancelled' = cancelled
      /\ \/ pc' = "panicked" /\ plan' = plan
         \/ pc' = "enter" /\ plan' = Plan(opts) /\ ~SliceOutOfRange(opts)
  BY DEF Start, IInv, Joined, Told, Position, position, flags
<1>2. CASE pc' = "panicked" /\ plan' = plan
  BY <1>1, <1>2 DEF InTurn, Ended
<1>3. CASE pc' = "enter" /\ plan' = Plan(opts) /\ ~SliceOutOfRange(opts)
  <2>1. opts.Mode # "DAG" /\ ~opts.PreserveOrder => InOrder(plan')
    BY <1>1, <1>3, PlanInOrder
  <2>2. Shape(plan', opts)
    BY <1>1, <1>3, PlanShape
  <2>3. EarlierDone'
    BY <1>1, <2>2 DEF EarlierDone, Shape
  <2> QED BY <1>1, <2>1, <2>3 DEF InTurn, InOrder
<1> QED BY <1>1, <1>2, <1>3

(* From one phase to the next *)
LEMMA InTurnNext ==
  ASSUME IInv, Told, InTurn, ph \in DOMAIN plan, NextPhase, launched = {}, running = {},
         UNCHANGED <<control, launched, running, done, flags>>,
         ~cancelled => ~Ended /\ \A i \in DOMAIN Phase.rules : <<ph, i>> \in done
  PROVE  InTurn'
<1>1. /\ pc' = "enter" /\ ph' = ph + 1 /\ plan' = plan /\ opts' = opts /\ done' = done
      /\ launched' = {} /\ running' = {} /\ cancelled' = cancelled
  BY DEF NextPhase, control, flags
<1>2. ASSUME ~cancelled, NEW p \in DOMAIN plan, p < ph + 1, NEW i \in DOMAIN plan[p].rules
      PROVE  <<p, i>> \in done
  <2>1. p < ph \/ p = ph
    BY <1>2 DEF Told, Position, Shape
  <2> QED BY <1>2, <2>1 DEF InTurn, EarlierDone, Phase
<1>3. ~cancelled' => EarlierDone'
  BY <1>1, <1>2 DEF EarlierDone
<1>4. InOrder(plan') <=> InOrder(plan)
  BY <1>1
<1> QED BY <1>1, <1>3, <1>4 DEF InTurn

LEMMA InTurnPhases ==
  ASSUME IInv, Told, InTurn, EnterEmpty \/ SerialDone \/ SerialCancelled \/ Wait
  PROVE  InTurn'
<1>1. CASE EnterEmpty
  <2>1. /\ ph \in DOMAIN plan /\ ~Ended /\ NextPhase /\ launched = {} /\ running = {}
        /\ UNCHANGED <<control, launched, running, done, flags>>
    BY <1>1 DEF EnterEmpty, Ended, Told, Position, Shape, IInv, Joined
  <2>2. \A i \in DOMAIN Phase.rules : FALSE
    BY <1>1, <2>1 DEF EnterEmpty, Told, Position, Shape, SeqLike, Phase
  <2> QED BY <2>1, <2>2, InTurnNext
<1>2. CASE SerialDone
  <2>1. /\ ph \in DOMAIN plan /\ ~Ended /\ NextPhase /\ launched = {} /\ running = {}
        /\ UNCHANGED <<control, launched, running, done, flags>>
    BY <1>2 DEF SerialDone, Ended, Told, Position, IInv, Joined
  <2>2. \A i \in DOMAIN Phase.rules : i < next
    BY <1>2, <2>1 DEF SerialDone, Told, Position, Shape, SeqLike, Phase
  <2>3. \A i \in DOMAIN Phase.rules : <<ph, i>> \in done
    BY <1>2, <2>1, <2>2 DEF SerialDone, Told, Behind
  <2> QED BY <2>1, <2>3, InTurnNext
<1>3. CASE SerialCancelled
  <2>1. /\ ph \in DOMAIN plan /\ cancelled /\ launched = {} /\ running = {}
        /\ UNCHANGED <<control, launched, running, done, flags>>
    BY <1>3 DEF SerialCancelled, Told, Position, IInv, Joined
  <2>2. NextPhase \/ (pc' = "returned" /\ UNCHANGED <<ph, next>>)
    BY <1>3 DEF SerialCancelled, Return
  <2>3. CASE pc' = "returned" /\ UNCHANGED <<ph, next>>
    BY <2>1, <2>3 DEF InTurn, Ended, control, flags
  <2> QED BY <2>1, <2>2, <2>3, InTurnNext
<1>4. CASE Wait
  <2>1. /\ ph \in DOMAIN plan /\ pc = "wait" /\ ~Ended /\ launched = {} /\ running = {}
        /\ UNCHANGED <<control, launched, running, done, flags>>
    BY <1>4 DEF Wait, Ended, Told, Position
  <2>2. NextPhase \/ (pc' = "returned" /\ UNCHANGED <<ph, next>>)
    BY <1>4 DEF Wait, Return
  <2>3. CASE pc' = "returned" /\ UNCHANGED <<ph, next>>
    BY <2>1, <2>3 DEF InTurn, Ended, control, flags
  <2>4. ASSUME ~cancelled, NEW i \in DOMAIN Phase.rules PROVE <<ph, i>> \in done
    <3>1. ~gctx
      BY <2>1, <2>4 DEF Told, Position
    <3>2. i < next
      BY <2>1, <2>4, <3>1 DEF Told, Position, Behind, Shape, SeqLike, Phase
    <3> QED BY <2>1, <2>4, <3>1, <3>2 DEF Told, Behind
  <2> QED BY <2>1, <2>2, <2>3, <2>4, InTurnNext
<1> QED BY <1>1, <1>2, <1>3, <1>4

(* Within a phase *)
LEMMA InTurnWithin ==
  ASSUME IInv, Told, InTurn,
         \/ Reject \/ EnterCancelled \/ EnterConcurrent \/ EnterSerial \/ End
         \/ SerialStart \/ (\E out \in Outcomes : SerialEnd(out)) \/ SerialPanic
         \/ Launch \/ LaunchDone
  PROVE  InTurn'
<1> USE DEF InTurn, EarlierDone, Ended, Return, control, position, flags
<1>1. CASE Reject
  BY <1>1 DEF Reject, IInv, Joined
<1>2. CASE EnterCancelled
  BY <1>2 DEF EnterCancelled, IInv, Joined
<1>3. CASE EnterConcurrent
  BY <1>3 DEF EnterConcurrent, IInv, Joined
<1>4. CASE EnterSerial
  BY <1>4 DEF EnterSerial, IInv, Joined
<1>5. CASE End
  BY <1>5 DEF End, IInv, Joined
<1>6. CASE SerialStart
  BY <1>6 DEF SerialStart
<1>7. ASSUME NEW out \in Outcomes, SerialEnd(out) PROVE InTurn'
  <2>1. /\ pc = "execute" /\ ph' = ph /\ plan' = plan /\ opts' = opts /\ cancelled' = cancelled
        /\ launched' = {} /\ running' = {} /\ done \subseteq done' /\ pc' \in {"serial", "returned"}
    BY <1>7 DEF SerialEnd, EndRule, IInv, Joined
  <2> QED BY <2>1
<1>8. CASE SerialPanic
  BY <1>8 DEF SerialPanic, EndRule, IInv, Joined
<1>9. CASE Launch
  BY <1>9 DEF Launch
<1>10. CASE LaunchDone
  BY <1>10 DEF LaunchDone
<1> QED BY <1>1, <1>2, <1>3, <1>4, <1>5, <1>6, <1>7, <1>8, <1>9, <1>10

LEMMA InTurnOthers ==
  ASSUME IInv, Told, InTurn, Goroutine \/ Cancel \/ Propagate \/ SetStopTag \/ UNCHANGED vars
  PROVE  InTurn'
<1> USE DEF InTurn, EarlierDone, Ended, control, flags
<1>1. ASSUME NEW x \in launched, GoStart(x) PROVE InTurn'
  BY <1>1 DEF GoStart
<1>2. ASSUME NEW x \in running, NEW out \in Outcomes, GoEnd(x, out) PROVE InTurn'
  <2>1. /\ UNCHANGED <<control, pc, ph, launched, flags>> /\ running' \subseteq running
        /\ done \subseteq done'
    BY <1>2 DEF GoEnd, EndRule
  <2> QED BY <1>2, <2>1
<1>3. CASE Cancel \/ Propagate \/ SetStopTag
  BY <1>3 DEF Cancel, Propagate, SetStopTag
<1>4. CASE UNCHANGED vars
  BY <1>4 DEF vars
<1> QED BY <1>1, <1>2, <1>3, <1>4 DEF Goroutine

LEMMA InTurnStep == IInv /\ Told /\ InTurn /\ [Next]_vars => InTurn'
BY InTurnStart, InTurnPhases, InTurnWithin, InTurnOthers DEF Next, Caller

(* Whatever the saliences, the names selected and the batch sizes: while a *)
(* rule runs, those of higher salience have ended or share its batch.      *)
THEOREM SalienceOrder == Safety => []HigherSalienceFirst
<1>1. IInv /\ Told /\ InTurn => HigherSalienceFirst
  <2> SUFFICES ASSUME IInv, Told, InTurn,
                      opts.Mode # "DAG", ~opts.PreserveOrder, NEW x \in running, NEW y \in Occurrences,
                      Salience[Rule(y)] > Salience[Rule(x)], y \notin done
               PROVE  y[1] = x[1] /\ plan[x[1]].conc
    BY DEF HigherSalienceFirst
  <2>1. PICK q \in DOMAIN plan : \E j \in DOMAIN plan[q].rules : y = <<q, j>>
    BY ListedAre DEF Listed
  <2>2. PICK j \in DOMAIN plan[q].rules : y = <<q, j>>
    BY <2>1
  <2>3. PICK p \in DOMAIN plan : \E i \in DOMAIN plan[p].rules : x = <<p, i>>
    BY DEF Told, Position, Listed
  <2>4. PICK i \in DOMAIN plan[p].rules : x = <<p, i>>
    BY <2>3
  <2>5. p = ph /\ p \in Int /\ q \in Int /\ i \in Int /\ j \in Int
    BY <2>2, <2>4 DEF IInv, Joined, Told, Position, Shape, SeqLike
  <2>6. ~(p < q \/ (p = q /\ i <= j))
    BY <2>2, <2>4, Zenon DEF InTurn, InOrder, Rule
  <2>7. ~(q < ph)
    BY <2>2 DEF InTurn, EarlierDone
  <2>8. q = ph /\ j < i
    BY <2>5, <2>6, <2>7
  <2>9. ASSUME ~plan[ph].conc PROVE FALSE
    <3>1. pc = "execute" /\ running = {Occurrence}
      BY <2>9 DEF IInv, Joined, Phase
    <3>2. i = next
      BY <2>4, <3>1 DEF Occurrence
    <3> QED BY <2>2, <2>8, <3>1, <3>2 DEF Told, Behind, Ended, Phase
  <2> QED BY <2>2, <2>4, <2>5, <2>8, <2>9
<1> QED BY <1>1, InitTold, ToldStep, InitInTurn, InTurnStep, ExecutionInvariant, PTL DEF Safety
=============================================================================
