------------------------------ MODULE PoolRules ------------------------------
(***************************************************************************)
(* The rules of a GenginePool: the builder of the pool and the builders of *)
(* its instances, which share KnowledgeContext objects or not, depending   *)
(* on the calls made so far; the calls that hold updateLock and change     *)
(* them one instance after the other; and the executions, which read the   *)
(* rules of their instance without that lock.                              *)
(*                                                                         *)
(* A context keeps its rules twice, by name (RuleEntities) and sorted      *)
(* (SortRules); here each is the set of names and the generation it came   *)
(* from.  RuleBuilder looks into the two and at how they are stored.  Of   *)
(* a rule text this keeps what decides whether a call accepts it.  An      *)
(* instance serves one execution at a time (GenginePool).                  *)
(***************************************************************************)
EXTENDS Integers, Sequences, FiniteSets

CONSTANTS
  Names,     \* rule names
  FirstText, \* the rules the pool was made with
  max,       \* number of instances, gp.max
  MaxCalls,  \* bound on the number of calls that take updateLock
  MaxRunning \* bound on the number of executions at a time

ASSUME PoolConstants ==
  /\ FirstText \subseteq Names /\ FirstText # {}
  /\ max \in Nat \ {0}
  /\ MaxCalls \in Nat /\ MaxRunning \in Nat

VARIABLES
  kcs,         \* the KnowledgeContext objects
  ruleBuilder, \* index of gp.ruleBuilder.Kc, or nil
  rbSlice,     \* index of each instance's Kc
  clear,       \* gp.clear
  pc,          \* where the call that holds updateLock is
  i,           \* the instance its loop has reached
  names,       \* the rules it was given
  outcome,     \* how the last call ended
  gens,        \* history: the rules the pool had, one generation after the other
  visible,     \* history: the generation the last call to return left behind
  run          \* the execution on each instance

Instances == 1 .. max
nil == 0

builders == <<kcs, ruleBuilder, rbSlice, clear>>
call == <<pc, i, names, outcome>>
history == <<gens, visible>>
vars == <<builders, call, history, run>>

(* A rule text: the rules that come out of it, whether its lexer and its   *)
(* parser are content.  Lexer errors do not keep rules from coming out.    *)
Texts == [rules : SUBSET Names, lexes : BOOLEAN, parses : BOOLEAN]

RuleMap(gen, ns) == [gen |-> gen, names |-> ns]
Context(m) == [RuleEntities |-> m, SortRules |-> m]
NewGen == Len(gens) + 1
Idle == [phase |-> "idle", names |-> {}, startGen |-> 0, lastGen |-> 0, missed |-> {}]

Init ==
  /\ kcs = <<Context(RuleMap(1, FirstText))>>
  /\ ruleBuilder = 1
  /\ rbSlice = [k \in Instances |-> 1]
  /\ clear = FALSE
  /\ pc = "idle" /\ i = 1 /\ names = {} /\ outcome = "ok"
  /\ gens = <<FirstText>> /\ visible = 1
  /\ run = [k \in Instances |-> Idle]

-----------------------------------------------------------------------------
(* The calls under updateLock *)

Called == pc = "idle" /\ Len(gens) <= MaxCalls
Begin(next, ns, rules) ==
  /\ pc' = next /\ i' = 1 /\ names' = ns /\ outcome' = "ok"
  /\ gens' = Append(gens, rules)
  /\ UNCHANGED <<visible, run>>

(* makeRuleBuilder compiles the text for a full update; one without rules  *)
(* is for ClearPoolRules.                                                  *)
makeRuleBuilder(text) == text.lexes /\ text.parses /\ text.rules # {}

(* getKc compiles it for an incremental update, and hears of no lexer      *)
(* error.                                                                  *)
getKc(text) == text.parses /\ text.rules # {}

(* A text is refused, or there is no name to remove: an error, no change. *)
Refuse ==
  /\ pc = "idle"
  /\ \/ \E text \in Texts : ~makeRuleBuilder(text) \/ ~getKc(text)
     \/ ruleBuilder # nil \* RemoveRules of no name
  /\ outcome' = "error"
  /\ UNCHANGED <<builders, pc, i, names, history, run>>

(* The call returns and gives the lock back. *)
Return ==
  /\ pc' = "idle" /\ i' = 1 /\ names' = {}
  /\ visible' = Len(gens)
  /\ UNCHANGED <<outcome, gens, run>>

(* Mutant: the rules in use are cleared before the new ones are handed out *)
UpdatePooledRulesCleared(ns) ==
  /\ Called
  /\ kcs' = Append([k \in DOMAIN kcs |-> Context(RuleMap(NewGen, {}))], Context(RuleMap(NewGen, ns)))
  /\ ruleBuilder' = Len(kcs) + 1
  /\ UNCHANGED <<rbSlice, clear>>
  /\ Begin("assign", ns, ns)

UpdatePooledRules(ns) ==
  /\ Called
  /\ kcs' = Append(kcs, Context(RuleMap(NewGen, ns)))
  /\ ruleBuilder' = Len(kcs) + 1
  /\ UNCHANGED <<rbSlice, clear>>
  /\ Begin("assign", ns, ns)

(* updateIncremental changes the context of gp.ruleBuilder, which          *)
(* instances may be using, first by name, then sorted.                     *)
UpdatePooledRulesIncremental(ns) ==
  /\ Called /\ ruleBuilder # nil
  /\ LET all == kcs[ruleBuilder].RuleEntities.names \cup ns
     IN  /\ kcs' = [kcs EXCEPT ![ruleBuilder].RuleEntities = RuleMap(NewGen, all)]
         /\ Begin("sort", ns, all)
  /\ UNCHANGED <<ruleBuilder, rbSlice, clear>>

UpdateSortRules ==
  /\ pc = "sort"
  /\ pc' = "assign"
  /\ kcs' = [kcs EXCEPT ![ruleBuilder].SortRules = kcs[ruleBuilder].RuleEntities]
  /\ UNCHANGED <<ruleBuilder, rbSlice, clear, i, names, outcome, history, run>>

(* gp.rbSlice[i].Kc = gp.ruleBuilder.Kc *)
Assign ==
  /\ pc = "assign" /\ i <= max
  /\ rbSlice' = [rbSlice EXCEPT ![i] = ruleBuilder]
  /\ i' = i + 1
  /\ UNCHANGED <<kcs, ruleBuilder, clear, pc, names, outcome, history, run>>

(* Mutant: the loop stops before the last instance *)
AssignedButLast ==
  /\ pc = "assign" /\ i >= max
  /\ clear' = FALSE
  /\ Return
  /\ UNCHANGED <<kcs, ruleBuilder, rbSlice>>

Assigned ==
  /\ pc = "assign" /\ i > max
  /\ clear' = FALSE
  /\ Return
  /\ UNCHANGED <<kcs, ruleBuilder, rbSlice>>

ClearPoolRules ==
  /\ Called
  /\ ruleBuilder' = nil
  /\ clear' = TRUE
  /\ UNCHANGED <<kcs, rbSlice>>
  /\ Begin("clear", {}, {})

(* Kc.ClearRules() empties the context in place, field after field. *)
ClearEntities ==
  /\ pc = "clear" /\ i <= max
  /\ kcs' = [kcs EXCEPT ![rbSlice[i]].RuleEntities = RuleMap(Len(gens), {})]
  /\ pc' = "clearSort"
  /\ UNCHANGED <<ruleBuilder, rbSlice, clear, i, names, outcome, history, run>>

(* Mutant: the sorted rules are not cleared *)
ClearSortNot ==
  /\ pc = "clearSort"
  /\ pc' = "clear" /\ i' = i + 1
  /\ UNCHANGED <<builders, names, outcome, history, run>>

ClearSort ==
  /\ pc = "clearSort"
  /\ kcs' = [kcs EXCEPT ![rbSlice[i]].SortRules = RuleMap(Len(gens), {})]
  /\ pc' = "clear" /\ i' = i + 1
  /\ UNCHANGED <<ruleBuilder, rbSlice, clear, names, outcome, history, run>>

Cleared ==
  /\ pc = "clear" /\ i > max
  /\ Return
  /\ UNCHANGED builders

(* Every builder, the pool's first, gets a context of its own. *)
RemoveRules(ns) ==
  /\ Called /\ ruleBuilder # nil
  /\ LET rest == kcs[ruleBuilder].RuleEntities.names \ ns
     IN  /\ kcs' = Append(kcs, Context(RuleMap(NewGen, rest)))
         /\ Begin("remove", ns, rest)
  /\ ruleBuilder' = Len(kcs) + 1
  /\ UNCHANGED <<rbSlice, clear>>

Remove ==
  /\ pc = "remove" /\ i <= max
  /\ kcs' = Append(kcs, Context(RuleMap(Len(gens), kcs[rbSlice[i]].RuleEntities.names \ names)))
  /\ rbSlice' = [rbSlice EXCEPT ![i] = Len(kcs) + 1]
  /\ i' = i + 1
  /\ UNCHANGED <<ruleBuilder, clear, pc, names, outcome, history, run>>

Removed ==
  /\ pc = "remove" /\ i > max
  /\ Return
  /\ UNCHANGED builders

(* UpdatePooledRulesIncremental, RemoveRules and PluginLoader take         *)
(* gp.ruleBuilder for granted; the deferred Unlock still runs.             *)
NilPanic ==
  /\ pc = "idle" /\ ruleBuilder = nil
  /\ outcome' = "panic"
  /\ UNCHANGED <<builders, pc, i, names, history, run>>

-----------------------------------------------------------------------------
(* The executions; an execution notes the generation it reads. *)

Entities(k) == kcs[rbSlice[k]].RuleEntities
Sorted(k) == kcs[rbSlice[k]].SortRules

(* All rules (ns = {}), the selected ones, or those of a DAG, which does   *)
(* not look whether there are any.  While the pool is marked as cleared an *)
(* execution returns at once and reads nothing.                            *)
Execute(k, kind, ns) ==
  /\ ~clear
  /\ run[k].phase = "idle"
  /\ Cardinality({other \in Instances : run[other].phase # "idle"}) < MaxRunning
  /\ run' = [run EXCEPT ![k] = [phase |-> kind, names |-> ns, startGen |-> visible,
                                lastGen |-> visible, missed |-> {}]]
  /\ UNCHANGED <<builders, call, history>>

Check(k, kind, m) ==
  /\ run[k].phase = kind
  /\ run' = [run EXCEPT ![k].lastGen = m.gen,
                        ![k].phase = IF m.names = {} THEN "refused" ELSE IF kind = "all" THEN "load" ELSE "dag"]
  /\ UNCHANGED <<builders, call, history>>

Load(k) ==
  /\ run[k].phase = "load"
  /\ run' = [run EXCEPT ![k].lastGen = Sorted(k).gen,
                        ![k].missed = Names \ Sorted(k).names,
                        ![k].phase = "loaded"]
  /\ UNCHANGED <<builders, call, history>>

(* rb.Kc.RuleEntities is looked up afresh for each name. *)
Lookup(k, n) ==
  /\ run[k].phase = "dag" /\ n \in run[k].names
  /\ run' = [run EXCEPT ![k].lastGen = Entities(k).gen,
                        ![k].names = @ \ {n},
                        ![k].missed = IF n \in Entities(k).names THEN @ ELSE @ \cup {n}]
  /\ UNCHANGED <<builders, call, history>>

Finish(k) ==
  /\ \/ run[k].phase \in {"refused", "loaded"}
     \/ run[k].phase = "dag" /\ run[k].names = {}
  /\ run' = [run EXCEPT ![k] = Idle]
  /\ UNCHANGED <<builders, call, history>>

-----------------------------------------------------------------------------
Management ==
  \/ \E text \in Texts :
       \/ makeRuleBuilder(text) /\ UpdatePooledRules(text.rules)
       \/ getKc(text) /\ UpdatePooledRulesIncremental(text.rules)
  \/ \E ns \in SUBSET Names \ {{}} : RemoveRules(ns)
  \/ ClearPoolRules
  \/ UpdateSortRules \/ Assign \/ Assigned
  \/ ClearEntities \/ ClearSort \/ Cleared
  \/ Remove \/ Removed
  \/ Refuse \/ NilPanic

Execution(k) ==
  \/ Execute(k, "all", {}) \/ Check(k, "all", Sorted(k)) \/ Load(k)
  \/ \E ns \in SUBSET Names \ {{}} : Execute(k, "selected", ns) \/ Execute(k, "dag", ns)
  \/ Check(k, "selected", Entities(k))
  \/ \E n \in Names : Lookup(k, n)
  \/ Finish(k)

Next == Management \/ \E k \in Instances : Execution(k)

Spec == Init /\ [][Next]_vars

-----------------------------------------------------------------------------
TypeOK ==
  /\ kcs \in Seq([RuleEntities : [gen : DOMAIN gens, names : SUBSET Names],
                  SortRules : [gen : DOMAIN gens, names : SUBSET Names]])
  /\ ruleBuilder \in DOMAIN kcs \cup {nil}
  /\ rbSlice \in [Instances -> DOMAIN kcs]
  /\ clear \in BOOLEAN
  /\ pc \in {"idle", "sort", "assign", "clear", "clearSort", "remove"}
  /\ i \in 1 .. max + 1
  /\ outcome \in {"ok", "error", "panic"}
  /\ visible \in DOMAIN gens
  /\ \A k \in Instances : run[k].lastGen \in {0} \cup DOMAIN gens

(* What the pool answers between two calls: from gp.ruleBuilder, unless it *)
(* is cleared.  The rule whose salience or description is asked for, and   *)
(* the number of rules, come from the same map.                            *)
cleared == clear \/ ruleBuilder = nil
IsExist(n) == ~cleared /\ n \in kcs[ruleBuilder].RuleEntities.names
GetRuleSalience(n) == IF IsExist(n) THEN kcs[ruleBuilder].RuleEntities.gen ELSE 0
GetRulesNumber == IF cleared THEN 0 ELSE Cardinality(kcs[ruleBuilder].RuleEntities.names)

(* Between two calls the pool and all its instances have the same rules,   *)
(* by name and sorted, whether they share one context or have one each:    *)
(* what IsExist, GetRuleSalience and GetRulesNumber answer from            *)
(* gp.ruleBuilder is what executions find.                                 *)
InstancesAgree ==
  pc = "idle" =>
    \A k \in Instances :
      /\ Cardinality(Sorted(k).names) = GetRulesNumber
      /\ \A n \in Names :
           /\ n \in Entities(k).names <=> IsExist(n)
           /\ n \in Sorted(k).names <=> IsExist(n)
           /\ IsExist(n) => Entities(k).gen = GetRuleSalience(n)

(* When a call has returned, executions that start then read its rules or  *)
(* newer ones, on whichever instance.                                      *)
UpdateVisible == \A k \in Instances : run[k].lastGen >= run[k].startGen

(* No rule is lost on the way from one generation to the next: a rule that *)
(* an execution does not find, or all of them, were missing in one of the  *)
(* generations the pool went through meanwhile.                            *)
NothingLostBetween ==
  \A k \in Instances :
    LET meanwhile == run[k].startGen .. Len(gens)
    IN  /\ \A n \in run[k].missed : \E g \in meanwhile : n \notin gens[g]
        /\ run[k].phase = "refused" => \E g \in meanwhile : gens[g] = {}

(* A call for the pool's rules succeeds or reports an error ("incremental  *)
(* update failed: return error").                                          *)
NoManagementPanic == outcome # "panic"
=============================================================================
