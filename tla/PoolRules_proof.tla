--------------------------- MODULE PoolRules_proof ---------------------------
(***************************************************************************)
(* The rules of the pool, for any number of instances and any sequence of  *)
(* calls: between two calls the pool and its instances agree, a call that  *)
(* has returned is seen by every later execution, and no rule is lost on   *)
(* the way.                                                                *)
(*                                                                         *)
(* The invariant says of every context, those detached included, that its  *)
(* two maps are the rules of the generation they are marked with (Marked); *)
(* of every instance that its maps are not older than the last call that   *)
(* returned (Recent); and for each place the call may be at, which of the  *)
(* instances have the newest generation already (Progress).                *)
(***************************************************************************)
EXTENDS PoolRules, SequenceTheorems, FiniteSetTheorems, TLAPS

RuleMaps == [gen : Nat, names : SUBSET Names]
Contexts == [RuleEntities : RuleMaps, SortRules : RuleMaps]
Runs == [phase : {"idle", "all", "selected", "dag", "load", "loaded", "refused"},
         names : SUBSET Names, startGen : Nat, lastGen : Nat, missed : SUBSET Names]

Types ==
  /\ kcs \in Seq(Contexts)
  /\ ruleBuilder \in DOMAIN kcs \cup {nil}
  /\ rbSlice \in [Instances -> DOMAIN kcs]
  /\ clear \in BOOLEAN
  /\ pc \in {"idle", "sort", "assign", "clear", "clearSort", "remove"}
  /\ i \in 1 .. max + 1
  /\ names \in SUBSET Names
  /\ outcome \in {"ok", "error", "panic"}
  /\ gens \in Seq(SUBSET Names)
  /\ visible \in DOMAIN gens
  /\ run \in [Instances -> Runs]

last == Len(gens)
True(m) == m.gen \in DOMAIN gens /\ m.names = gens[m.gen]
Marked == \A j \in DOMAIN kcs : True(kcs[j].RuleEntities) /\ True(kcs[j].SortRules)

Recent == \A k \in Instances : Entities(k).gen >= visible /\ Sorted(k).gen >= visible

Fresh(j) == kcs[j].RuleEntities.gen = last /\ kcs[j].SortRules.gen = last

Progress ==
  /\ pc = "idle" => visible = last /\ \A k \in Instances : Fresh(rbSlice[k])
  /\ pc \in {"idle", "remove"} /\ ruleBuilder # nil => Fresh(ruleBuilder) /\ ~clear
  /\ pc \in {"idle", "clear", "clearSort"} /\ ruleBuilder = nil => gens[last] = {}
  /\ pc \in {"sort", "assign", "remove"} => ruleBuilder # nil
  /\ pc \in {"clear", "clearSort"} => ruleBuilder = nil
  /\ pc = "sort" => kcs[ruleBuilder].RuleEntities.gen = last /\ i = 1
  /\ pc = "assign" => Fresh(ruleBuilder) /\ \A k \in Instances : k < i => rbSlice[k] = ruleBuilder
  /\ pc \in {"clear", "clearSort", "remove"} => \A k \in Instances : k < i => Fresh(rbSlice[k])
  /\ pc = "clearSort" => i <= max /\ Entities(i).gen = last
  /\ pc = "remove" => \A k \in Instances : k >= i => Entities(k).names \ names = gens[last]

ReadsTrue ==
  \A k \in Instances :
    /\ run[k].startGen <= visible
    /\ run[k].startGen <= run[k].lastGen /\ run[k].lastGen <= last
    /\ \A n \in run[k].missed : \E g \in DOMAIN gens : g >= run[k].startGen /\ n \notin gens[g]
    /\ run[k].phase = "refused" => \E g \in DOMAIN gens : g >= run[k].startGen /\ gens[g] = {}

IInv == Types /\ Marked /\ Recent /\ Progress /\ ReadsTrue

-----------------------------------------------------------------------------
LEMMA InitIInv == Init => IInv
<1> SUFFICES ASSUME Init PROVE IInv
  OBVIOUS
<1> USE PoolConstants DEF Init, Instances, nil
<1>1. Types
  <2>1. Context(RuleMap(1, FirstText)) \in Contexts
    BY DEF Contexts, RuleMaps, Context, RuleMap
  <2>2. kcs \in Seq(Contexts) /\ Len(kcs) = 1 /\ gens \in Seq(SUBSET Names) /\ Len(gens) = 1
    BY <2>1
  <2>3. 1 \in DOMAIN kcs /\ 1 \in DOMAIN gens
    BY <2>2
  <2>4. Idle \in Runs
    BY DEF Idle, Runs
  <2>5. rbSlice \in [Instances -> DOMAIN kcs] /\ run \in [Instances -> Runs]
    BY <2>3, <2>4
  <2>6. i \in 1 .. max + 1 /\ names \in SUBSET Names
    OBVIOUS
  <2> QED
    BY <2>2, <2>3, <2>5, <2>6 DEF Types
<1>2. Marked /\ Recent
  BY DEF Marked, True, Recent, Entities, Sorted, Context, RuleMap
<1>3. Progress
  BY DEF Progress, Fresh, last, Context, RuleMap
<1>4. ReadsTrue
  BY DEF ReadsTrue, last, Idle
<1> QED
  BY <1>1, <1>2, <1>3, <1>4 DEF IInv

(* A new generation leaves what was read, and what is marked, as it was.   *)
LEMMA NewGeneration ==
  ASSUME IInv, NEW rules \in SUBSET Names,
         gens' = Append(gens, rules), UNCHANGED <<visible, run>>
  PROVE  /\ gens' \in Seq(SUBSET Names) /\ last' = last + 1
         /\ visible' \in DOMAIN gens'
         /\ \A g \in DOMAIN gens : g \in DOMAIN gens' /\ gens'[g] = gens[g]
         /\ gens'[last'] = rules /\ last' \in DOMAIN gens'
         /\ ReadsTrue'
<1>1. /\ gens' \in Seq(SUBSET Names) /\ last' = last + 1 /\ last \in Nat
      /\ visible' \in DOMAIN gens'
      /\ \A g \in DOMAIN gens : g \in DOMAIN gens' /\ gens'[g] = gens[g]
      /\ gens'[last'] = rules /\ last' \in DOMAIN gens'
  BY DEF IInv, Types, last
<1>2. ReadsTrue'
  <2> SUFFICES ASSUME NEW k \in Instances
               PROVE  ReadsTrue!(k)'
    BY DEF ReadsTrue
  <2>1. run'[k] = run[k] /\ run[k] \in Runs /\ visible' = visible
    BY DEF IInv, Types
  <2>2. /\ run[k].startGen <= visible /\ run[k].startGen <= run[k].lastGen
        /\ run[k].lastGen <= last'
    BY <1>1, <2>1 DEF IInv, ReadsTrue, Runs
  <2>3. \A n \in run[k].missed : \E g \in DOMAIN gens' : g >= run[k].startGen /\ n \notin gens'[g]
    BY <1>1 DEF IInv, ReadsTrue
  <2>4. run[k].phase = "refused" => \E g \in DOMAIN gens' : g >= run[k].startGen /\ gens'[g] = {}
    BY <1>1 DEF IInv, ReadsTrue
  <2> QED
    BY <2>1, <2>2, <2>3, <2>4
<1> QED
  BY <1>1, <1>2

(* Reads stay true while no generation is added and no run goes on. *)
LEMMA ReadsKept ==
  ASSUME IInv, UNCHANGED <<gens, run>>, visible' \in {visible, last}
  PROVE  ReadsTrue'
<1> SUFFICES ASSUME NEW k \in Instances
             PROVE  ReadsTrue!(k)'
  BY DEF ReadsTrue
<1>1. run[k] \in Runs /\ visible \in Nat /\ last \in Nat /\ visible <= last /\ last' = last
  BY DEF IInv, Types, last
<1>2. ReadsTrue!(k)
  BY DEF IInv, ReadsTrue
<1> QED
  BY <1>1, <1>2 DEF Runs

(* One map of one context changed, the rest of the contexts kept *)
LEMMA EntitiesChanged ==
  ASSUME NEW s \in Seq(Contexts), NEW j \in DOMAIN s, NEW m \in RuleMaps
  PROVE  LET t == [s EXCEPT ![j].RuleEntities = m]
         IN  /\ t \in Seq(Contexts) /\ DOMAIN t = DOMAIN s
             /\ t[j].RuleEntities = m /\ t[j].SortRules = s[j].SortRules
             /\ \A k \in DOMAIN s : k # j => t[k] = s[k]
<1>1. s[j] \in Contexts
  OBVIOUS
<1>2. [s[j] EXCEPT !.RuleEntities = m] \in Contexts
  BY <1>1 DEF Contexts
<1>3. [s EXCEPT ![j] = [s[j] EXCEPT !.RuleEntities = m]] \in Seq(Contexts)
  BY <1>2
<1> QED
  BY <1>1, <1>3 DEF Contexts

LEMMA SortRulesChanged ==
  ASSUME NEW s \in Seq(Contexts), NEW j \in DOMAIN s, NEW m \in RuleMaps
  PROVE  LET t == [s EXCEPT ![j].SortRules = m]
         IN  /\ t \in Seq(Contexts) /\ DOMAIN t = DOMAIN s
             /\ t[j].SortRules = m /\ t[j].RuleEntities = s[j].RuleEntities
             /\ \A k \in DOMAIN s : k # j => t[k] = s[k]
<1>1. s[j] \in Contexts
  OBVIOUS
<1>2. [s[j] EXCEPT !.SortRules = m] \in Contexts
  BY <1>1 DEF Contexts
<1>3. [s EXCEPT ![j] = [s[j] EXCEPT !.SortRules = m]] \in Seq(Contexts)
  BY <1>2
<1> QED
  BY <1>1, <1>3 DEF Contexts

-----------------------------------------------------------------------------
(* UpdatePooledRules makes a new context, nobody's but gp.ruleBuilder's. *)
LEMMA UpdateStep ==
  ASSUME IInv, NEW ns \in SUBSET Names, UpdatePooledRules(ns)
  PROVE  IInv'
<1> DEFINE new == Context(RuleMap(NewGen, ns))
<1>1. /\ pc = "idle" /\ kcs' = Append(kcs, new) /\ ruleBuilder' = Len(kcs) + 1
      /\ rbSlice' = rbSlice /\ clear' = clear /\ pc' = "assign" /\ i' = 1 /\ names' = ns
      /\ outcome' = "ok" /\ gens' = Append(gens, ns) /\ visible' = visible /\ run' = run
  BY DEF UpdatePooledRules, Called, Begin
<1>2. /\ gens' \in Seq(SUBSET Names) /\ last' = last + 1
      /\ visible' \in DOMAIN gens'
      /\ gens'[last'] = ns /\ last' \in DOMAIN gens'
      /\ \A g \in DOMAIN gens : g \in DOMAIN gens' /\ gens'[g] = gens[g]
      /\ ReadsTrue'
  BY <1>1, NewGeneration
<1>3. new \in Contexts /\ new.RuleEntities = RuleMap(last', ns) /\ new.SortRules = RuleMap(last', ns)
  BY <1>2 DEF Contexts, RuleMaps, Context, RuleMap, NewGen, IInv, Types, last
<1>4. /\ kcs' \in Seq(Contexts) /\ ruleBuilder' \in DOMAIN kcs' /\ kcs'[ruleBuilder'] = new
      /\ \A j \in DOMAIN kcs : j \in DOMAIN kcs' /\ kcs'[j] = kcs[j]
      /\ \A j \in DOMAIN kcs' : j \in DOMAIN kcs \/ j = ruleBuilder'
  BY <1>1, <1>3 DEF IInv, Types
<1> HIDE DEF new
<1>5. Types'
  BY <1>1, <1>2, <1>4, PoolConstants DEF IInv, Types
<1>6. Marked'
  BY <1>2, <1>3, <1>4 DEF IInv, Marked, True, RuleMap
<1>7. Recent'
  BY <1>1, <1>4 DEF IInv, Recent, Types, Entities, Sorted
<1>8. Progress'
  BY <1>1, <1>3, <1>4 DEF Progress, Fresh, RuleMap, Instances, nil, IInv, Types
<1> QED
  BY <1>2, <1>5, <1>6, <1>7, <1>8 DEF IInv

(* UpdatePooledRulesIncremental changes gp.ruleBuilder's context, which    *)
(* instances may share: whoever shares it has the new names at once.       *)
LEMMA IncrementalStep ==
  ASSUME IInv, NEW ns \in SUBSET Names, UpdatePooledRulesIncremental(ns)
  PROVE  IInv'
<1> DEFINE all == kcs[ruleBuilder].RuleEntities.names \cup ns
           new == RuleMap(NewGen, all)
<1>1. /\ pc = "idle" /\ ruleBuilder # nil
      /\ kcs' = [kcs EXCEPT ![ruleBuilder].RuleEntities = new] /\ ruleBuilder' = ruleBuilder
      /\ rbSlice' = rbSlice /\ clear' = clear /\ pc' = "sort" /\ i' = 1 /\ names' = ns
      /\ outcome' = "ok" /\ gens' = Append(gens, all) /\ visible' = visible /\ run' = run
  BY DEF UpdatePooledRulesIncremental, Called, Begin
<1>2. all \in SUBSET Names /\ ruleBuilder \in DOMAIN kcs
  <2>1. ruleBuilder \in DOMAIN kcs /\ kcs \in Seq(Contexts)
    BY <1>1 DEF IInv, Types
  <2>2. kcs[ruleBuilder] \in Contexts
    BY <2>1
  <2> QED
    BY <2>1, <2>2 DEF Contexts, RuleMaps
<1>3. /\ gens' \in Seq(SUBSET Names) /\ last' = last + 1
      /\ visible' \in DOMAIN gens'
      /\ \A g \in DOMAIN gens : g \in DOMAIN gens' /\ gens'[g] = gens[g]
      /\ gens'[last'] = all /\ last' \in DOMAIN gens'
      /\ ReadsTrue'
  BY <1>1, <1>2, NewGeneration
<1>4. new \in RuleMaps /\ new.gen = last' /\ new.names = all
  BY <1>2, <1>3 DEF RuleMaps, RuleMap, NewGen, IInv, Types, last
<1>5. /\ kcs' \in Seq(Contexts) /\ DOMAIN kcs' = DOMAIN kcs
      /\ kcs'[ruleBuilder].RuleEntities = new
      /\ kcs'[ruleBuilder].SortRules = kcs[ruleBuilder].SortRules
      /\ \A j \in DOMAIN kcs : j # ruleBuilder => kcs'[j] = kcs[j]
  <2> HIDE DEF new
  <2> QED
    BY <1>1, <1>2, <1>4, EntitiesChanged DEF IInv, Types
<1> HIDE DEF all, new
<1>6. Types'
  BY <1>1, <1>2, <1>3, <1>5, PoolConstants DEF IInv, Types
<1>7. Marked'
  <2> SUFFICES ASSUME NEW j \in DOMAIN kcs
               PROVE  Marked!(j)'
    BY <1>5 DEF Marked
  <2>1. CASE j = ruleBuilder
    BY <1>3, <1>4, <1>5, <2>1 DEF IInv, Marked, True
  <2>2. CASE j # ruleBuilder
    BY <1>3, <1>5, <2>2 DEF IInv, Marked, True
  <2> QED
    BY <2>1, <2>2
<1>8. Recent'
  <2> SUFFICES ASSUME NEW k \in Instances
               PROVE  Recent!(k)'
    BY DEF Recent
  <2>1. rbSlice[k] \in DOMAIN kcs /\ last' >= visible /\ Recent!(k)
    BY <1>3 DEF IInv, Types, Recent, last
  <2> QED
    BY <1>1, <1>4, <1>5, <2>1 DEF Entities, Sorted
<1>9. Progress'
  BY <1>1, <1>4, <1>5 DEF Progress, nil
<1> QED
  BY <1>3, <1>6, <1>7, <1>8, <1>9 DEF IInv

LEMMA UpdateSortStep ==
  ASSUME IInv, UpdateSortRules
  PROVE  IInv'
<1>1. /\ pc = "sort" /\ pc' = "assign"
      /\ kcs' = [kcs EXCEPT ![ruleBuilder].SortRules = kcs[ruleBuilder].RuleEntities]
      /\ UNCHANGED <<ruleBuilder, rbSlice, clear, i, names, outcome, gens, visible, run>>
  BY DEF UpdateSortRules, history
<1>2. ruleBuilder \in DOMAIN kcs /\ kcs[ruleBuilder].RuleEntities.gen = last /\ i = 1 /\ ruleBuilder # nil
  BY <1>1 DEF IInv, Types, Progress
<1>3. /\ kcs' \in Seq(Contexts) /\ DOMAIN kcs' = DOMAIN kcs
      /\ kcs'[ruleBuilder].RuleEntities = kcs[ruleBuilder].RuleEntities
      /\ kcs'[ruleBuilder].SortRules = kcs[ruleBuilder].RuleEntities
      /\ \A j \in DOMAIN kcs : j # ruleBuilder => kcs'[j] = kcs[j]
  <2>1. kcs \in Seq(Contexts) /\ kcs[ruleBuilder] \in Contexts
    BY <1>2 DEF IInv, Types
  <2>2. kcs[ruleBuilder].RuleEntities \in RuleMaps
    BY <2>1 DEF Contexts
  <2> QED
    BY <1>1, <1>2, <2>1, <2>2, SortRulesChanged
<1>4. Types'
  BY <1>1, <1>2, <1>3 DEF IInv, Types
<1>5. Marked'
  BY <1>1, <1>2, <1>3 DEF IInv, Marked, True
<1>6. Recent'
  BY <1>1, <1>3 DEF IInv, Recent, Types, Entities, Sorted
<1>7. Progress'
  BY <1>1, <1>2, <1>3 DEF Progress, Fresh, last, Instances
<1>8. ReadsTrue'
  BY <1>1, ReadsKept
<1> QED
  BY <1>4, <1>5, <1>6, <1>7, <1>8 DEF IInv

LEMMA AssignStep ==
  ASSUME IInv, Assign
  PROVE  IInv'
<1>1. /\ pc = "assign" /\ i <= max /\ i' = i + 1 /\ rbSlice' = [rbSlice EXCEPT ![i] = ruleBuilder]
      /\ UNCHANGED <<kcs, ruleBuilder, clear, pc, names, outcome, gens, visible, run>>
  BY DEF Assign, history
<1>2. /\ i \in Instances /\ max \in Nat /\ ruleBuilder \in DOMAIN kcs /\ Fresh(ruleBuilder)
      /\ \A k \in Instances : k < i => rbSlice[k] = ruleBuilder
  BY <1>1, PoolConstants DEF IInv, Types, Progress, Instances
<1>3. rbSlice' \in [Instances -> DOMAIN kcs] /\ rbSlice'[i] = ruleBuilder
      /\ \A k \in Instances : k # i => rbSlice'[k] = rbSlice[k]
  BY <1>1, <1>2 DEF IInv, Types
<1>4. Types'
  BY <1>1, <1>2, <1>3 DEF IInv, Types, Instances
<1>5. Marked'
  BY <1>1 DEF IInv, Marked, True
<1>6. Recent'
  <2>1. last >= visible
    BY DEF IInv, Types, last
  <2> SUFFICES ASSUME NEW k \in Instances
               PROVE  Recent!(k)'
    BY DEF Recent
  <2>2. CASE k = i
    BY <1>1, <1>2, <1>3, <2>1, <2>2 DEF Entities, Sorted, Fresh
  <2>3. CASE k # i
    BY <1>1, <1>3, <2>3 DEF IInv, Recent, Entities, Sorted
  <2> QED
    BY <2>2, <2>3
<1>7. Progress'
  BY <1>1, <1>2, <1>3 DEF IInv, Progress, Fresh, last, Instances
<1>8. ReadsTrue'
  BY <1>1, ReadsKept
<1> QED
  BY <1>4, <1>5, <1>6, <1>7, <1>8 DEF IInv

(* A call returns when every instance has the newest generation. *)
LEMMA ReturnStep ==
  ASSUME IInv, Return, UNCHANGED <<kcs, ruleBuilder, rbSlice>>, clear' \in BOOLEAN,
         \A k \in Instances : Fresh(rbSlice[k]),
         ruleBuilder # nil => Fresh(ruleBuilder) /\ ~clear',
         ruleBuilder = nil => gens[last] = {}
  PROVE  IInv'
<1>1. /\ pc' = "idle" /\ i' = 1 /\ names' = {} /\ visible' = last
      /\ UNCHANGED <<outcome, gens, run>>
  BY DEF Return, last
<1>2. last \in DOMAIN gens
  BY DEF IInv, Types, last
<1>3. Types'
  BY <1>1, <1>2, PoolConstants DEF IInv, Types
<1>4. Marked'
  BY <1>1 DEF IInv, Marked, True
<1>5. Recent'
  BY <1>1, <1>2 DEF IInv, Recent, Types, Entities, Sorted, Fresh
<1>6. Progress'
  BY <1>1 DEF Progress, Fresh, last
<1>7. ReadsTrue'
  BY <1>1, ReadsKept
<1> QED
  BY <1>3, <1>4, <1>5, <1>6, <1>7 DEF IInv

LEMMA AssignedStep ==
  ASSUME IInv, Assigned
  PROVE  IInv'
<1>1. \A k \in Instances : rbSlice[k] = ruleBuilder
  BY PoolConstants DEF Assigned, IInv, Types, Progress, Instances
<1>2. Fresh(ruleBuilder) /\ ruleBuilder # nil
  BY DEF Assigned, IInv, Progress
<1> QED
  BY <1>1, <1>2, ReturnStep DEF Assigned

-----------------------------------------------------------------------------
(* ClearPoolRules *)
LEMMA ClearStep ==
  ASSUME IInv, ClearPoolRules
  PROVE  IInv'
<1>1. /\ pc = "idle" /\ ruleBuilder' = nil /\ kcs' = kcs /\ rbSlice' = rbSlice /\ clear' = TRUE
      /\ pc' = "clear" /\ i' = 1 /\ names' = {} /\ outcome' = "ok"
      /\ gens' = Append(gens, {}) /\ visible' = visible /\ run' = run
  BY DEF ClearPoolRules, Called, Begin
<1>2. /\ gens' \in Seq(SUBSET Names) /\ last' = last + 1
      /\ visible' \in DOMAIN gens'
      /\ \A g \in DOMAIN gens : g \in DOMAIN gens' /\ gens'[g] = gens[g]
      /\ gens'[last'] = {} /\ last' \in DOMAIN gens'
      /\ ReadsTrue'
  <2>1. {} \in SUBSET Names
    OBVIOUS
  <2> QED
    BY <1>1, <2>1, NewGeneration
<1>3. Types'
  BY <1>1, <1>2, PoolConstants DEF IInv, Types
<1>4. Marked'
  BY <1>1, <1>2 DEF IInv, Marked, True
<1>5. Recent'
  BY <1>1 DEF IInv, Recent, Entities, Sorted
<1>6. Progress'
  BY <1>1, <1>2 DEF Progress, Instances
<1> QED
  BY <1>2, <1>3, <1>4, <1>5, <1>6 DEF IInv

LEMMA ClearEntitiesStep ==
  ASSUME IInv, ClearEntities
  PROVE  IInv'
<1> DEFINE new == RuleMap(Len(gens), {})
<1>0. PICK j \in DOMAIN kcs : j = rbSlice[i]
  BY PoolConstants DEF IInv, Types, Progress, Instances, ClearEntities, ClearSort
<1>1. /\ pc = "clear" /\ i <= max /\ pc' = "clearSort" /\ kcs' = [kcs EXCEPT ![j].RuleEntities = new]
      /\ UNCHANGED <<ruleBuilder, rbSlice, clear, i, names, outcome, gens, visible, run>>
  BY <1>0 DEF ClearEntities, history
<1>2. /\ i \in Instances /\ last \in DOMAIN gens /\ last >= visible
      /\ ruleBuilder = nil /\ gens[last] = {} /\ \A k \in Instances : k < i => Fresh(rbSlice[k])
  BY <1>1, PoolConstants DEF IInv, Types, Progress, Instances, last
<1>3. new \in RuleMaps /\ new.gen = last /\ new.names = {}
  BY <1>2 DEF RuleMaps, RuleMap, last, IInv, Types
<1> HIDE DEF new
<1>4. /\ kcs' \in Seq(Contexts) /\ DOMAIN kcs' = DOMAIN kcs
      /\ kcs'[j].RuleEntities = new /\ kcs'[j].SortRules = kcs[j].SortRules
      /\ \A k \in DOMAIN kcs : k # j => kcs'[k] = kcs[k]
  BY <1>1, <1>2, <1>3, EntitiesChanged DEF IInv, Types
<1>5. Types'
  BY <1>1, <1>4 DEF IInv, Types
<1>6. Marked'
  <2> SUFFICES ASSUME NEW k \in DOMAIN kcs
               PROVE  Marked!(k)'
    BY <1>4 DEF Marked
  <2>1. CASE k = j
    BY <1>1, <1>2, <1>3, <1>4, <2>1 DEF IInv, Marked, True
  <2>2. CASE k # j
    BY <1>1, <1>4, <2>2 DEF IInv, Marked, True
  <2> QED
    BY <2>1, <2>2
<1>7. Recent'
  BY <1>1, <1>2, <1>3, <1>4 DEF IInv, Types, Recent, Entities, Sorted
<1>8. Progress'
  <2>1. \A k \in Instances : k < i => Fresh(rbSlice[k])'
    BY <1>1, <1>2, <1>3, <1>4 DEF IInv, Types, Fresh, last
  <2>2. kcs'[rbSlice'[i']].RuleEntities = new
    BY <1>0, <1>1, <1>4
  <2> QED
    BY <1>1, <1>2, <1>3, <2>1, <2>2 DEF Progress, last, Entities
<1>9. ReadsTrue'
  BY <1>1, ReadsKept
<1> QED
  BY <1>5, <1>6, <1>7, <1>8, <1>9 DEF IInv

LEMMA ClearSortStep ==
  ASSUME IInv, ClearSort
  PROVE  IInv'
<1> DEFINE new == RuleMap(Len(gens), {})
<1>0. PICK j \in DOMAIN kcs : j = rbSlice[i]
  BY PoolConstants DEF IInv, Types, Progress, Instances, ClearEntities, ClearSort
<1>1. /\ pc = "clearSort" /\ pc' = "clear" /\ i' = i + 1 /\ kcs' = [kcs EXCEPT ![j].SortRules = new]
      /\ UNCHANGED <<ruleBuilder, rbSlice, clear, names, outcome, gens, visible, run>>
  BY <1>0 DEF ClearSort, history
<1>2. /\ i \in Instances /\ last \in DOMAIN gens /\ last >= visible
      /\ ruleBuilder = nil /\ gens[last] = {} /\ \A k \in Instances : k < i => Fresh(rbSlice[k])
      /\ kcs[j].RuleEntities.gen = last
  BY <1>0, <1>1, PoolConstants DEF IInv, Types, Progress, Instances, last, Entities
<1>3. new \in RuleMaps /\ new.gen = last /\ new.names = {}
  BY <1>2 DEF RuleMaps, RuleMap, last, IInv, Types
<1> HIDE DEF new
<1>4. /\ kcs' \in Seq(Contexts) /\ DOMAIN kcs' = DOMAIN kcs
      /\ kcs'[j].SortRules = new /\ kcs'[j].RuleEntities = kcs[j].RuleEntities
      /\ \A k \in DOMAIN kcs : k # j => kcs'[k] = kcs[k]
  BY <1>1, <1>2, <1>3, SortRulesChanged DEF IInv, Types
<1>5. Types'
  BY <1>1, <1>2, <1>4, PoolConstants DEF IInv, Types, Instances
<1>6. Marked'
  <2> SUFFICES ASSUME NEW k \in DOMAIN kcs
               PROVE  Marked!(k)'
    BY <1>4 DEF Marked
  <2>1. CASE k = j
    BY <1>1, <1>2, <1>3, <1>4, <2>1 DEF IInv, Marked, True
  <2>2. CASE k # j
    BY <1>1, <1>4, <2>2 DEF IInv, Marked, True
  <2> QED
    BY <2>1, <2>2
<1>7. Recent'
  BY <1>1, <1>2, <1>3, <1>4 DEF IInv, Types, Recent, Entities, Sorted
<1>8. Progress'
  <2>1. Fresh(j)'
    BY <1>1, <1>2, <1>3, <1>4 DEF Fresh, last
  <2>2. \A k \in Instances : k < i => Fresh(rbSlice[k])'
    BY <1>1, <1>2, <1>3, <1>4 DEF IInv, Types, Fresh, last
  <2>3. \A k \in Instances : k < i' => Fresh(rbSlice[k])'
    BY <1>0, <1>1, <1>2, <2>1, <2>2 DEF Instances
  <2> QED
    BY <1>1, <1>2, <2>3 DEF Progress, last
<1>9. ReadsTrue'
  BY <1>1, ReadsKept
<1> QED
  BY <1>5, <1>6, <1>7, <1>8, <1>9 DEF IInv

LEMMA ClearedStep ==
  ASSUME IInv, Cleared
  PROVE  IInv'
<1>1. \A k \in Instances : Fresh(rbSlice[k])
  BY PoolConstants DEF Cleared, IInv, Types, Progress, Instances
<1>2. ruleBuilder = nil /\ gens[last] = {} /\ clear \in BOOLEAN
  BY DEF Cleared, IInv, Progress, Types
<1> QED
  BY <1>1, <1>2, ReturnStep DEF Cleared, builders

-----------------------------------------------------------------------------
(* RemoveRules: every builder derives its rules from its own; they come    *)
(* out the same because they were the same between the calls.              *)
LEMMA RemoveRulesStep ==
  ASSUME IInv, NEW ns \in SUBSET Names, RemoveRules(ns)
  PROVE  IInv'
<1> DEFINE rest == kcs[ruleBuilder].RuleEntities.names \ ns
           new == Context(RuleMap(NewGen, rest))
<1>1. /\ pc = "idle" /\ ruleBuilder # nil /\ kcs' = Append(kcs, new) /\ ruleBuilder' = Len(kcs) + 1
      /\ rbSlice' = rbSlice /\ clear' = clear /\ pc' = "remove" /\ i' = 1 /\ names' = ns
      /\ outcome' = "ok" /\ gens' = Append(gens, rest) /\ visible' = visible /\ run' = run
  BY DEF RemoveRules, Called, Begin
<1>2. /\ ruleBuilder \in DOMAIN kcs /\ rest \in SUBSET Names /\ ~clear
      /\ \A k \in Instances : Entities(k).names = gens[last]
      /\ kcs[ruleBuilder].RuleEntities.names = gens[last]
  <2>1. ruleBuilder \in DOMAIN kcs /\ kcs \in Seq(Contexts) /\ Fresh(ruleBuilder) /\ ~clear
    BY <1>1 DEF IInv, Types, Progress
  <2>2. kcs[ruleBuilder] \in Contexts
    BY <2>1
  <2>3. \A k \in Instances : rbSlice[k] \in DOMAIN kcs /\ Fresh(rbSlice[k])
    BY <1>1 DEF IInv, Types, Progress
  <2> QED
    BY <2>1, <2>2, <2>3 DEF IInv, Marked, True, Fresh, Entities, Contexts, RuleMaps
<1>3. /\ gens' \in Seq(SUBSET Names) /\ last' = last + 1
      /\ visible' \in DOMAIN gens'
      /\ \A g \in DOMAIN gens : g \in DOMAIN gens' /\ gens'[g] = gens[g]
      /\ gens'[last'] = rest /\ last' \in DOMAIN gens'
      /\ ReadsTrue'
  BY <1>1, <1>2, NewGeneration
<1>4. new \in Contexts /\ new.RuleEntities = RuleMap(last', rest) /\ new.SortRules = RuleMap(last', rest)
  BY <1>2, <1>3 DEF Contexts, RuleMaps, Context, RuleMap, NewGen, IInv, Types, last
<1>5. rest = gens[last] \ ns
  BY <1>2
<1> HIDE DEF new, rest
<1>6. /\ kcs' \in Seq(Contexts) /\ ruleBuilder' \in DOMAIN kcs' /\ kcs'[ruleBuilder'] = new
      /\ \A j \in DOMAIN kcs : j \in DOMAIN kcs' /\ kcs'[j] = kcs[j]
      /\ \A j \in DOMAIN kcs' : j \in DOMAIN kcs \/ j = ruleBuilder'
      /\ ruleBuilder' # nil
  BY <1>1, <1>4 DEF IInv, Types, nil
<1>7. Types'
  BY <1>1, <1>3, <1>6, PoolConstants DEF IInv, Types
<1>8. Marked'
  BY <1>3, <1>4, <1>6 DEF IInv, Marked, True, RuleMap
<1>9. Recent'
  BY <1>1, <1>6 DEF IInv, Recent, Types, Entities, Sorted
<1>10. Progress'
  <2>1. \A k \in Instances : (Entities(k).names \ names = gens[last])'
    BY <1>1, <1>2, <1>3, <1>5, <1>6 DEF IInv, Types, Entities
  <2>2. Fresh(ruleBuilder)'
    BY <1>4, <1>6 DEF Fresh, RuleMap
  <2> QED
    <3>1. \A k \in Instances : ~(k < i')
      BY <1>1, PoolConstants DEF Instances
    <3> QED
      BY <1>1, <1>2, <1>6, <2>1, <2>2, <3>1 DEF Progress
<1> QED
  BY <1>3, <1>7, <1>8, <1>9, <1>10 DEF IInv

LEMMA RemoveStep ==
  ASSUME IInv, Remove
  PROVE  IInv'
<1> DEFINE new == Context(RuleMap(Len(gens), Entities(i).names \ names))
           j == Len(kcs) + 1
<1>1. /\ pc = "remove" /\ i <= max /\ i' = i + 1 /\ kcs' = Append(kcs, new)
      /\ rbSlice' = [rbSlice EXCEPT ![i] = j]
      /\ UNCHANGED <<ruleBuilder, clear, pc, names, outcome, gens, visible, run>>
  BY DEF Remove, history, Entities
<1>2. /\ i \in Instances /\ max \in Nat /\ last \in DOMAIN gens /\ last >= visible
      /\ Entities(i).names \ names = gens[last] /\ gens[last] \in SUBSET Names
      /\ ruleBuilder \in DOMAIN kcs /\ ruleBuilder # nil /\ Fresh(ruleBuilder) /\ ~clear
      /\ \A k \in Instances : k < i => Fresh(rbSlice[k])
      /\ \A k \in Instances : k >= i => Entities(k).names \ names = gens[last]
  <2>1. /\ i \in Instances /\ max \in Nat /\ last \in DOMAIN gens /\ last >= visible
        /\ gens[last] \in SUBSET Names
    BY <1>1, PoolConstants DEF IInv, Types, Instances, last
  <2>2. /\ ruleBuilder \in DOMAIN kcs /\ ruleBuilder # nil /\ Fresh(ruleBuilder) /\ ~clear
        /\ \A k \in Instances : k < i => Fresh(rbSlice[k])
        /\ \A k \in Instances : k >= i => Entities(k).names \ names = gens[last]
    BY <1>1 DEF IInv, Types, Progress
  <2>3. Entities(i).names \ names = gens[last]
    BY <2>1, <2>2 DEF Instances
  <2> QED
    BY <2>1, <2>2, <2>3
<1>3. new \in Contexts /\ new.RuleEntities = RuleMap(last, gens[last]) /\ new.SortRules = RuleMap(last, gens[last])
  <2>1. RuleMap(last, gens[last]) \in RuleMaps
    BY <1>2 DEF RuleMaps, RuleMap, IInv, Types
  <2>2. new = Context(RuleMap(last, gens[last]))
    BY <1>2 DEF last
  <2> QED
    BY <2>1, <2>2 DEF Contexts, Context
<1> HIDE DEF new
<1>4. /\ kcs' \in Seq(Contexts) /\ j \in DOMAIN kcs' /\ kcs'[j] = new /\ j \notin DOMAIN kcs
      /\ \A k \in DOMAIN kcs : k \in DOMAIN kcs' /\ kcs'[k] = kcs[k]
      /\ \A k \in DOMAIN kcs' : k \in DOMAIN kcs \/ k = j
  BY <1>1, <1>3 DEF IInv, Types
<1> HIDE DEF j
<1>5. /\ rbSlice' \in [Instances -> DOMAIN kcs'] /\ rbSlice'[i] = j
      /\ \A k \in Instances : k # i => rbSlice'[k] = rbSlice[k]
  BY <1>1, <1>2, <1>4 DEF IInv, Types
<1>6. Types'
  BY <1>1, <1>2, <1>4, <1>5 DEF IInv, Types, Instances
<1>7. Marked'
  BY <1>1, <1>2, <1>3, <1>4 DEF IInv, Marked, True, RuleMap
<1>8. \A k \in Instances : k # i => kcs'[rbSlice'[k]] = kcs[rbSlice[k]]
  BY <1>4, <1>5 DEF IInv, Types
<1>9. kcs'[rbSlice'[i]].RuleEntities.gen = last /\ kcs'[rbSlice'[i]].SortRules.gen = last
  BY <1>3, <1>4, <1>5 DEF RuleMap
<1>10. Recent'
  <2> SUFFICES ASSUME NEW k \in Instances
               PROVE  Recent!(k)'
    BY DEF Recent
  <2>1. CASE k = i
    BY <1>1, <1>2, <1>9, <2>1 DEF Entities, Sorted
  <2>2. CASE k # i
    BY <1>1, <1>8, <2>2 DEF IInv, Recent, Entities, Sorted
  <2> QED
    BY <2>1, <2>2
<1>11. Progress'
  <2>1. \A k \in Instances : k < i' => Fresh(rbSlice[k])'
    <3> SUFFICES ASSUME NEW k \in Instances, k < i'
                 PROVE  Fresh(rbSlice[k])'
      OBVIOUS
    <3>1. CASE k = i
      BY <1>1, <1>9, <3>1 DEF Fresh, last
    <3>2. CASE k # i
      <4>1. k < i
        BY <1>1, <1>2, <3>2 DEF Instances
      <4>2. Fresh(rbSlice[k])
        BY <1>2, <4>1
      <4> QED
        BY <1>1, <1>8, <3>2, <4>2 DEF Fresh, last
    <3> QED
      BY <3>1, <3>2
  <2>2. \A k \in Instances : k >= i' => (Entities(k).names \ names = gens[last])'
    <3> SUFFICES ASSUME NEW k \in Instances, k >= i'
                 PROVE  (Entities(k).names \ names = gens[last])'
      OBVIOUS
    <3>1. k # i /\ k >= i
      BY <1>1, <1>2 DEF Instances
    <3>2. Entities(k).names \ names = gens[last]
      BY <1>2, <3>1
    <3> QED
      BY <1>1, <1>8, <3>1, <3>2 DEF Entities, last
  <2>3. Fresh(ruleBuilder)'
    BY <1>1, <1>2, <1>4 DEF Fresh, last
  <2> QED
    BY <1>1, <1>2, <2>1, <2>2, <2>3 DEF Progress
<1>12. ReadsTrue'
  BY <1>1, ReadsKept
<1> QED
  BY <1>6, <1>7, <1>10, <1>11, <1>12 DEF IInv

LEMMA RemovedStep ==
  ASSUME IInv, Removed
  PROVE  IInv'
<1>1. \A k \in Instances : Fresh(rbSlice[k])
  BY PoolConstants DEF Removed, IInv, Types, Progress, Instances
<1>2. ruleBuilder # nil /\ Fresh(ruleBuilder) /\ ~clear
  BY DEF Removed, IInv, Progress
<1>3. clear' \in BOOLEAN /\ ~clear' /\ UNCHANGED <<kcs, ruleBuilder, rbSlice>> /\ Return
  BY <1>2 DEF Removed, builders, IInv, Types
<1> QED
  BY <1>1, <1>2, <1>3, ReturnStep

-----------------------------------------------------------------------------
(* Steps that leave the rules alone: a call that panics, the executions,   *)
(* and stuttering                                                          *)
LEMMA RulesUntouched ==
  ASSUME IInv, UNCHANGED <<builders, pc, i, names, history>>,
         outcome' \in {"ok", "error", "panic"}, run' \in [Instances -> Runs]
  PROVE  Types' /\ Marked' /\ Recent' /\ Progress'
<1> USE DEF builders, history, IInv
<1>1. Types'
  BY DEF Types
<1>2. Marked'
  BY DEF Marked, True
<1>3. Recent'
  BY DEF Recent, Entities, Sorted
<1>4. Progress'
  BY DEF Progress, Fresh, last, Entities
<1> QED
  BY <1>1, <1>2, <1>3, <1>4

(* A run goes on by what a map says that is marked and recent. *)
LEMMA ReadStep ==
  ASSUME IInv, NEW k \in Instances, NEW r \in Runs,
         UNCHANGED <<builders, call, history>>, run' = [run EXCEPT ![k] = r],
         r.startGen <= visible /\ r.startGen <= r.lastGen /\ r.lastGen <= last,
         \A n \in r.missed : \E g \in DOMAIN gens : g >= r.startGen /\ n \notin gens[g],
         r.phase = "refused" => \E g \in DOMAIN gens : g >= r.startGen /\ gens[g] = {}
  PROVE  IInv'
<1>1. run' \in [Instances -> Runs] /\ run'[k] = r /\ \A other \in Instances : other # k => run'[other] = run[other]
  BY DEF IInv, Types
<1>2. Types' /\ Marked' /\ Recent' /\ Progress'
  BY <1>1, RulesUntouched DEF call, IInv, Types
<1>3. ReadsTrue'
  <2> SUFFICES ASSUME NEW other \in Instances
               PROVE  ReadsTrue!(other)'
    BY DEF ReadsTrue
  <2>1. CASE other = k
    BY <1>1, <2>1 DEF IInv, ReadsTrue, history, last
  <2>2. CASE other # k
    BY <1>1, <2>2 DEF IInv, ReadsTrue, history, last
  <2> QED
    BY <2>1, <2>2
<1> QED
  BY <1>2, <1>3 DEF IInv

(* What an execution reads from its instance is marked and recent. *)
LEMMA ReadMap ==
  ASSUME IInv, NEW k \in Instances, NEW m, m = Entities(k) \/ m = Sorted(k)
  PROVE  /\ m \in RuleMaps /\ m.gen \in DOMAIN gens /\ m.names = gens[m.gen]
         /\ m.gen >= visible /\ m.gen <= last /\ run[k] \in Runs
         /\ visible \in Nat /\ last \in Nat /\ visible <= last
         /\ run[k].startGen <= visible
<1>1. /\ rbSlice[k] \in DOMAIN kcs /\ kcs \in Seq(Contexts) /\ gens \in Seq(SUBSET Names)
      /\ run[k] \in Runs /\ visible \in DOMAIN gens
  BY DEF IInv, Types
<1>2. kcs[rbSlice[k]] \in Contexts
  BY <1>1
<1>3. m \in RuleMaps /\ m.gen \in DOMAIN gens /\ m.names = gens[m.gen] /\ m.gen >= visible
  BY <1>1, <1>2 DEF IInv, Marked, True, Recent, Entities, Sorted, Contexts
<1>4. run[k].startGen <= visible
  BY DEF IInv, ReadsTrue
<1> QED
  BY <1>1, <1>3, <1>4 DEF last

LEMMA ExecutionStep ==
  ASSUME IInv, NEW k \in Instances, Execution(k)
  PROVE  IInv'
<1>0. run[k] \in Runs /\ run \in [Instances -> Runs] /\ visible \in Nat /\ last \in Nat /\ visible <= last
  BY ReadMap DEF IInv, Types
<1>1. ASSUME NEW kind \in {"all", "selected", "dag"}, NEW ns \in SUBSET Names, Execute(k, kind, ns)
      PROVE  IInv'
  <2> DEFINE r == [phase |-> kind, names |-> ns, startGen |-> visible, lastGen |-> visible, missed |-> {}]
  <2>1. /\ r \in Runs /\ r.startGen = visible /\ r.lastGen = visible /\ r.missed = {}
        /\ r.phase # "refused"
    BY <1>0 DEF Runs
  <2>2. run' = [run EXCEPT ![k] = r] /\ UNCHANGED <<builders, call, history>>
    BY <1>1 DEF Execute
  <2> HIDE DEF r
  <2>3. \A n \in r.missed : \E g \in DOMAIN gens : g >= r.startGen /\ n \notin gens[g]
    BY <2>1
  <2>4. r.startGen <= visible /\ r.startGen <= r.lastGen /\ r.lastGen <= last
    BY <1>0, <2>1
  <2>5. r.phase = "refused" => \E g \in DOMAIN gens : g >= r.startGen /\ gens[g] = {}
    BY <2>1
  <2> QED
    BY <2>1, <2>2, <2>3, <2>4, <2>5, ReadStep
<1>2. ASSUME NEW kind \in {"all", "selected"}, NEW m, m = Entities(k) \/ m = Sorted(k), Check(k, kind, m)
      PROVE  IInv'
  <2> DEFINE r == [run[k] EXCEPT !.lastGen = m.gen,
                     !.phase = IF m.names = {} THEN "refused" ELSE IF kind = "all" THEN "load" ELSE "dag"]
  <2>1. /\ m \in RuleMaps /\ m.gen \in DOMAIN gens /\ m.names = gens[m.gen]
        /\ m.gen >= visible /\ m.gen <= last /\ run[k].startGen <= visible
    BY <1>2, ReadMap
  <2>2. r \in Runs /\ r.startGen = run[k].startGen /\ r.lastGen = m.gen /\ r.missed = run[k].missed
        /\ (r.phase = "refused" => m.names = {})
    BY <1>0, <2>1 DEF Runs, RuleMaps
  <2>3. run' = [run EXCEPT ![k] = r] /\ UNCHANGED <<builders, call, history>>
    BY <1>0, <1>2 DEF Check, Runs
  <2> HIDE DEF r
  <2>4. \A n \in r.missed : \E g \in DOMAIN gens : g >= r.startGen /\ n \notin gens[g]
    BY <2>2 DEF IInv, ReadsTrue
  <2>5. r.startGen <= m.gen /\ m.gen >= r.startGen
    BY <1>0, <2>1, <2>2 DEF Runs, RuleMaps
  <2> QED
    BY <2>1, <2>2, <2>3, <2>4, <2>5, ReadStep
<1>3. CASE Load(k)
  <2> DEFINE m == Sorted(k)
             r == [run[k] EXCEPT !.lastGen = m.gen, !.missed = Names \ m.names, !.phase = "loaded"]
  <2>1. /\ m \in RuleMaps /\ m.gen \in DOMAIN gens /\ m.names = gens[m.gen]
        /\ m.gen >= visible /\ m.gen <= last /\ run[k].startGen <= visible
    BY ReadMap
  <2>2. r \in Runs /\ r.startGen = run[k].startGen /\ r.lastGen = m.gen /\ r.missed = Names \ m.names
        /\ r.phase = "loaded"
    BY <1>0, <2>1 DEF Runs, RuleMaps
  <2>3. run' = [run EXCEPT ![k] = r] /\ UNCHANGED <<builders, call, history>>
    BY <1>0, <1>3 DEF Load, Runs
  <2> HIDE DEF r, m
  <2>4. r.startGen <= m.gen /\ m.gen >= r.startGen
    BY <1>0, <2>1, <2>2 DEF Runs, RuleMaps
  <2>5. \A n \in r.missed : \E g \in DOMAIN gens : g >= r.startGen /\ n \notin gens[g]
    BY <2>1, <2>2, <2>4
  <2> QED
    BY <2>1, <2>2, <2>3, <2>4, <2>5, ReadStep
<1>4. ASSUME NEW n \in Names, Lookup(k, n)
      PROVE  IInv'
  <2> DEFINE m == Entities(k)
             r == [run[k] EXCEPT !.lastGen = m.gen, !.names = @ \ {n},
                     !.missed = IF n \in m.names THEN @ ELSE @ \cup {n}]
  <2>1. /\ m \in RuleMaps /\ m.gen \in DOMAIN gens /\ m.names = gens[m.gen]
        /\ m.gen >= visible /\ m.gen <= last /\ run[k].startGen <= visible
    BY ReadMap
  <2>2. r \in Runs /\ r.startGen = run[k].startGen /\ r.lastGen = m.gen /\ r.phase = run[k].phase
        /\ (\A other \in r.missed : other \in run[k].missed \/ (other = n /\ n \notin m.names))
    BY <1>0, <2>1 DEF Runs, RuleMaps
  <2>3. run' = [run EXCEPT ![k] = r] /\ UNCHANGED <<builders, call, history>>
    BY <1>0, <1>4 DEF Lookup, Runs
  <2>4. run[k].phase = "dag"
    BY <1>4 DEF Lookup
  <2> HIDE DEF r, m
  <2>5. r.startGen <= m.gen /\ m.gen >= r.startGen
    BY <1>0, <2>1, <2>2 DEF Runs, RuleMaps
  <2>6. \A other \in r.missed : \E g \in DOMAIN gens : g >= r.startGen /\ other \notin gens[g]
    BY <2>1, <2>2, <2>5 DEF IInv, ReadsTrue
  <2> QED
    BY <2>1, <2>2, <2>3, <2>4, <2>5, <2>6, ReadStep
<1>5. CASE Finish(k)
  <2>1. /\ Idle \in Runs /\ Idle.startGen = 0 /\ Idle.lastGen = 0 /\ Idle.missed = {}
        /\ Idle.phase # "refused"
    BY DEF Idle, Runs
  <2>2. run' = [run EXCEPT ![k] = Idle] /\ UNCHANGED <<builders, call, history>>
    BY <1>5 DEF Finish
  <2>3. \A n \in Idle.missed : \E g \in DOMAIN gens : g >= Idle.startGen /\ n \notin gens[g]
    BY <2>1
  <2>4. Idle.startGen <= visible /\ Idle.startGen <= Idle.lastGen /\ Idle.lastGen <= last
    BY <1>0, <2>1
  <2> QED
    BY <2>1, <2>2, <2>3, <2>4, ReadStep
<1> QED
  BY <1>1, <1>2, <1>3, <1>4, <1>5 DEF Execution

LEMMA NilPanicStep ==
  ASSUME IInv, NilPanic \/ Refuse \/ UNCHANGED vars
  PROVE  IInv'
<1>1. /\ UNCHANGED <<builders, pc, i, names, history, run>> /\ outcome' \in {"ok", "error", "panic"}
      /\ run' \in [Instances -> Runs]
  BY DEF NilPanic, Refuse, vars, call, IInv, Types
<1>2. UNCHANGED <<gens, run>> /\ visible' \in {visible, last}
  BY <1>1 DEF history
<1> QED
  BY <1>1, <1>2, RulesUntouched, ReadsKept DEF IInv

LEMMA IInvStep == IInv /\ [Next]_vars => IInv'
<1> SUFFICES ASSUME IInv, [Next]_vars PROVE IInv'
  OBVIOUS
<1>1. ASSUME Management
      PROVE  IInv'
  <2>1. \A text \in Texts : text.rules \in SUBSET Names
    BY DEF Texts
  <2> QED
    BY <1>1, <2>1, UpdateStep, IncrementalStep, RemoveRulesStep, ClearStep, UpdateSortStep, AssignStep,
    AssignedStep, ClearEntitiesStep, ClearSortStep, ClearedStep, RemoveStep, RemovedStep,
    NilPanicStep DEF Management
<1> QED
  BY <1>1, ExecutionStep, NilPanicStep DEF Next

(* What is claimed of the contexts, the instances and the calls holds in   *)
(* every reachable state.                                                  *)
THEOREM RulesInvariant == Spec => []IInv
  BY InitIInv, IInvStep, PTL DEF Spec

-----------------------------------------------------------------------------
(* Type correctness: every generation mark names a generation there was. *)
THEOREM TypeCorrect == Spec => []TypeOK
<1> DEFINE MarkedMaps == [gen : DOMAIN gens, names : SUBSET Names]
<1>1. ASSUME IInv
      PROVE  kcs \in Seq([RuleEntities : MarkedMaps, SortRules : MarkedMaps])
  <2>1. \A j \in DOMAIN kcs : kcs[j] \in [RuleEntities : MarkedMaps, SortRules : MarkedMaps]
    <3> SUFFICES ASSUME NEW j \in DOMAIN kcs
                 PROVE  kcs[j] \in [RuleEntities : MarkedMaps, SortRules : MarkedMaps]
      OBVIOUS
    <3>1. kcs[j] \in Contexts
      BY <1>1 DEF IInv, Types
    <3>2. kcs[j].RuleEntities.gen \in DOMAIN gens /\ kcs[j].SortRules.gen \in DOMAIN gens
      BY <1>1 DEF IInv, Marked, True
    <3> QED
      BY <3>1, <3>2 DEF Contexts, RuleMaps
  <2>2. Len(kcs) \in Nat /\ kcs = [j \in 1 .. Len(kcs) |-> kcs[j]] /\ DOMAIN kcs = 1 .. Len(kcs)
    BY <1>1 DEF IInv, Types
  <2> HIDE DEF MarkedMaps
  <2>3. kcs \in [1 .. Len(kcs) -> [RuleEntities : MarkedMaps, SortRules : MarkedMaps]]
    BY <2>1, <2>2
  <2> QED
    BY <2>2, <2>3, SeqDef
<1>2. ASSUME IInv, NEW k \in Instances
      PROVE  run[k].lastGen \in {0} \cup DOMAIN gens
  <2>1. run[k] \in Runs /\ run[k].lastGen <= last /\ gens \in Seq(SUBSET Names)
    BY <1>2 DEF IInv, Types, ReadsTrue
  <2> QED
    BY <2>1 DEF Runs, last
<1>3. IInv => TypeOK
  BY <1>1, <1>2 DEF IInv, Types, TypeOK
<1> QED
  BY <1>3, RulesInvariant, PTL

(* Between two calls IsExist, GetRulesNumber and the executions of every   *)
(* instance speak of the same rules.                                       *)
THEOREM AgreeBetweenCalls == Spec => []InstancesAgree
<1>1. ASSUME IInv, pc = "idle", NEW k \in Instances
      PROVE  /\ Entities(k).gen = last /\ Entities(k).names = gens[last] /\ Sorted(k).names = gens[last]
             /\ cleared => gens[last] = {}
             /\ ~cleared => /\ kcs[ruleBuilder].RuleEntities.names = gens[last]
                            /\ kcs[ruleBuilder].RuleEntities.gen = last
  <2>1. Entities(k).gen = last /\ Entities(k).names = gens[last] /\ Sorted(k).names = gens[last]
    BY <1>1 DEF IInv, Types, Progress, Fresh, Marked, True, Entities, Sorted
  <2>2. CASE ruleBuilder = nil
    BY <1>1, <2>1, <2>2 DEF IInv, Progress, cleared
  <2>3. CASE ruleBuilder # nil
    <3>1. ruleBuilder \in DOMAIN kcs /\ Fresh(ruleBuilder) /\ ~clear
      BY <1>1, <2>3 DEF IInv, Types, Progress
    <3>2. kcs[ruleBuilder].RuleEntities.names = gens[last] /\ kcs[ruleBuilder].RuleEntities.gen = last
      BY <1>1, <3>1 DEF IInv, Marked, True, Fresh
    <3> QED
      BY <2>1, <2>3, <3>1, <3>2 DEF cleared
  <2> QED
    BY <2>2, <2>3
<1>2. ASSUME IInv
      PROVE  InstancesAgree
  <2> SUFFICES ASSUME pc = "idle", NEW k \in Instances
               PROVE  /\ Cardinality(Sorted(k).names) = GetRulesNumber
                      /\ \A n \in Names :
                           /\ n \in Entities(k).names <=> IsExist(n)
                           /\ n \in Sorted(k).names <=> IsExist(n)
                           /\ IsExist(n) => Entities(k).gen = GetRuleSalience(n)
    BY DEF InstancesAgree
  <2>1. CASE cleared
    <3>1. Sorted(k).names = {} /\ Entities(k).names = {}
      BY <1>1, <1>2, <2>1
    <3>2. Cardinality({}) = 0
      BY FS_EmptySet
    <3> QED
      BY <2>1, <3>1, <3>2 DEF GetRulesNumber, IsExist
  <2>2. CASE ~cleared
    BY <1>1, <1>2, <2>2 DEF GetRulesNumber, IsExist, GetRuleSalience
  <2> QED
    BY <2>1, <2>2
<1> QED
  BY <1>2, RulesInvariant, PTL

(* A call that has returned is seen by every execution started later. *)
THEOREM UpdatesVisible == Spec => []UpdateVisible
<1>1. IInv => UpdateVisible
  <2> SUFFICES ASSUME IInv, NEW k \in Instances
               PROVE  run[k].lastGen >= run[k].startGen
    BY DEF UpdateVisible
  <2>1. run[k] \in Runs /\ run[k].startGen <= run[k].lastGen
    BY DEF IInv, Types, ReadsTrue
  <2> QED
    BY <2>1 DEF Runs
<1> QED
  BY <1>1, RulesInvariant, PTL

(* A rule an execution does not find was missing in a generation the pool  *)
(* went through since the execution started.                               *)
THEOREM NothingLost == Spec => []NothingLostBetween
<1>1. IInv => NothingLostBetween
  <2> SUFFICES ASSUME IInv, NEW k \in Instances
               PROVE  NothingLostBetween!(k)
    BY DEF NothingLostBetween
  <2>1. run[k] \in Runs /\ gens \in Seq(SUBSET Names)
    BY DEF IInv, Types
  <2>2. \A g \in DOMAIN gens : g >= run[k].startGen => g \in run[k].startGen .. Len(gens)
    BY <2>1 DEF Runs
  <2> QED
    BY <2>2 DEF IInv, ReadsTrue
<1> QED
  BY <1>1, RulesInvariant, PTL
=============================================================================
