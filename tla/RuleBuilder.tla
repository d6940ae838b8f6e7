----------------------------- MODULE RuleBuilder -----------------------------
(***************************************************************************)
(* builder.RuleBuilder: how BuildRuleFromString, BuildRuleWithIncremental  *)
(* and RemoveRules change the knowledge context; RuleReaders adds the      *)
(* executions that read it meanwhile.  The engine pool's updateIncremental *)
(* is the same loop.                                                       *)
(*                                                                         *)
(* SortRules is a Go slice: a header over a backing array that other       *)
(* headers may share.  append writes into that array while its capacity    *)
(* lasts, and the update relies on it.  So arrays are modelled: heap is    *)
(* the sequence of all arrays, a slice is [arr, len], its capacity is the  *)
(* length of the array.  Storing a header stores two words that matter,    *)
(* arr and len, in an order the code does not determine.                   *)
(*                                                                         *)
(* Where a rule goes is found by the binary search (BinarySearch), which   *)
(* runs here as a part of the update, one round at a time.                 *)
(*                                                                         *)
(* A rule text is the set of rules it compiles to; a text that does not    *)
(* compile leaves everything as it is.                                     *)
(***************************************************************************)
EXTENDS Integers, Sequences, FiniteSets, SequencesExt

CONSTANTS
  Names,       \* rule names
  Saliences,   \* rule saliences
  Calls,       \* what the operator calls: "build", "incremental", "remove"
  MaxCalls,    \* bound on the number of such calls
  GrownTo      \* the capacity append reaches element by element, from none

ASSUME BuilderConstants ==
  /\ IsFiniteSet(Names) /\ Saliences \subseteq Int
  /\ GrownTo \in [0 .. Cardinality(Names) -> Nat]
  /\ \A n \in DOMAIN GrownTo : GrownTo[n] >= n
  /\ Calls \subseteq {"build", "incremental", "remove"}
  /\ MaxCalls \in Nat

VARIABLES
  heap,             \* backing arrays of rule slices
  kcs,              \* the KnowledgeContext objects
  Kc,               \* builder.Kc: the index of one of them
  pc,               \* where the call that holds buildLock is
  todo,             \* the compiled rules the update loop has still to visit
  moving,           \* the rule the loop is at while its place is searched
  room,             \* the slice it goes into
  re, salience, low, high, mid, spc, \* the search
  newRuleEntities,  \* the updated copy
  newSortRules,     \* the updated copy, a slice
  calls,            \* number of calls so far
  asked,            \* history: the rules the calls so far should have left
  published         \* history: the slices that were stored in a SortRules

store == <<heap, kcs, Kc>>
copies == <<todo, newRuleEntities, newSortRules>>
search == <<re, salience, low, high, mid, spc>>
place == <<moving, room, search>>
history == <<calls, asked, published>>
vars == <<store, pc, copies, place, history>>

-----------------------------------------------------------------------------
(* Rules, texts and slices *)

Texts(n) ==
  {[name \in DOMAIN sal |-> [RuleName |-> name, Salience |-> sal[name], version |-> n]] :
     sal \in UNION {[D -> Saliences] : D \in SUBSET Names \ {{}}}}
Without(f, S) == [n \in DOMAIN f \ S |-> f[n]]
Over(new, f) == [n \in DOMAIN new \cup DOMAIN f |-> IF n \in DOMAIN new THEN new[n] ELSE f[n]]

nil == [RuleName |-> "nil"]
Nothing == [arr |-> 1, len |-> 0]
Padded(s, cap) == s \o [i \in 1 .. cap - Len(s) |-> nil]
Elems(sl) == SubSeq(heap[sl.arr], 1, sl.len)
Cap(sl) == Len(heap[sl.arr])
OtherWord(w) == IF w = "arr" THEN "len" ELSE "arr"

SortedDown(s) == \A i, j \in DOMAIN s : i < j => s[i].Salience >= s[j].Salience

(* for k, v := range rules { indexMap[v.RuleName] = k } *)
indexMap(s) == [name \in {s[i].RuleName : i \in DOMAIN s} |-> (CHOOSE i \in DOMAIN s : s[i].RuleName = name) - 1]

(* The search, owed lists sorted by descending salience *)
SortedLists ==
  {s \in UNION {[1 .. n -> Saliences] : n \in 0 .. Cardinality(Names)} :
     \A j, k \in DOMAIN s : j < k => s[j] >= s[k]}
Search == INSTANCE BinarySearch WITH Lists <- SortedLists, pc <- spc

-----------------------------------------------------------------------------
Init ==
  /\ heap = <<<<>>>>
  /\ kcs = <<[RuleEntities |-> <<>>, SortRules |-> Nothing, SortRulesIndexMap |-> <<>>]>>
  /\ Kc = 1
  /\ pc = "idle"
  /\ Search!Init /\ moving = nil /\ room = Nothing
  /\ todo = {} /\ newRuleEntities = <<>> /\ newSortRules = Nothing
  /\ calls = 0 /\ asked = <<>>
  /\ published = {Nothing}

Called(kind) == pc = "idle" /\ kind \in Calls /\ calls < MaxCalls /\ calls' = calls + 1

(* A new context with these rules replaces builder.Kc; the rules come out  *)
(* of a map, so that equal saliences end up in any order.                  *)
NewKc(rules) ==
  \E s \in SetToSeqs({rules[n] : n \in DOMAIN rules}) :
    /\ SortedDown(s)
    /\ LET sl == [arr |-> Len(heap) + 1, len |-> Len(s)]
       IN  /\ heap' = Append(heap, Padded(s, GrownTo[Len(s)]))
           /\ kcs' = Append(kcs, [RuleEntities |-> rules, SortRules |-> sl, SortRulesIndexMap |-> indexMap(s)])
           /\ Kc' = Len(kcs) + 1
           /\ published' = published \cup {sl}

BuildRuleFromString(rules) ==
  /\ Called("build")
  /\ NewKc(rules)
  /\ asked' = rules
  /\ UNCHANGED <<pc, copies, place>>

RemoveRules(names) ==
  /\ Called("remove")
  /\ NewKc(Without(kcs[Kc].RuleEntities, names))
  /\ asked' = Without(asked, names)
  /\ UNCHANGED <<pc, copies, place>>

-----------------------------------------------------------------------------
(* BuildRuleWithIncremental *)

(* Mutant: SortRules is not copied *)
IncrementalNoCopy(rules) ==
  /\ Called("incremental")
  /\ pc' = "update"
  /\ todo' = {rules[n] : n \in DOMAIN rules}
  /\ newRuleEntities' = kcs[Kc].RuleEntities
  /\ newSortRules' = kcs[Kc].SortRules
  /\ asked' = Over(rules, asked)
  /\ UNCHANGED <<store, place, published>>

Incremental(rules) ==
  /\ Called("incremental")
  /\ pc' = "update"
  /\ todo' = {rules[n] : n \in DOMAIN rules}
  /\ newRuleEntities' = kcs[Kc].RuleEntities
  /\ heap' = Append(heap, Elems(kcs[Kc].SortRules))
  /\ newSortRules' = [arr |-> Len(heap) + 1, len |-> kcs[Kc].SortRules.len]
  /\ asked' = Over(rules, asked)
  /\ UNCHANGED <<kcs, Kc, place, published>>

(* The pool's copy of the same loop, for its own builder (GenginePool)     *)
updateIncremental(rules) == Incremental(rules)

(* builder.Kc.SortRulesIndexMap[v.RuleName]: 0 for an unknown name *)
index(v) ==
  LET map == kcs[Kc].SortRulesIndexMap IN IF v.RuleName \in DOMAIN map THEN map[v.RuleName] ELSE 0

(* The array of sl with s written over its beginning *)
Written(sl, s) == [heap EXCEPT ![sl.arr] = s \o SubSeq(@, Len(s) + 1, Len(@))]

Entered(v) == newRuleEntities' = Over([n \in {v.RuleName} |-> v], newRuleEntities)

(* The loop comes to v, in the order of a map. *)
Visit(v) ==
  /\ pc = "update" /\ v \in todo
  /\ todo' = todo \ {v}
  /\ UNCHANGED <<kcs, Kc, newSortRules, history>>

Known(v) == v.RuleName \in DOMAIN newRuleEntities

Replace(v) ==
  /\ Visit(v)
  /\ Known(v) /\ newRuleEntities[v.RuleName].Salience = v.Salience
  /\ heap' = Written(newSortRules, ReplaceAt(Elems(newSortRules), index(v) + 1, v))
  /\ Entered(v)
  /\ UNCHANGED <<pc, place>>

(* BinarySearch(sl, v.Salience) is called, s being the rules of sl. *)
SearchIn(sl, s, v) ==
  /\ pc' = "search" /\ moving' = v /\ room' = sl
  /\ re' = [k \in DOMAIN s |-> s[k].Salience]
  /\ salience' = v.Salience
  /\ Search!Start
  /\ UNCHANGED newRuleEntities

(* Mutant: the rule is not taken out before its new place is searched *)
MoveNotTakenOut(v) ==
  /\ Visit(v)
  /\ Known(v) /\ newRuleEntities[v.RuleName].Salience # v.Salience
  /\ LET same == ReplaceAt(Elems(newSortRules), index(v) + 1, v)
     IN  /\ heap' = Written(newSortRules, same)
         /\ SearchIn(newSortRules, same, v)

(* append(newSortRules[:index], newSortRules[index+1:]...): an inner       *)
(* newSortRules, one rule shorter, shadows the outer one; both share the   *)
(* array, in which the removal leaves room for the insertion.              *)
Move(v) ==
  /\ Visit(v)
  /\ Known(v) /\ newRuleEntities[v.RuleName].Salience # v.Salience
  /\ LET rest == RemoveAt(Elems(newSortRules), index(v) + 1)
     IN  /\ heap' = Written(newSortRules, rest)
         /\ SearchIn([newSortRules EXCEPT !.len = @ - 1], rest, v)

Add(v) ==
  /\ Visit(v)
  /\ ~Known(v)
  /\ SearchIn(newSortRules, Elems(newSortRules), v)
  /\ UNCHANGED heap

SearchRound ==
  /\ Search!Met \/ Search!GoLeft \/ Search!GoRight \/ Search!Exhausted
  /\ UNCHANGED <<store, pc, copies, moving, room, history>>

(* Mutant: the index map is left as it was *)
StoreIndexMapNot(s) == UNCHANGED kcs
StoreIndexMap(s) == kcs' = [kcs EXCEPT ![Kc].SortRulesIndexMap = indexMap(s)]

(* newRe := append([]{v}, newSortRules[p:]...) is a new array;             *)
(* append(newSortRules[:p], newRe...) stays in the old one while there is  *)
(* room, and doubles it if not.  A rule moved leaves the outer             *)
(* newSortRules as it is.                                                  *)
Insert ==
  /\ pc = "search" /\ pc' = "update"
  /\ Search!Return
  /\ LET s == InsertAt(Elems(room), Search!position + 1, moving)
     IN  /\ \/ /\ Len(s) <= Cap(room)
               /\ heap' = Written(room, s)
               /\ newSortRules' = [newSortRules EXCEPT !.len = Len(s)]
            \/ /\ Len(s) > Cap(room)
               /\ heap' = Append(heap, Padded(s, IF Len(s) = 1 THEN 1 ELSE 2 * Cap(room)))
               /\ newSortRules' = [arr |-> Len(heap) + 1, len |-> Len(s)]
         /\ StoreIndexMap(s)
         /\ Entered(moving)
  /\ moving' = nil /\ room' = Nothing
  /\ UNCHANGED <<Kc, todo, history>>

(* The context in use is changed, field by field and word by word. *)
PublishEntities ==
  /\ pc = "update" /\ todo = {}
  /\ kcs' = [kcs EXCEPT ![Kc].RuleEntities = newRuleEntities]
  /\ published' = published \cup {newSortRules}
  /\ pc' = "publish"
  /\ UNCHANGED <<heap, Kc, copies, place, calls, asked>>

PublishWord(w) ==
  /\ \/ pc = "publish" /\ pc' = OtherWord(w)
     \/ pc = w /\ pc' = "idle"
  /\ kcs' = [kcs EXCEPT ![Kc].SortRules[w] = newSortRules[w]]
  /\ UNCHANGED <<heap, Kc, copies, place, history>>

-----------------------------------------------------------------------------
Next ==
  \/ \E rules \in Texts(calls + 1) : BuildRuleFromString(rules) \/ Incremental(rules) \/ updateIncremental(rules)
  \/ \E names \in SUBSET Names \ {{}} : RemoveRules(names)
  \/ \E v \in todo : Replace(v) \/ Move(v) \/ Add(v)
  \/ SearchRound \/ Insert
  \/ PublishEntities
  \/ \E w \in {"arr", "len"} : PublishWord(w)

Spec == Init /\ [][Next]_vars

-----------------------------------------------------------------------------
sortRules == Elems(kcs[Kc].SortRules)

(* When no call is under way the two forms of the rules agree with each    *)
(* other and with what the calls asked for: every rule once in SortRules,  *)
(* in its latest version and by descending salience, whatever mixture of   *)
(* replacing, moving and adding the calls asked for, and whatever order    *)
(* the maps were visited in.                                               *)
RulesAsAsked ==
  pc = "idle" =>
    /\ kcs[Kc].RuleEntities = asked
    /\ Len(sortRules) = Cardinality(DOMAIN asked)
    /\ {sortRules[i] : i \in DOMAIN sortRules} = {asked[n] : n \in DOMAIN asked}
    /\ SortedDown(sortRules)

(* The update keeps what the binary search relies on: each search is over  *)
(* a sorted list, even in the midst of an update and with a rule taken     *)
(* out, goes on undisturbed, and is done before the next begins.           *)
SearchesSortedLists == Search!Spec

(* The index map tells where each rule is in the copy before each round of *)
(* the loop, although it is the live map that is looked up and changed     *)
(* while the copy is private; a wrong entry has another rule overwritten.  *)
IndexMapInverse ==
  pc \in {"idle", "update"} =>
    LET s == Elems(IF pc = "idle" THEN kcs[Kc].SortRules ELSE newSortRules)
        map == kcs[Kc].SortRulesIndexMap
    IN  /\ DOMAIN map = {s[i].RuleName : i \in DOMAIN s}
        /\ \A i \in DOMAIN s : map[s[i].RuleName] = i - 1

(* "copy from old -> update the copy": an array that an execution may be   *)
(* walking over is never written again.                                    *)
PublishedNeverWritten ==
  [][\A sl \in published : SubSeq(heap'[sl.arr], 1, sl.len) = Elems(sl)]_vars
=============================================================================
