----------------------------- MODULE RuleReaders -----------------------------
(***************************************************************************)
(* Executions that take the sorted rules of a RuleBuilder while its rules  *)
(* are updated: resolveRules takes no lock.  Loading the header of a slice *)
(* loads the two words of it one by one.  A stored pointer is seen after   *)
(* what was stored before it (amd64).                                      *)
(***************************************************************************)
EXTENDS RuleBuilder

CONSTANT Readers \* executions that resolve the rules

VARIABLES
  rpc,    \* where each reader is
  rkc,    \* the KnowledgeContext a reader is loading from
  header  \* the words of SortRules a reader has loaded

readers == <<rpc, rkc, header>>

ReadersInit ==
  /\ rpc = [r \in Readers |-> "check"]
  /\ rkc = [r \in Readers |-> 1]
  /\ header = [r \in Readers |-> Nothing]

(* if len(rb.Kc.SortRules) == 0 ... return rb.Kc.SortRules *)
Check(r) ==
  /\ rpc[r] = "check"
  /\ rpc' = [rpc EXCEPT ![r] = IF kcs[Kc].SortRules.len = 0 THEN "refused" ELSE "load"]
  /\ UNCHANGED <<rkc, header>>

LoadFirst(r, w) ==
  /\ rpc[r] = "load"
  /\ rkc' = [rkc EXCEPT ![r] = Kc]
  /\ header' = [header EXCEPT ![r][w] = kcs[Kc].SortRules[w]]
  /\ rpc' = [rpc EXCEPT ![r] = OtherWord(w)]

LoadSecond(r, w) ==
  /\ rpc[r] = w
  /\ header' = [header EXCEPT ![r][w] = kcs[rkc[r]].SortRules[w]]
  /\ rpc' = [rpc EXCEPT ![r] = "run"]
  /\ UNCHANGED rkc

Execution(r) == Check(r) \/ \E w \in {"arr", "len"} : LoadFirst(r, w) \/ LoadSecond(r, w)

ReadersNext ==
  \/ Next /\ UNCHANGED readers
  \/ (\E r \in Readers : Execution(r)) /\ UNCHANGED vars

ReadersSpec == Init /\ ReadersInit /\ [][ReadersNext]_<<vars, readers>>

-----------------------------------------------------------------------------
(* "use the updated copy to replace old": what an execution takes as the   *)
(* sorted rules is a slice that was published, not a mixture of two.       *)
ReadersSeePublished == \A r \in Readers : rpc[r] = "run" => header[r] \in published
=============================================================================
