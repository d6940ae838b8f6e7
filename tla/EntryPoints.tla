----------------------------- MODULE EntryPoints -----------------------------
(***************************************************************************)
(* The Execute methods around ExecuteOpts: each turns its name and its     *)
(* arguments into ExecOptions, and the pool's have the names of the        *)
(* engine's.  The arguments: b is what callers pass for continueOnErr,     *)
(* names the selected rules, n and m batch sizes, dag the layers; that a   *)
(* stop tag is given is told by the method.                                *)
(***************************************************************************)
EXTENDS Integers, Sequences

(* ExecOptions as Go makes them: what is not given is zero. *)
ZeroOptions ==
  [Mode |-> "Sort", Selected |-> <<>>, PreserveOrder |-> FALSE, ContinueOnError |-> FALSE,
   StopTag |-> FALSE, N |-> 0, M |-> 0, DAG |-> <<>>]
In(mode) == [ZeroOptions EXCEPT !.Mode = mode]
Sorted(b) == [ZeroOptions EXCEPT !.ContinueOnError = b]
Batches(mode, a) == [In(mode) EXCEPT !.N = a.n, !.M = a.m, !.ContinueOnError = a.b]
Tagged(o) == [o EXCEPT !.StopTag = TRUE]
Only(names, o) == [o EXCEPT !.Selected = names]
AsGiven(o) == [o EXCEPT !.PreserveOrder = TRUE]

(* gengine.go, the methods that take a context *)
ContextMethods(a) ==
  [ExecuteContext |-> Sorted(a.b),
   ExecuteWithStopTagContext |-> Tagged(Sorted(a.b)),
   ExecuteConcurrentContext |-> In("Concurrent"),
   ExecuteMixModelContext |-> In("Mix"),
   ExecuteMixModelWithStopTagContext |-> Tagged(In("Mix")),
   ExecuteDAGModelContext |-> [In("DAG") EXCEPT !.DAG = a.dag]]

(* gengine.go, the deprecated methods; their context is never cancelled. *)
LegacyMethods(a) ==
  [Execute |-> Sorted(a.b),
   ExecuteWithStopTagDirect |-> Tagged(Sorted(a.b)),
   ExecuteConcurrent |-> In("Concurrent"),
   ExecuteMixModel |-> In("Mix"),
   ExecuteMixModelWithStopTagDirect |-> Tagged(In("Mix")),
   ExecuteSelectedRules |-> Only(a.names, Sorted(TRUE)),
   ExecuteSelectedRulesWithControl |-> Only(a.names, Sorted(a.b)),
   ExecuteSelectedRulesWithControlAsGivenSortedName |-> AsGiven(Only(a.names, Sorted(a.b))),
   ExecuteSelectedRulesWithControlAndStopTag |-> Tagged(Only(a.names, Sorted(a.b))),
   ExecuteSelectedRulesWithControlAndStopTagAsGivenSortedName |-> Tagged(AsGiven(Only(a.names, Sorted(a.b)))),
   ExecuteSelectedRulesConcurrent |-> Only(a.names, In("Concurrent")),
   ExecuteSelectedRulesMixModel |-> Only(a.names, In("Mix")),
   ExecuteInverseMixModel |-> In("InverseMix"),
   ExecuteSelectedRulesInverseMixModel |-> Only(a.names, In("InverseMix")),
   ExecuteNSortMConcurrent |-> Batches("NSortMConcurrent", a),
   ExecuteNConcurrentMSort |-> Batches("NConcurrentMSort", a),
   ExecuteNConcurrentMConcurrent |-> Batches("NConcurrentMConcurrent", a),
   ExecuteSelectedNSortMConcurrent |-> Only(a.names, Batches("NSortMConcurrent", a)),
   ExecuteSelectedNConcurrentMSort |-> Only(a.names, Batches("NConcurrentMSort", a)),
   ExecuteSelectedNConcurrentMConcurrent |-> Only(a.names, Batches("NConcurrentMConcurrent", a)),
   ExecuteDAGModel |-> [In("DAG") EXCEPT !.DAG = a.dag]]

(* gengine_pool.go: the same methods, with data instead of a builder *)
PoolContextMethods(a) == ContextMethods(a)
PoolLegacyMethods(a) == LegacyMethods(a)

(* gengine_pool.go: the methods that go by the model of the pool, which    *)
(* NewGenginePool and SetExecModel hold to one of four.                    *)
SortModel == 1
ConcurrentModel == 2
MixModel == 3
InverseMixModel == 4
SetExecModel(model, execModel) ==
  IF model \in {SortModel, ConcurrentModel, MixModel, InverseMixModel} THEN model ELSE execModel
modelToMode(model) ==
  CASE model = ConcurrentModel -> "Concurrent"
    [] model = MixModel -> "Mix"
    [] model = InverseMixModel -> "InverseMix"
    [] OTHER -> "Sort"
SpecifiedEM(model, names) ==
  Only(names, [In(modelToMode(model)) EXCEPT !.ContinueOnError = (modelToMode(model) = "Sort")])

(* What callers end up asking of ExecuteOpts, for arguments out of A *)
Asked(methods) == {methods[f] : f \in DOMAIN methods}
OptionsOfMethods(A, models) ==
  UNION {Asked(ContextMethods(a)) \cup Asked(LegacyMethods(a)) : a \in A}
  \cup UNION {Asked(PoolContextMethods(a)) \cup Asked(PoolLegacyMethods(a)) : a \in A}
  \cup {SpecifiedEM(SetExecModel(k, SortModel), a.names) : k \in models, a \in A}
=============================================================================
