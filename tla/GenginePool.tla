----------------------------- MODULE GenginePool -----------------------------
(***************************************************************************)
(* The instance pool of engine/gengine_pool.go: how a call of ExecuteOpts  *)
(* obtains a gengineWrapper, binds its data in the DataContext of that     *)
(* instance, runs rules, collects the results, unbinds its data and hands  *)
(* the wrapper back from a goroutine of its own, while PluginLoader adds   *)
(* an api to every instance.                                               *)
(*                                                                         *)
(* A member of Requests is one call.  A wrapper is its tag; the builder    *)
(* and DataContext of rbSlice[tag] belong to it one to one (line 52).      *)
(* A bound value is abstracted to who supplied it: a call, or the host.    *)
(* What rules are run and in which order is the subject of ExecuteOpts,    *)
(* which rule set an instance holds that of PoolRules.                     *)
(***************************************************************************)
EXTENDS Integers, Sequences, Functions

CONSTANTS
  Requests,     \* the calls made to the pool
  poolMinLen,   \* instances created as free
  poolMaxLen,   \* all instances, the additional ones included
  ApiNames,     \* names of apiOuter and of the inner function isNil
  DataNames,    \* names the callers may use as keys of data
  Plugins,      \* the apiNames of the plugins the host may load
  Host,         \* the supplier of apis and plugins
  NULL          \* no call, no wrapper, no binding

(* NewGenginePool's check of the two lengths *)
ASSUME PoolLengths ==
  /\ poolMinLen \in Int /\ poolMaxLen \in Int
  /\ 0 < poolMinLen /\ poolMinLen < poolMaxLen

ASSUME DistinctValues ==
  /\ Host \notin Requests /\ NULL \notin Requests /\ Host # NULL
  /\ NULL \notin Int /\ NULL \notin Plugins

VARIABLES
  freeGengines,      \* wrappers created with addition = false
  additionGengines,  \* wrappers created with addition = true
  getEngineLock,     \* the call inside getGengine's critical section
  pc,                \* where each call is
  data,              \* the data argument of each call
  gw,                \* the wrapper each call holds
  returning,         \* wrappers a goroutine of putGengineLocked is to append
  base,              \* DataContext.base of each instance: who supplied a name
  returnResult,      \* Gengine.returnResult of each instance: whose values it holds
  result,            \* the map each call returned
  loading,           \* the plugin PluginLoader is adding, or NULL
  loadNext,          \* the index of rbSlice it has reached
  loaded             \* the plugins whose PluginLoader has returned nil

poolVars == <<freeGengines, additionGengines, getEngineLock, returning>>
pluginVars == <<loading, loadNext, loaded>>
vars == <<poolVars, pc, data, gw, base, returnResult, result, pluginVars>>

Tags == 0 .. poolMaxLen - 1
addition(t) == t >= poolMinLen
Names == ApiNames \cup DataNames \cup Plugins
HostNames == ApiNames \cup Plugins
Suppliers == Requests \cup {Host}

(* A data argument: its keys, and those among them whose value is nil. *)
Data == {d \in [keys : SUBSET DataNames, nils : SUBSET DataNames] : d.nils \subseteq d.keys}
NoData == [keys |-> {}, nils |-> {}]

Holding == {"bind", "reset", "running", "clear", "put"}
Locking == {"checkFree", "popFree", "checkAddition", "popAddition"}
Pcs == {"idle", "lock", "done"} \cup Locking \cup Holding

-----------------------------------------------------------------------------
Init ==
  /\ freeGengines = [i \in 1 .. poolMinLen |-> i - 1]
  /\ additionGengines = [j \in 1 .. poolMaxLen - poolMinLen |-> j - 1 + poolMinLen]
  /\ getEngineLock = NULL
  /\ pc = [r \in Requests |-> "idle"]
  /\ data = [r \in Requests |-> NoData]
  /\ gw = [r \in Requests |-> NULL]
  /\ returning = {}
  /\ base = [t \in Tags |-> [n \in Names |-> IF n \in ApiNames THEN Host ELSE NULL]]
  /\ returnResult = [t \in Tags |-> {}]
  /\ result = [r \in Requests |-> {}]
  /\ loading = NULL
  /\ loadNext = 0
  /\ loaded = {}

Goto(r, from, to) == pc[r] = from /\ pc' = [pc EXCEPT ![r] = to]

(* ExecuteOpts is called with some data; the pool's rules are not cleared. *)
Call(r) ==
  /\ Goto(r, "idle", "lock")
  /\ data' \in {[data EXCEPT ![r] = d] : d \in Data}
  /\ UNCHANGED <<poolVars, gw, base, returnResult, result, pluginVars>>

-----------------------------------------------------------------------------
(* getGengine.  The two lengths are read without runningLock and           *)
(* additionLock, so the goroutines of putGengineLocked may append between  *)
(* a read of a length and the pop it justifies: each is a step of its own. *)

(* Mutant: getEngineLock taken with RLock, so that several calls enter *)
LockShared(r) ==
  /\ getEngineLock' = r
  /\ Goto(r, "lock", "checkFree")
  /\ UNCHANGED <<freeGengines, additionGengines, returning, data, gw, base, returnResult, result, pluginVars>>

Lock(r) ==
  /\ getEngineLock = NULL
  /\ getEngineLock' = r
  /\ Goto(r, "lock", "checkFree")
  /\ UNCHANGED <<freeGengines, additionGengines, returning, data, gw, base, returnResult, result, pluginVars>>

CheckFree(r) ==
  /\ Goto(r, "checkFree", IF Len(freeGengines) > 0 THEN "popFree" ELSE "checkAddition")
  /\ UNCHANGED <<poolVars, data, gw, base, returnResult, result, pluginVars>>

(* Mutant: the slice is not advanced past the wrapper taken *)
PopFreeKeep(r) ==
  /\ Goto(r, "popFree", "bind")
  /\ gw' = [gw EXCEPT ![r] = Head(freeGengines)]
  /\ freeGengines' = freeGengines
  /\ getEngineLock' = NULL
  /\ UNCHANGED <<additionGengines, returning, data, base, returnResult, result, pluginVars>>

PopFree(r) ==
  /\ Goto(r, "popFree", "bind")
  /\ gw' = [gw EXCEPT ![r] = Head(freeGengines)]
  /\ freeGengines' = Tail(freeGengines)
  /\ getEngineLock' = NULL
  /\ UNCHANGED <<additionGengines, returning, data, base, returnResult, result, pluginVars>>

(* Mutant: the retry does not release getEngineLock *)
CheckAdditionKeepLock(r) ==
  /\ IF Len(additionGengines) > 0
       THEN Goto(r, "checkAddition", "popAddition") /\ UNCHANGED getEngineLock
       ELSE Goto(r, "checkAddition", "lock") /\ UNCHANGED getEngineLock
  /\ UNCHANGED <<freeGengines, additionGengines, returning, data, gw, base, returnResult, result, pluginVars>>

(* With nothing to take, the lock is released and the loop starts again. *)
CheckAddition(r) ==
  /\ IF Len(additionGengines) > 0
       THEN Goto(r, "checkAddition", "popAddition") /\ UNCHANGED getEngineLock
       ELSE Goto(r, "checkAddition", "lock") /\ getEngineLock' = NULL
  /\ UNCHANGED <<freeGengines, additionGengines, returning, data, gw, base, returnResult, result, pluginVars>>

PopAddition(r) ==
  /\ Goto(r, "popAddition", "bind")
  /\ gw' = [gw EXCEPT ![r] = Head(additionGengines)]
  /\ additionGengines' = Tail(additionGengines)
  /\ getEngineLock' = NULL
  /\ UNCHANGED <<freeGengines, returning, data, base, returnResult, result, pluginVars>>

-----------------------------------------------------------------------------
(* DataContext.Add and Del on one instance *)
Add(dc, keys, who) == [n \in Names |-> IF n \in keys THEN who ELSE dc[n]]
Del(dc, keys) == [n \in Names |-> IF n \in keys THEN NULL ELSE dc[n]]

(* prepareWithMultiInput binds every key whose value is not nil. *)
Prepare(r) ==
  /\ Goto(r, "bind", "reset")
  /\ base' = [base EXCEPT ![gw[r]] = Add(@, data[r].keys \ data[r].nils, r)]
  /\ UNCHANGED <<poolVars, data, gw, returnResult, result, pluginVars>>

(* Mutant: the result map of the previous execution is kept *)
StartExecuteKeep(r) ==
  /\ Goto(r, "reset", "running")
  /\ returnResult' = [returnResult EXCEPT ![gw[r]] = @]
  /\ UNCHANGED <<poolVars, data, gw, base, result, pluginVars>>

(* Gengine.ExecuteOpts starts with an empty result map ... *)
StartExecute(r) ==
  /\ Goto(r, "reset", "running")
  /\ returnResult' = [returnResult EXCEPT ![gw[r]] = {}]
  /\ UNCHANGED <<poolVars, data, gw, base, result, pluginVars>>

(* ... to which a rule adds what it returns.  What matters is a result that *)
(* was read from the DataContext; one the rule made up belongs to nobody.  *)
AddResult(r) ==
  /\ pc[r] = "running"
  /\ \E v \in Range(base[gw[r]]) \cap Suppliers :
       returnResult' = [returnResult EXCEPT ![gw[r]] = @ \cup {v}]
  /\ UNCHANGED <<poolVars, pc, data, gw, base, result, pluginVars>>

(* The execution ended, with or without an error: GetRulesResultMap copies. *)
GetRulesResultMap(r) ==
  /\ Goto(r, "running", "clear")
  /\ result' = [result EXCEPT ![r] = returnResult[gw[r]]]
  /\ UNCHANGED <<poolVars, data, gw, base, returnResult, pluginVars>>

(* Mutant: clearInjected called at the end of the body, not deferred *)
PanicNoClear(r) ==
  /\ Goto(r, "running", "put")
  /\ UNCHANGED <<poolVars, data, gw, base, returnResult, result, pluginVars>>

(* A rule of a serial phase panicked: only the deferred calls still run. *)
Panic(r) ==
  /\ Goto(r, "running", "clear")
  /\ UNCHANGED <<poolVars, data, gw, base, returnResult, result, pluginVars>>

(* Mutant: the keys of the bound values are not removed *)
ClearInjectedNilsOnly(r) ==
  /\ Goto(r, "clear", "put")
  /\ base' = [base EXCEPT ![gw[r]] = Del(@, data[r].nils)]
  /\ UNCHANGED <<poolVars, data, gw, returnResult, result, pluginVars>>

(* The deferred calls: clearInjected removes every key of data, the ones   *)
(* that prepare skipped included; putGengineLocked leaves the append to a  *)
(* goroutine.                                                              *)
ClearInjected(r) ==
  /\ Goto(r, "clear", "put")
  /\ base' = [base EXCEPT ![gw[r]] = Del(@, data[r].keys)]
  /\ UNCHANGED <<poolVars, data, gw, returnResult, result, pluginVars>>

PutGengineLocked(r) ==
  /\ Goto(r, "put", "done")
  /\ gw' = [gw EXCEPT ![r] = NULL]
  /\ returning' = returning \cup {gw[r]}
  /\ data' = [data EXCEPT ![r] = NoData]
  /\ UNCHANGED <<freeGengines, additionGengines, getEngineLock, base, returnResult, result, pluginVars>>

(* Mutant: the addition flag is not consulted *)
PutBackFree(t) ==
  /\ t \in returning
  /\ returning' = returning \ {t}
  /\ IF FALSE
       THEN additionGengines' = Append(additionGengines, t) /\ UNCHANGED freeGengines
       ELSE freeGengines' = Append(freeGengines, t) /\ UNCHANGED additionGengines
  /\ UNCHANGED <<getEngineLock, pc, data, gw, base, returnResult, result, pluginVars>>

PutBack(t) ==
  /\ t \in returning
  /\ returning' = returning \ {t}
  /\ IF addition(t)
       THEN additionGengines' = Append(additionGengines, t) /\ UNCHANGED freeGengines
       ELSE freeGengines' = Append(freeGengines, t) /\ UNCHANGED additionGengines
  /\ UNCHANGED <<getEngineLock, pc, data, gw, base, returnResult, result, pluginVars>>

-----------------------------------------------------------------------------
(* Mutant: the loop over rbSlice starts at 1 *)
PluginLoaderFromOne(p) ==
  /\ loading = NULL
  /\ loading' = p
  /\ loadNext' = 1
  /\ UNCHANGED <<poolVars, pc, data, gw, base, returnResult, result, loaded>>

(* PluginLoader, one at a time under updateLock: the plugin was opened and *)
(* is added to one DataContext after the other, leased or not.             *)
PluginLoader(p) ==
  /\ loading = NULL
  /\ loading' = p
  /\ loadNext' = 0
  /\ UNCHANGED <<poolVars, pc, data, gw, base, returnResult, result, loaded>>

PluginAdd ==
  /\ loading # NULL /\ loadNext < poolMaxLen
  /\ base' = [base EXCEPT ![loadNext] = Add(@, {loading}, Host)]
  /\ loadNext' = loadNext + 1
  /\ UNCHANGED <<poolVars, pc, data, gw, returnResult, result, loading, loaded>>

PluginReturn ==
  /\ loading # NULL /\ loadNext = poolMaxLen
  /\ loading' = NULL
  /\ loaded' = loaded \cup {loading}
  /\ UNCHANGED <<poolVars, pc, data, gw, base, returnResult, result, loadNext>>

-----------------------------------------------------------------------------
Acquire(r) == Lock(r) \/ CheckFree(r) \/ PopFree(r) \/ CheckAddition(r) \/ PopAddition(r)
Execute(r) == Prepare(r) \/ StartExecute(r) \/ GetRulesResultMap(r) \/ Panic(r)
Release(r) == ClearInjected(r) \/ PutGengineLocked(r)

Next ==
  \/ \E r \in Requests : Call(r) \/ Acquire(r) \/ Execute(r) \/ AddResult(r) \/ Release(r)
  \/ \E t \in Tags : PutBack(t)
  \/ (\E p \in Plugins : PluginLoader(p)) \/ PluginAdd \/ PluginReturn

Safety == Init /\ [][Next]_vars

(* Goroutines that can run are scheduled, and rules end (a loop statement   *)
(* is cut off after maxExecuteNum rounds).  Go's mutex hands over in FIFO   *)
(* order to a goroutine that has waited 1ms, hence SF on Lock.  Nobody is   *)
(* obliged to make a call or to load a plugin.                              *)
Fairness ==
  /\ \A r \in Requests : /\ SF_vars(Lock(r))
                         /\ WF_vars(Acquire(r))
                         /\ WF_vars(Execute(r))
                         /\ WF_vars(Release(r))
  /\ \A t \in Tags : WF_vars(PutBack(t))
  /\ WF_vars(PluginAdd \/ PluginReturn)

Spec == Safety /\ Fairness

-----------------------------------------------------------------------------
TypeOK ==
  /\ freeGengines \in Seq(Tags)
  /\ additionGengines \in Seq(Tags)
  /\ getEngineLock \in Requests \cup {NULL}
  /\ pc \in [Requests -> Pcs]
  /\ data \in [Requests -> Data]
  /\ gw \in [Requests -> Tags \cup {NULL}]
  /\ returning \in SUBSET Tags
  /\ base \in [Tags -> [Names -> Suppliers \cup {NULL}]]
  /\ returnResult \in [Tags -> SUBSET Suppliers]
  /\ result \in [Requests -> SUBSET Suppliers]
  /\ loading \in Plugins \cup {NULL}
  /\ loadNext \in 0 .. poolMaxLen
  /\ loaded \in SUBSET Plugins

Leased == {gw[r] : r \in Requests} \ {NULL}
Pooled == Range(freeGengines) \cup Range(additionGengines)

(* No wrapper is lost and none is duplicated: each is in exactly one of    *)
(* the two slices, once, or on its way back, or held by exactly one call.  *)
(* A wrapper never changes slice (the addition flag decides).              *)
EveryWrapperOnce ==
  /\ Pooled \cup returning \cup Leased = Tags
  /\ Pooled \cap returning = {}
  /\ (Pooled \cup returning) \cap Leased = {}
  /\ IsInjective(freeGengines) /\ IsInjective(additionGengines)
  /\ \A t \in Range(freeGengines) : ~addition(t)
  /\ \A t \in Range(additionGengines) : addition(t)
  /\ \A r, q \in Requests : gw[r] = gw[q] /\ gw[r] # NULL => r = q

(* getGengine reads the lengths without the locks that guard the slices:   *)
(* the slice it then indexes with [0] is still not empty.                  *)
NoEmptyPop ==
  \A r \in Requests : /\ pc[r] = "popFree" => Len(freeGengines) > 0
                      /\ pc[r] = "popAddition" => Len(additionGengines) > 0

(* While its rules run, a call finds every value it supplied under its     *)
(* key, and nothing another call supplied, wherever the instance was       *)
(* before and whatever the plugin loader does meanwhile.                   *)
RulesSeeOwnData ==
  \A r \in Requests : pc[r] = "running" =>
    /\ \A n \in data[r].keys \ data[r].nils : base[gw[r]][n] = r
    /\ Range(base[gw[r]]) \subseteq {r, Host, NULL}

(* The map a call returns holds no value of another call: not one left in  *)
(* returnResult by an earlier execution on the same instance, and not one  *)
(* a rule read from a binding that was not removed.                        *)
ResultsAreOwn == \A r \in Requests : result[r] \subseteq {r, Host}

(* "req/resp are bound as named values in the DataContext for the duration *)
(* of the call": an instance that no call holds is back to the apis the    *)
(* host gave it.  It holds when callers' names differ from the host's.     *)
BoundForTheCallOnly ==
  \A t \in Tags \ Leased :
    /\ \A n \in ApiNames : base[t][n] = Host
    /\ \A n \in DataNames \ HostNames : base[t][n] = NULL

(* Once PluginLoader has returned, rules find the plugin on every          *)
(* instance, the ones that were leased while it was loaded included.       *)
PluginOnEveryInstance == \A p \in loaded, t \in Tags : base[t][p] = Host

-----------------------------------------------------------------------------
stage == [r \in Requests |-> CASE pc[r] = "idle" -> "none"
                               [] pc[r] \in Holding -> "served"
                               [] pc[r] = "done" -> "done"
                               [] OTHER -> "waiting"]

Lease == INSTANCE PoolLease WITH Instances <- Tags, lease <- gw, stage <- stage

(* The pool implements the abstract lease: an instance is granted only     *)
(* while no other call holds it, and every waiting call is granted one.    *)
ImplementsLease == Lease!Spec
=============================================================================
