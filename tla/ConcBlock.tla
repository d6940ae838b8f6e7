----------------------------- MODULE ConcBlock -----------------------------
(***************************************************************************)
(* A conc { ... } block: ConcStatement.Evaluate starts a goroutine for     *)
(* every assignment and call of the block and waits for them all.  They    *)
(* share the Vars map of the rule and the base map of the DataContext,     *)
(* each behind a lock of its own that is taken for a single map access, so *)
(* the look-ups and the write of one statement interleave with the others' *)
(* and with the embedder's Add and Del.                                    *)
(***************************************************************************)
EXTENDS Integers, Sequences

CONSTANTS
  Blocks,    \* blocks, each the statements of one in the order they are started
  Names,     \* variables, structs and functions the block may mention
  Fields,    \* names of structs: an assignment to one is to its field, a.b
  BaseInit,  \* names the embedder registered, as pointers, before the rule ran
  HostNames, \* names the embedder adds or deletes while the block runs
  MaxHost    \* bound: how often it does so

Absent == -1

ASSUME BlockAssumption ==
  /\ MaxHost \in Nat
  /\ Fields \subseteq Names /\ BaseInit \subseteq Names /\ HostNames \subseteq Names
  /\ Blocks \subseteq Seq([kind : {"=", "+=", "call"}, name : Names, n : Nat \ {0}])

VARIABLES
  Block,    \* the block that runs: c.Assignments, c.FunctionCalls and so on
  base,     \* dc.base: the names registered
  cell,     \* what the registered pointers point to, or the field they lead to
  varz,     \* Vars: the values of the rule's own variables
  lockBase, \* who is inside dc.lockBase
  lockVars, \* who is inside dc.lockVars
  pc,       \* where each goroutine of the block is
  sv,       \* the old value a goroutine read
  eMsg,     \* the goroutines whose failure was appended to eMsg
  main,     \* where ConcStatement.Evaluate itself is
  failed,   \* history: goroutines that failed or panicked
  host      \* how often the embedder was active

vars == <<Block, base, cell, varz, lockBase, lockVars, pc, sv, eMsg, main, failed, host>>

Tasks == 1..Len(Block)
Free == 0
Host == Len(Block) + 1

Goto(t, label) == pc' = [pc EXCEPT ![t] = label]
Fail(t) == Goto(t, "report") /\ failed' = failed \cup {t}
IsCall(t) == Block[t].kind = "call"

---------------------------------------------------------------------------
\* The evaluating goroutine: start them all, wait, return.

Start ==
  /\ main \in 1..Len(Block)
  /\ Goto(main, "rhs")
  /\ main' = main + 1
  /\ UNCHANGED <<Block, base, cell, varz, lockBase, lockVars, sv, eMsg, failed, host>>

Wait ==
  /\ main = Len(Block) + 1
  /\ \A t \in Tasks : pc[t] = "done"
  /\ main' = Len(Block) + 2
  /\ UNCHANGED <<Block, base, cell, varz, lockBase, lockVars, pc, sv, eMsg, failed, host>>

---------------------------------------------------------------------------
\* Assignment.Evaluate and FunctionCall.Evaluate, step by step.

\* The right-hand side or the arguments: a value, an error or a panic, and
\* Evaluate recovers the panic into an error.
Operands(t) ==
  /\ pc[t] = "rhs"
  /\ \/ Goto(t, IF Block[t].kind = "=" THEN "setBase" ELSE "getBase") /\ UNCHANGED failed
     \/ Fail(t)
  /\ UNCHANGED <<Block, base, cell, varz, lockBase, lockVars, sv, eMsg, main, host>>

\* dc.lockBase.Lock ... Unlock around one look-up in base.
EnterBase(t) ==
  /\ pc[t] \in {"getBase", "setBase"} /\ lockBase = Free
  /\ lockBase' = t
  /\ Goto(t, IF pc[t] = "getBase" THEN "inGetBase" ELSE "inSetBase")
  /\ UNCHANGED <<Block, base, cell, varz, lockVars, sv, eMsg, main, failed, host>>

\* GetValue and the Exec functions look in base first, then in Vars.
GetBase(t) ==
  /\ pc[t] = "inGetBase"
  /\ lockBase' = Free
  /\ Goto(t, IF Block[t].name \notin base THEN "getVars"
             ELSE IF IsCall(t) THEN "call" ELSE "load")
  /\ UNCHANGED <<Block, base, cell, varz, lockVars, sv, eMsg, main, failed, host>>

\* The old value of a field is read, and core.Add applied, outside of any
\* lock; Add fails on other kinds than numbers and strings, on pointers too.
Load(t) ==
  /\ pc[t] = "load"
  /\ \/ /\ Block[t].name \in Fields
        /\ sv' = [sv EXCEPT ![t] = cell[Block[t].name]]
        /\ Goto(t, "setBase") /\ UNCHANGED failed
     \/ Fail(t) /\ UNCHANGED sv
  /\ UNCHANGED <<Block, base, cell, varz, lockBase, lockVars, eMsg, main, host>>

(* Mutant: Vars is used without its lock. *)
EnterVarsUnlocked(t) ==
  /\ pc[t] \in {"getVars", "setVars"}
  /\ lockVars' = t
  /\ Goto(t, IF pc[t] = "getVars" THEN "inGetVars" ELSE "inSetVars")
  /\ UNCHANGED <<Block, base, cell, varz, lockBase, sv, eMsg, main, failed, host>>

EnterVars(t) ==
  /\ pc[t] \in {"getVars", "setVars"} /\ lockVars = Free
  /\ lockVars' = t
  /\ Goto(t, IF pc[t] = "getVars" THEN "inGetVars" ELSE "inSetVars")
  /\ UNCHANGED <<Block, base, cell, varz, lockBase, sv, eMsg, main, failed, host>>

(* Mutant: the lock is not released when nothing is found. *)
GetVarsKeepsLock(t) ==
  /\ pc[t] = "inGetVars"
  /\ lockVars' = IF varz[Block[t].name] = Absent THEN t ELSE Free
  /\ \/ /\ varz[Block[t].name] # Absent
        /\ sv' = [sv EXCEPT ![t] = varz[Block[t].name]]
        /\ Goto(t, IF IsCall(t) THEN "call" ELSE "setBase") /\ UNCHANGED failed
     \/ (IsCall(t) => varz[Block[t].name] = Absent) /\ Fail(t) /\ UNCHANGED sv
  /\ UNCHANGED <<Block, base, cell, varz, lockBase, eMsg, main, host>>

\* Not found, or found and of a kind core.Add refuses: a failure.
GetVars(t) ==
  /\ pc[t] = "inGetVars"
  /\ lockVars' = Free
  /\ \/ /\ varz[Block[t].name] # Absent
        /\ sv' = [sv EXCEPT ![t] = varz[Block[t].name]]
        /\ Goto(t, IF IsCall(t) THEN "call" ELSE "setBase") /\ UNCHANGED failed
     \/ (IsCall(t) => varz[Block[t].name] = Absent) /\ Fail(t) /\ UNCHANGED sv
  /\ UNCHANGED <<Block, base, cell, varz, lockBase, eMsg, main, host>>

\* The embedder's function returns, or panics and is recovered.
Called(t) ==
  /\ pc[t] = "call"
  /\ \/ Goto(t, "done") /\ UNCHANGED failed
     \/ Fail(t)
  /\ UNCHANGED <<Block, base, cell, varz, lockBase, lockVars, sv, eMsg, main, host>>

(* Mutant: = goes to Vars without looking in base. *)
SetBaseAfterRead(t) ==
  /\ pc[t] = "inSetBase"
  /\ lockBase' = Free
  /\ Goto(t, IF Block[t].name \in base /\ Block[t].kind # "=" THEN "store" ELSE "setVars")
  /\ UNCHANGED <<Block, base, cell, varz, lockVars, sv, eMsg, main, failed, host>>

\* SetValue looks in base once more: a registered pointer is written through,
\* any other name is a variable of the rule.
SetBase(t) ==
  /\ pc[t] = "inSetBase"
  /\ lockBase' = Free
  /\ Goto(t, IF Block[t].name \in base THEN "store" ELSE "setVars")
  /\ UNCHANGED <<Block, base, cell, varz, lockVars, sv, eMsg, main, failed, host>>

NewValue(t) == Block[t].n + (IF Block[t].kind = "=" THEN 0 ELSE sv[t])

(* Mutant: a case of the switch stores and does not return. *)
StoreFallsThrough(t) ==
  /\ pc[t] = "store"
  /\ \/ /\ cell' = [cell EXCEPT ![Block[t].name] = NewValue(t)]
        /\ Goto(t, "done") /\ UNCHANGED failed
     \/ Fail(t) /\ cell' = [cell EXCEPT ![Block[t].name] = NewValue(t)]
  /\ UNCHANGED <<Block, base, varz, lockBase, lockVars, sv, eMsg, main, host>>

\* SetSingleValue or SetAttributeValue, outside of any lock; kinds may differ.
Store(t) ==
  /\ pc[t] = "store"
  /\ \/ /\ cell' = [cell EXCEPT ![Block[t].name] = NewValue(t)]
        /\ Goto(t, "done") /\ UNCHANGED failed
     \/ Fail(t) /\ UNCHANGED cell
  /\ UNCHANGED <<Block, base, varz, lockBase, lockVars, sv, eMsg, main, host>>

(* Mutant: the old value is stored, not mv. *)
SetVarsKeepsOld(t) ==
  /\ pc[t] = "inSetVars"
  /\ lockVars' = Free
  /\ \/ /\ Block[t].name \notin Fields
        /\ varz' = [varz EXCEPT ![Block[t].name] = sv[t]]
        /\ Goto(t, "done") /\ UNCHANGED failed
     \/ Block[t].name \in Fields /\ Fail(t) /\ UNCHANGED varz
  /\ UNCHANGED <<Block, base, cell, lockBase, sv, eMsg, main, host>>

\* A field of a struct that Vars does not have is an error.
SetVars(t) ==
  /\ pc[t] = "inSetVars"
  /\ lockVars' = Free
  /\ \/ /\ Block[t].name \notin Fields
        /\ varz' = [varz EXCEPT ![Block[t].name] = NewValue(t)]
        /\ Goto(t, "done") /\ UNCHANGED failed
     \/ Block[t].name \in Fields /\ Fail(t) /\ UNCHANGED varz
  /\ UNCHANGED <<Block, base, cell, lockBase, sv, eMsg, main, host>>

(* Mutant: eMsg is read, extended and stored without errLock. *)
ReportOverwrites(t) ==
  /\ pc[t] = "report"
  /\ eMsg' = <<t>>
  /\ Goto(t, "done")
  /\ UNCHANGED <<Block, base, cell, varz, lockBase, lockVars, sv, main, failed, host>>

\* safeCall appends the failure under errLock; wg.Done is deferred.
Report(t) ==
  /\ pc[t] = "report"
  /\ eMsg' = Append(eMsg, t)
  /\ Goto(t, "done")
  /\ UNCHANGED <<Block, base, cell, varz, lockBase, lockVars, sv, main, failed, host>>

---------------------------------------------------------------------------
\* DataContext.Add and Del of the embedder, under lockBase.

HostEnter ==
  /\ host < MaxHost /\ lockBase = Free
  /\ lockBase' = Host
  /\ host' = host + 1
  /\ UNCHANGED <<Block, base, cell, varz, lockVars, pc, sv, eMsg, main, failed>>

HostAdd ==
  /\ lockBase = Host
  /\ lockBase' = Free
  /\ \E n \in HostNames : base' = base \cup {n}
  /\ UNCHANGED <<Block, cell, varz, lockVars, pc, sv, eMsg, main, failed, host>>

HostDel ==
  /\ lockBase = Host
  /\ lockBase' = Free
  /\ \E n \in HostNames : base' = base \ {n}
  /\ UNCHANGED <<Block, cell, varz, lockVars, pc, sv, eMsg, main, failed, host>>

Init ==
  /\ Block \in Blocks
  /\ base = BaseInit
  /\ cell = [n \in Names |-> 0]
  /\ varz \in {v \in [Names -> {0, Absent}] :
                 \A n \in Names : v[n] = 0 => n \notin Fields /\ \E t \in Tasks : Block[t].name = n}
  /\ lockBase = Free /\ lockVars = Free
  /\ pc = [t \in Tasks |-> "new"] /\ sv = [t \in Tasks |-> Absent]
  /\ eMsg = <<>> /\ main = 1 /\ failed = {} /\ host = 0

Task(t) ==
  \/ Operands(t) \/ EnterBase(t) \/ GetBase(t) \/ Load(t) \/ EnterVars(t) \/ GetVars(t)
  \/ Called(t) \/ SetBase(t) \/ Store(t) \/ SetVars(t) \/ Report(t)

Next ==
  \/ Start \/ Wait
  \/ \E t \in Tasks : Task(t)
  \/ HostEnter \/ HostAdd \/ HostDel

Spec == Init /\ [][Next]_vars

\* The scheduler runs every goroutine, a mutex is handed on fairly, and the
\* embedder's functions return.
FairSpec ==
  /\ Spec
  /\ WF_vars(Start \/ Wait) /\ WF_vars(HostAdd \/ HostDel)
  /\ \A t \in UNION {DOMAIN b : b \in Blocks} : SF_vars(t \in Tasks /\ Task(t))

---------------------------------------------------------------------------

Returned == main = Len(Block) + 2

(***************************************************************************)
(* Types: a lock is free or names who took it, the embedder takes only     *)
(* dc.lockBase, and a failure is one of a goroutine of this block.         *)
(***************************************************************************)
Labels == {"new", "rhs", "getBase", "inGetBase", "load", "getVars", "inGetVars", "call",
           "setBase", "inSetBase", "store", "setVars", "inSetVars", "report", "done"}

TypeOK ==
  /\ Block \in Blocks
  /\ base \subseteq Names
  /\ cell \in [Names -> Int] /\ varz \in [Names -> Int]
  /\ lockBase \in 0..Host /\ lockVars \in 0..Len(Block)
  /\ pc \in [Tasks -> Labels] /\ sv \in [Tasks -> Int]
  /\ eMsg \in Seq(Tasks) /\ failed \subseteq Tasks
  /\ main \in 1..Len(Block) + 2 /\ host \in 0..MaxHost

(***************************************************************************)
(* A Go map that is written while another goroutine reads or writes it     *)
(* ends the process and no recover helps.  However the statements of a     *)
(* block, the look-ups of base and Vars and the embedder's Add and Del     *)
(* interleave, a map has at most one of them inside an access.             *)
(***************************************************************************)
InsideBase == {t \in Tasks : pc[t] \in {"inGetBase", "inSetBase"}}
              \cup (IF lockBase = Host THEN {Host} ELSE {})
InsideVars == {t \in Tasks : pc[t] \in {"inGetVars", "inSetVars"}}

OneAtATime ==
  /\ \A t, u \in InsideBase : t = u
  /\ \A t, u \in InsideVars : t = u

(***************************************************************************)
(* The rule goes on only when every goroutine of the block has ended, and  *)
(* then the error of the block names every statement that failed or        *)
(* panicked, once, and no other.                                           *)
(***************************************************************************)
EveryFailureReported ==
  Returned =>
    /\ \A t \in Tasks : pc[t] = "done"
    /\ {eMsg[i] : i \in DOMAIN eMsg} = failed
    /\ \A i, j \in DOMAIN eMsg : eMsg[i] = eMsg[j] => i = j

(***************************************************************************)
(* What the block leaves behind is made of the statements that succeeded,  *)
(* for every name the embedder leaves alone: with none, the old value;     *)
(* with one, its effect; with several, the effect of some of them, as      *)
(* nothing is locked between the read and the write of x += n.  A failed   *)
(* statement leaves nothing.                                               *)
(***************************************************************************)
Writers(n) == {t \in Tasks \ failed : ~IsCall(t) /\ Block[t].name = n}
Effect(S) == LET Added[T \in SUBSET S] ==
                   IF T = {} THEN 0
                   ELSE LET t == CHOOSE u \in T : TRUE IN Block[t].n + Added[T \ {t}]
             IN Added[S]

EffectsOfSuccesses ==
  Returned => \A n \in Names \ HostNames :
    LET value == IF n \in base THEN cell[n] ELSE varz[n]
    IN IF Writers(n) = {} THEN value \in {0, Absent}
       ELSE \E S \in SUBSET Writers(n) : S # {} /\ value = Effect(S)

(***************************************************************************)
(* A name is a registered pointer or a variable of the rule, and stays so: *)
(* a name the embedder registered before the rule, and does not delete,    *)
(* never gets a variable that hides behind it, whatever is added or        *)
(* deleted meanwhile.                                                      *)
(***************************************************************************)
RegisteredNotShadowed ==
  [][\A n \in BaseInit \ HostNames : varz'[n] = varz[n]]_vars

(***************************************************************************)
(* The block returns: no goroutine stays behind a lock that somebody who   *)
(* failed, panicked or ended still holds, and wg reaches zero.             *)
(***************************************************************************)
BlockReturns == <>Returned
============================================================================
