-------------------------- MODULE ConcBlock_proof --------------------------
(***************************************************************************)
(* Proofs about ConcBlock for blocks of any length, any names and any      *)
(* behaviour of the embedder: the two locks exclude, a name registered     *)
(* before the rule gets no variable, failures are reported once, and what  *)
(* the block leaves behind is made of the statements that succeeded.       *)
(***************************************************************************)
EXTENDS ConcBlock, FiniteSets, TLAPS, FiniteSetTheorems

\* A goroutine is inside an access if and only if the lock names it.
BaseLocked == \A t \in Tasks : pc[t] \in {"inGetBase", "inSetBase"} <=> lockBase = t
VarsLocked == \A t \in Tasks : pc[t] \in {"inGetVars", "inSetVars"} <=> lockVars = t

\* Goroutines are started in order, and all have ended when the block has.
Started ==
  /\ \A t \in Tasks : t >= main => pc[t] = "new"
  /\ Returned => \A t \in Tasks : pc[t] = "done"

\* A failure is about to be reported or was, once, and then its goroutine ended.
Failures ==
  /\ \A t \in failed : pc[t] = "report" \/ \E i \in DOMAIN eMsg : eMsg[i] = t
  /\ \A t \in Tasks : pc[t] = "report" => t \in failed
  /\ \A i \in DOMAIN eMsg : eMsg[i] \in failed /\ pc[eMsg[i]] = "done"
  /\ \A i, j \in DOMAIN eMsg : eMsg[i] = eMsg[j] => i = j

\* A name that stays registered is never on its way into Vars.
Lasting == BaseInit \ HostNames
Registered ==
  /\ Lasting \subseteq base
  /\ \A t \in Tasks : pc[t] \in {"setVars", "inSetVars"} => Block[t].name \notin Lasting

IInv == TypeOK /\ BaseLocked /\ VarsLocked /\ Started /\ Failures /\ Registered

(***************************************************************************)
(* What the assumption says of the block that runs.                        *)
(***************************************************************************)
LEMMA BlockFacts ==
  ASSUME Block \in Blocks
  PROVE  /\ Len(Block) \in Nat /\ Tasks \subseteq Int
         /\ \A t \in Tasks : Block[t].name \in Names /\ Block[t].n \in Int
<1> DEFINE Statements == [kind : {"=", "+=", "call"}, name : Names, n : Nat \ {0}]
<1>1. Block \in Seq(Statements)
  BY BlockAssumption
<1>2. Len(Block) \in Nat /\ \A t \in Tasks : Block[t] \in Statements
  <2> HIDE DEF Statements
  <2> QED BY <1>1 DEF Tasks
<1> QED BY <1>2 DEF Tasks

LEMMA InitInvariant == Init => IInv
<1> SUFFICES ASSUME Init PROVE IInv
  OBVIOUS
<1>1. /\ Len(Block) \in Nat /\ Tasks \subseteq Int /\ MaxHost \in Nat
      /\ BaseInit \subseteq Names
  BY BlockFacts, BlockAssumption DEF Init
<1>2. TypeOK
  BY <1>1 DEF Init, TypeOK, Labels, Tasks, Host, Free, Absent
<1>3. BaseLocked /\ VarsLocked
  BY <1>1 DEF Init, BaseLocked, VarsLocked, Tasks, Free
<1>4. Started /\ Failures /\ Registered
  BY <1>1 DEF Init, Started, Returned, Failures, Registered, Lasting, Tasks
<1> QED BY <1>2, <1>3, <1>4 DEF IInv

(***************************************************************************)
(* A step of the embedder or of the evaluating goroutine.                  *)
(***************************************************************************)
LEMMA OthersInvariant ==
  ASSUME IInv, Start \/ Wait \/ HostEnter \/ HostAdd \/ HostDel
  PROVE  IInv'
<1>1. /\ Len(Block) \in Nat /\ Tasks \subseteq Int /\ MaxHost \in Nat
      /\ HostNames \subseteq Names /\ Block' = Block /\ Tasks' = Tasks
  BY BlockFacts, BlockAssumption
     DEF IInv, TypeOK, Start, Wait, HostEnter, HostAdd, HostDel, Tasks
<1>2. CASE Start
  <2>1. main \in Tasks /\ pc[main] = "new" /\ main' = main + 1
    BY <1>1, <1>2 DEF Start, IInv, Started, TypeOK, Tasks
  <2>2. pc' = [pc EXCEPT ![main] = "rhs"]
    BY <1>2 DEF Start, Goto
  <2>3. TypeOK'
    BY <1>1, <1>2, <2>1, <2>2 DEF Start, IInv, TypeOK, Labels, Host, Tasks
  <2>4. BaseLocked' /\ VarsLocked'
    BY <1>1, <1>2, <2>1, <2>2 DEF Start, IInv, TypeOK, BaseLocked, VarsLocked
  <2>5. Started'
    BY <1>1, <1>2, <2>1, <2>2 DEF Start, IInv, TypeOK, Started, Returned, Tasks
  <2>6. Failures' /\ Registered'
    BY <1>1, <1>2, <2>1, <2>2 DEF Start, IInv, TypeOK, Failures, Registered, Lasting
  <2> QED BY <2>3, <2>4, <2>5, <2>6 DEF IInv
<1>3. CASE Wait
  BY <1>1, <1>3
     DEF Wait, IInv, TypeOK, Host, Tasks, BaseLocked, VarsLocked, Started, Returned, Failures,
         Registered, Lasting
<1>4. CASE HostEnter \/ HostAdd \/ HostDel
  <2>1. /\ UNCHANGED <<cell, varz, lockVars, pc, sv, eMsg, main, failed>>
        /\ base' \subseteq Names /\ Lasting \subseteq base'
        /\ lockBase' \in {Free, Host} /\ lockBase \in {Free, Host} /\ host' \in 0..MaxHost
    BY <1>1, <1>4 DEF HostEnter, HostAdd, HostDel, IInv, TypeOK, Registered, Lasting
  <2>2. TypeOK'
    BY <1>1, <2>1 DEF IInv, TypeOK, Host, Free, Tasks
  <2>3. BaseLocked' /\ VarsLocked'
    BY <1>1, <2>1 DEF IInv, BaseLocked, VarsLocked, Host, Free, Tasks
  <2>4. Started' /\ Failures' /\ Registered'
    BY <1>1, <2>1 DEF IInv, Started, Returned, Failures, Registered, Lasting
  <2> QED BY <2>2, <2>3, <2>4 DEF IInv
<1> QED BY <1>2, <1>3, <1>4

(***************************************************************************)
(* Where a goroutine stands decides what it holds, so a step from one      *)
(* place to another that takes and releases accordingly keeps both locks   *)
(* and the order of start and end.                                         *)
(***************************************************************************)
LEMMA LocksKept ==
  ASSUME IInv, NEW t \in Tasks, NEW l \in Labels \ {"new"}, pc[t] \notin {"new", "done"},
         pc' = [pc EXCEPT ![t] = l], UNCHANGED <<Block, main>>,
         \/ l \in {"inGetBase", "inSetBase"} /\ lockBase = Free /\ lockBase' = t
         \/ l \notin {"inGetBase", "inSetBase"} /\ pc[t] \in {"inGetBase", "inSetBase"} /\ lockBase' = Free
         \/ /\ l \notin {"inGetBase", "inSetBase"} /\ pc[t] \notin {"inGetBase", "inSetBase"}
            /\ lockBase' = lockBase,
         \/ l \in {"inGetVars", "inSetVars"} /\ lockVars = Free /\ lockVars' = t
         \/ l \notin {"inGetVars", "inSetVars"} /\ pc[t] \in {"inGetVars", "inSetVars"} /\ lockVars' = Free
         \/ /\ l \notin {"inGetVars", "inSetVars"} /\ pc[t] \notin {"inGetVars", "inSetVars"}
            /\ lockVars' = lockVars
  PROVE  BaseLocked' /\ VarsLocked' /\ Started'
<1>1. Tasks' = Tasks /\ Free \notin Tasks /\ pc \in [Tasks -> Labels] /\ Len(Block') = Len(Block)
  BY BlockFacts DEF Tasks, Free, IInv, TypeOK
<1>2. BaseLocked'
  BY <1>1 DEF IInv, BaseLocked
<1>3. VarsLocked'
  BY <1>1 DEF IInv, VarsLocked
<1>4. Started'
  BY <1>1 DEF IInv, Started, Returned
<1> QED BY <1>2, <1>3, <1>4

(***************************************************************************)
(* A step that fails goes to "report"; one that does not leaves failed and *)
(* eMsg alone and goes elsewhere.                                          *)
(***************************************************************************)
LEMMA FailuresKept ==
  ASSUME IInv, NEW t \in Tasks, NEW l \in Labels, pc[t] \notin {"report", "done"},
         pc' = [pc EXCEPT ![t] = l], UNCHANGED <<Block, eMsg>>,
         \/ l = "report" /\ failed' = failed \cup {t}
         \/ l # "report" /\ failed' = failed
  PROVE  Failures'
<1>1. Tasks' = Tasks /\ pc \in [Tasks -> Labels] /\ eMsg \in Seq(Tasks)
  BY DEF Tasks, IInv, TypeOK
<1>2. \A i \in DOMAIN eMsg : eMsg[i] \in Tasks /\ eMsg[i] # t
  BY <1>1 DEF IInv, Failures
<1>3. t \notin failed
  BY <1>2 DEF IInv, Failures
<1> QED BY <1>1, <1>2, <1>3 DEF IInv, TypeOK, Failures

(***************************************************************************)
(* A step of a goroutine, whichever it is.                                 *)
(***************************************************************************)
LEMMA TaskInvariant ==
  ASSUME IInv, NEW t \in Tasks, Task(t)
  PROVE  IInv'
<1>1. /\ Len(Block) \in Nat /\ Tasks = 1..Len(Block) /\ Host = Len(Block) + 1 /\ Free = 0
      /\ Block[t].name \in Names /\ Block[t].n \in Int
  BY BlockFacts DEF IInv, TypeOK, Tasks, Host, Free
<1>2. UNCHANGED <<Block, base, main, host>>
  BY DEF Task, Operands, EnterBase, GetBase, Load, EnterVars, GetVars, Called,
         SetBase, Store, SetVars, Report
<1>3. Tasks' = Tasks /\ Host' = Host /\ Len(Block') = Len(Block)
  BY <1>2 DEF Tasks, Host
<1>4. /\ pc \in [Tasks -> Labels] /\ sv \in [Tasks -> Int] /\ cell \in [Names -> Int]
      /\ varz \in [Names -> Int] /\ lockBase \in 0..Host /\ lockVars \in 0..Len(Block)
      /\ failed \subseteq Tasks /\ eMsg \in Seq(Tasks)
  BY DEF IInv, TypeOK
<1>5. PICK l \in Labels \ {"new"} : pc' = [pc EXCEPT ![t] = l]
  BY DEF Task, Operands, EnterBase, GetBase, Load, EnterVars, GetVars, Called,
         SetBase, Store, SetVars, Report, Goto, Fail, Labels
<1>6. pc[t] \notin {"new", "done"} /\ pc'[t] = l
  BY <1>4, <1>5
     DEF Task, Operands, EnterBase, GetBase, Load, EnterVars, GetVars, Called,
         SetBase, Store, SetVars, Report
<1>7. TypeOK'
  <2>1. NewValue(t) \in Int
    <3>1. sv[t] \in Int
      BY <1>4
    <3> QED BY <1>1, <3>1 DEF NewValue
  <2>2. lockBase' \in {lockBase, t, Free} /\ lockVars' \in {lockVars, t, Free}
    BY DEF Task, Operands, EnterBase, GetBase, Load, EnterVars, GetVars, Called,
           SetBase, Store, SetVars, Report
  <2>3. lockBase' \in 0..Host /\ lockVars' \in 0..Len(Block)
    BY <1>1, <1>4, <2>2
  <2>4. failed' \in {failed, failed \cup {t}} /\ eMsg' \in {eMsg, Append(eMsg, t)}
    BY DEF Task, Operands, EnterBase, GetBase, Load, EnterVars, GetVars, Called,
           SetBase, Store, SetVars, Report, Fail
  <2>5. failed' \subseteq Tasks /\ eMsg' \in Seq(Tasks)
    <3>1. Append(eMsg, t) \in Seq(Tasks)
      BY <1>4
    <3> QED BY <1>4, <2>4, <3>1
  <2>6. \E v \in Int : \/ cell' = cell
                       \/ cell' = [cell EXCEPT ![Block[t].name] = v]
    BY <2>1
       DEF Task, Operands, EnterBase, GetBase, Load, EnterVars, GetVars, Called,
           SetBase, Store, SetVars, Report
  <2>7. \E v \in Int : \/ varz' = varz
                       \/ varz' = [varz EXCEPT ![Block[t].name] = v]
    BY <2>1
       DEF Task, Operands, EnterBase, GetBase, Load, EnterVars, GetVars, Called,
           SetBase, Store, SetVars, Report
  <2>8. \E v \in Int : \/ sv' = sv
                       \/ sv' = [sv EXCEPT ![t] = v]
    BY <1>1, <1>4
       DEF Task, Operands, EnterBase, GetBase, Load, EnterVars, GetVars, Called,
           SetBase, Store, SetVars, Report
  <2>9. cell' \in [Names -> Int] /\ varz' \in [Names -> Int] /\ sv' \in [Tasks -> Int]
    BY <1>4, <2>6, <2>7, <2>8
  <2>10. pc' \in [Tasks -> Labels]
    BY <1>4, <1>5
  <2> QED BY <1>2, <1>3, <2>3, <2>5, <2>9, <2>10 DEF IInv, TypeOK
<1>8. BaseLocked' /\ VarsLocked' /\ Started'
  <2>1. \/ l \in {"inGetBase", "inSetBase"} /\ lockBase = Free /\ lockBase' = t
        \/ l \notin {"inGetBase", "inSetBase"} /\ pc[t] \in {"inGetBase", "inSetBase"} /\ lockBase' = Free
        \/ /\ l \notin {"inGetBase", "inSetBase"} /\ pc[t] \notin {"inGetBase", "inSetBase"}
           /\ lockBase' = lockBase
    BY <1>4, <1>5, <1>6
       DEF Task, Operands, EnterBase, GetBase, Load, EnterVars, GetVars, Called,
           SetBase, Store, SetVars, Report, Goto, Fail
  <2>2. \/ l \in {"inGetVars", "inSetVars"} /\ lockVars = Free /\ lockVars' = t
        \/ l \notin {"inGetVars", "inSetVars"} /\ pc[t] \in {"inGetVars", "inSetVars"} /\ lockVars' = Free
        \/ /\ l \notin {"inGetVars", "inSetVars"} /\ pc[t] \notin {"inGetVars", "inSetVars"}
           /\ lockVars' = lockVars
    BY <1>4, <1>5, <1>6
       DEF Task, Operands, EnterBase, GetBase, Load, EnterVars, GetVars, Called,
           SetBase, Store, SetVars, Report, Goto, Fail
  <2> QED BY <1>2, <1>5, <1>6, <2>1, <2>2, LocksKept
<1>9. Failures'
  <2>1. CASE Report(t)
    <3>1. /\ pc[t] = "report" /\ pc' = [pc EXCEPT ![t] = "done"]
          /\ eMsg' = Append(eMsg, t) /\ failed' = failed
      BY <2>1 DEF Report, Goto
    <3>2. \A i \in DOMAIN eMsg : eMsg[i] \in Tasks /\ eMsg[i] # t
      BY <1>4, <3>1 DEF IInv, Failures
    <3>3. /\ DOMAIN eMsg' = 1..Len(eMsg) + 1 /\ eMsg'[Len(eMsg) + 1] = t
          /\ DOMAIN eMsg = 1..Len(eMsg) /\ Len(eMsg) \in Nat
          /\ \A i \in DOMAIN eMsg : eMsg'[i] = eMsg[i]
      BY <1>4, <3>1
    <3>4. \A u \in failed : u \in Tasks
      BY <1>4
    <3>5. \A u \in failed : pc'[u] = "report" \/ \E i \in DOMAIN eMsg' : eMsg'[i] = u
      BY <1>4, <3>1, <3>3, <3>4, SMTT(30) DEF IInv, Failures
    <3>6. \A u \in Tasks : pc'[u] = "report" => u \in failed
      BY <1>4, <3>1 DEF IInv, Failures
    <3>7. \A i \in DOMAIN eMsg' : eMsg'[i] \in failed /\ pc'[eMsg'[i]] = "done"
      BY <1>4, <3>1, <3>2, <3>3 DEF IInv, Failures
    <3>8. \A i, j \in DOMAIN eMsg' : eMsg'[i] = eMsg'[j] => i = j
      BY <3>1, <3>2, <3>3 DEF IInv, Failures
    <3> QED BY <1>3, <3>1, <3>5, <3>6, <3>7, <3>8 DEF Failures
  <2>2. CASE ~Report(t)
    <3>1. pc[t] # "report" /\ eMsg' = eMsg
      BY <2>2
         DEF Task, Operands, EnterBase, GetBase, Load, EnterVars, GetVars, Called,
             SetBase, Store, SetVars
    <3>2. \/ l = "report" /\ failed' = failed \cup {t}
          \/ l # "report" /\ failed' = failed
      BY <1>4, <1>5, <1>6, <2>2
         DEF Task, Operands, EnterBase, GetBase, Load, EnterVars, GetVars, Called,
             SetBase, Store, SetVars, Goto, Fail
    <3> QED BY <1>2, <1>5, <1>6, <3>1, <3>2, FailuresKept
  <2> QED BY <2>1, <2>2
<1>10. Registered'
  <2>1. \A u \in Tasks : u # t => pc'[u] = pc[u]
    BY <1>4, <1>5
  <2>2. pc'[t] \in {"setVars", "inSetVars"} => Block[t].name \notin Lasting
    BY <1>4
       DEF Task, Operands, EnterBase, GetBase, Load, EnterVars, GetVars, Called,
           SetBase, Store, SetVars, Report, Goto, Fail, IInv, Registered
  <2> QED BY <1>2, <1>3, <2>1, <2>2 DEF IInv, Registered, Lasting
<1> QED BY <1>7, <1>8, <1>9, <1>10 DEF IInv

(***************************************************************************)
(* Every reachable state satisfies the invariant.                          *)
(***************************************************************************)
LEMMA Invariant == Spec => []IInv
<1>1. ASSUME IInv, [Next]_vars PROVE IInv'
  <2>1. CASE UNCHANGED vars
    BY <1>1, <2>1
       DEF vars, IInv, TypeOK, BaseLocked, VarsLocked, Started, Returned, Failures, Registered,
           Lasting, Tasks, Host, Labels
  <2>2. CASE Start \/ Wait \/ HostEnter \/ HostAdd \/ HostDel
    BY <1>1, <2>2, OthersInvariant
  <2>3. ASSUME NEW t \in Tasks, Task(t) PROVE IInv'
    BY <1>1, <2>3, TaskInvariant
  <2> QED BY <1>1, <2>1, <2>2, <2>3 DEF Next
<1> QED BY <1>1, InitInvariant, PTL DEF Spec

(***************************************************************************)
(* Type correctness of a conc block, whatever its statements and however   *)
(* long it is (conc_statement.go:39).                                      *)
(***************************************************************************)
THEOREM TypeCorrect == Spec => []TypeOK
<1>1. IInv => TypeOK
  BY DEF IInv
<1> QED BY <1>1, Invariant, PTL

(***************************************************************************)
(* Neither dc.base nor Vars is ever accessed by two at once: the hand-made *)
(* lock and unlock pairs of data_context.go leave no gap, for any number   *)
(* of statements and any Add and Del of the embedder.                      *)
(***************************************************************************)
THEOREM AccessExclusive == Spec => []OneAtATime
<1>1. IInv => OneAtATime
  <2> SUFFICES ASSUME IInv PROVE OneAtATime
    OBVIOUS
  <2>1. Host \notin Tasks
    BY BlockFacts DEF IInv, TypeOK, Host, Tasks
  <2> QED BY <2>1 DEF IInv, BaseLocked, VarsLocked, OneAtATime, InsideBase, InsideVars
<1> QED BY <1>1, Invariant, PTL

(***************************************************************************)
(* The block returns after all its goroutines, with every failure in its   *)
(* error, once, and nothing else (conc_statement.go:117-123).              *)
(***************************************************************************)
THEOREM FailuresReported == Spec => []EveryFailureReported
<1>1. IInv => EveryFailureReported
  <2> SUFFICES ASSUME IInv, Returned PROVE EveryFailureReported
    BY DEF EveryFailureReported
  <2>1. \A t \in Tasks : pc[t] = "done"
    BY DEF IInv, Started
  <2>2. \A t \in failed : \E i \in DOMAIN eMsg : eMsg[i] = t
    BY <2>1 DEF IInv, TypeOK, Failures
  <2>3. \A i \in DOMAIN eMsg : eMsg[i] \in failed
    BY DEF IInv, Failures
  <2> QED BY <2>1, <2>2, <2>3 DEF IInv, Failures, EveryFailureReported
<1> QED BY <1>1, Invariant, PTL

(***************************************************************************)
(* A name registered before the rule, and left alone by the embedder, gets *)
(* no variable behind it: the two look-ups of data_context.go that decide  *)
(* where a value goes agree although a lock is released between them.      *)
(***************************************************************************)
THEOREM PointersStayPointers == Spec => RegisteredNotShadowed
<1>1. ASSUME IInv, [Next]_vars
      PROVE  [\A n \in BaseInit \ HostNames : varz'[n] = varz[n]]_vars
  <2>1. CASE UNCHANGED vars
    BY <2>1
  <2>2. CASE Start \/ Wait \/ HostEnter \/ HostAdd \/ HostDel
    BY <2>2 DEF Start, Wait, HostEnter, HostAdd, HostDel
  <2>3. ASSUME NEW t \in Tasks, Task(t) PROVE \A n \in Lasting : varz'[n] = varz[n]
    <3>1. CASE SetVars(t)
      <4>1. Block[t].name \notin Lasting
        BY <1>1, <3>1 DEF SetVars, IInv, Registered
      <4>2. \A n \in Names : n # Block[t].name => varz'[n] = varz[n]
        BY <1>1, <3>1 DEF SetVars, IInv, TypeOK
      <4> QED BY <4>1, <4>2, BlockAssumption DEF Lasting
    <3>2. CASE ~SetVars(t)
      BY <2>3, <3>2
         DEF Task, Operands, EnterBase, GetBase, Load, EnterVars, GetVars, Called, SetBase,
             Store, Report
    <3> QED BY <3>1, <3>2
  <2> QED BY <1>1, <2>1, <2>2, <2>3 DEF Next, Lasting
<1> QED BY <1>1, Invariant, PTL DEF Spec, RegisteredNotShadowed

---------------------------------------------------------------------------
(***************************************************************************)
(* Induction over the natural numbers, for a set A of them: if m were not  *)
(* in A, adding one would map the members of A up to m injectively into    *)
(* those but 0, of which there are fewer.                                  *)
(***************************************************************************)
LEMMA Induction ==
  ASSUME NEW A \in SUBSET Nat, 0 \in A, \A n \in A : n + 1 \in A
  PROVE  A = Nat
<1> SUFFICES ASSUME NEW m \in Nat, m \notin A PROVE FALSE
  OBVIOUS
<1> DEFINE T == {i \in A : i <= m}
           next == [i \in T |-> i + 1]
<1>1. IsFiniteSet(T) /\ Cardinality(T) \in Nat
  BY FS_BoundedSetOfNaturals, FS_CardinalityType
<1>2. 0 \in T
  OBVIOUS
<1>3. IsFiniteSet(T \ {0}) /\ Cardinality(T \ {0}) = Cardinality(T) - 1
  <2> HIDE DEF T
  <2> QED BY <1>1, <1>2, FS_RemoveElement
<1>4. next \in [T -> T \ {0}]
  <2>1. ASSUME NEW i \in T PROVE i + 1 \in T \ {0}
    <3>1. i \in Nat /\ i <= m /\ i # m /\ i + 1 \in A
      OBVIOUS
    <3> QED BY <3>1
  <2> HIDE DEF T
  <2> QED BY <2>1
<1>5. PICK i, j \in T : i # j /\ next[i] = next[j]
  <2> HIDE DEF T, next
  <2>1. Cardinality(T \ {0}) < Cardinality(T)
    BY <1>1, <1>3
  <2> QED BY <1>1, <1>3, <1>4, <2>1, FS_PigeonHole
<1>6. i \in Nat /\ j \in Nat /\ i + 1 = j + 1
  BY <1>5
<1> QED BY <1>5, <1>6

\* A sum over sets of statements, whatever the order they are added in.
IsSum(G, k) ==
  /\ G \in [SUBSET (1..k) -> Int]
  /\ G[{}] = 0
  /\ \A T \in SUBSET (1..k) : \A t \in T : G[T] = Block[t].n + G[T \ {t}]

(***************************************************************************)
(* There is such a sum: for one more statement, add what it adds to the    *)
(* sums over the sets without it.                                          *)
(***************************************************************************)
LEMMA SumExists ==
  ASSUME Block \in Blocks
  PROVE  \E G : IsSum(G, Len(Block))
<1> DEFINE L == Len(Block)
           A == {k \in Nat : k <= L => \E G : IsSum(G, k)}
<1>1. L \in Nat /\ \A t \in 1..L : Block[t].n \in Int
  BY BlockFacts DEF Tasks
<1>2. 0 \in A
  <2>1. 1..0 = {} /\ SUBSET (1..0) = {{}}
    OBVIOUS
  <2>2. IsSum([T \in {{}} |-> 0], 0)
    BY <2>1 DEF IsSum
  <2> QED BY <2>2
<1>3. ASSUME NEW k \in A PROVE k + 1 \in A
  <2> SUFFICES ASSUME k + 1 <= L PROVE \E G : IsSum(G, k + 1)
    OBVIOUS
  <2>1. k \in Nat /\ k <= L
    BY <1>1
  <2> PICK F : IsSum(F, k)
    BY <2>1
  <2> DEFINE n == Block[k + 1].n
             Without(T) == T \ {k + 1}
             Sum(T) == IF k + 1 \in T THEN n + F[Without(T)] ELSE F[Without(T)]
             G == [T \in SUBSET (1..k + 1) |-> Sum(T)]
  <2>2. n \in Int
    BY <1>1, <2>1
  <2>3. ASSUME NEW T \in SUBSET (1..k + 1) PROVE Without(T) \in SUBSET (1..k)
    BY <2>1
  <2>4. \A T \in SUBSET (1..k) :
          F[T] \in Int /\ \A t \in T : F[T] = Block[t].n + F[T \ {t}]
    BY DEF IsSum
  <2>5. G \in [SUBSET (1..k + 1) -> Int]
    <3>1. ASSUME NEW T \in SUBSET (1..k + 1)
          PROVE  Sum(T) \in Int
      <4>1. F[Without(T)] \in Int
        <5> HIDE DEF Without
        <5> QED BY <2>3, <2>4
      <4> HIDE DEF n, Without
      <4> QED BY <2>2, <4>1
    <3> HIDE DEF Sum
    <3> QED BY <3>1
  <2>6. G[{}] = 0
    <3>1. Without({}) = {} /\ F[{}] = 0
      BY DEF IsSum
    <3> QED BY <3>1
  <2>7. ASSUME NEW T \in SUBSET (1..k + 1), NEW t \in T
        PROVE  G[T] = Block[t].n + G[T \ {t}]
    <3>1. T \ {t} \in SUBSET (1..k + 1)
      OBVIOUS
    <3>2. CASE t = k + 1
      <4>1. Without(T \ {t}) = Without(T) /\ k + 1 \notin T \ {t}
        BY <3>2
      <4> HIDE DEF Without
      <4> QED BY <3>1, <3>2, <4>1
    <3>3. CASE t # k + 1
      <4>1. /\ t \in Without(T) /\ Without(T \ {t}) = Without(T) \ {t}
            /\ k + 1 \in T <=> k + 1 \in T \ {t}
        BY <3>3
      <4>2. /\ F[Without(T)] = Block[t].n + F[Without(T \ {t})]
            /\ F[Without(T)] \in Int /\ F[Without(T \ {t})] \in Int
        <5>1. Without(T) \in SUBSET (1..k) /\ Without(T \ {t}) \in SUBSET (1..k)
          BY <2>3, <3>1
        <5>2. \A U \in SUBSET (1..k) : \A u \in U : F[U] = Block[u].n + F[U \ {u}]
          BY <2>4
        <5> HIDE DEF Without, Sum, G, n
        <5>3. F[Without(T)] = Block[t].n + F[Without(T) \ {t}]
          BY <4>1, <5>1, <5>2
        <5> QED BY <2>4, <4>1, <5>1, <5>3
      <4>3. Block[t].n \in Int
        BY <1>1, <2>1
      <4> HIDE DEF Without, n
      <4> QED BY <2>2, <3>1, <4>1, <4>2, <4>3
    <3> QED BY <3>2, <3>3
  <2>8. IsSum(G, k + 1)
    <3> HIDE DEF G
    <3> QED BY <2>5, <2>6, <2>7 DEF IsSum
  <2> QED BY <2>8
<1>4. A = Nat
  <2> HIDE DEF A
  <2>1. A \in SUBSET Nat
    BY DEF A
  <2> QED BY <1>2, <1>3, <2>1, Induction
<1>5. L \in A
  BY <1>1, <1>4
<1> QED BY <1>1, <1>5

(***************************************************************************)
(* Effect adds the statements of a set in an order CHOOSE picks, and the   *)
(* order does not matter.                                                  *)
(***************************************************************************)
LEMMA EffectIsSum ==
  ASSUME Block \in Blocks, NEW G, IsSum(G, Len(Block)), NEW S \in SUBSET Tasks
  PROVE  Effect(S) = G[S]
<1> DEFINE Pick(T) == CHOOSE u \in T : TRUE
           Defines(f) == f = [T \in SUBSET S |->
                                IF T = {} THEN 0
                                ELSE Block[Pick(T)].n + f[T \ {Pick(T)}]]
           Added == CHOOSE f : Defines(f)
           R == [T \in SUBSET S |-> G[T]]
<1>1. Len(Block) \in Nat /\ Tasks = 1..Len(Block)
  BY BlockFacts DEF Tasks
<1>2. \A T \in SUBSET S : T # {} => Pick(T) \in T /\ T \ {Pick(T)} \in SUBSET S
  OBVIOUS
<1>3. Defines(R)
  <2>1. ASSUME NEW T \in SUBSET S
        PROVE  R[T] = IF T = {} THEN 0 ELSE Block[Pick(T)].n + R[T \ {Pick(T)}]
    <3>1. T \in SUBSET (1..Len(Block))
      BY <1>1
    <3> HIDE DEF Pick
    <3> QED BY <1>2, <3>1 DEF IsSum
  <2> HIDE DEF Pick
  <2> QED BY <2>1
<1>4. Defines(Added)
  <2> HIDE DEF Defines
  <2> QED BY <1>3
<1>5. Effect(S) = Added[S]
  BY DEF Effect
<1> HIDE DEF Added
<1>6. \A T \in SUBSET S :
        Added[T] = IF T = {} THEN 0 ELSE Block[Pick(T)].n + Added[T \ {Pick(T)}]
  <2> HIDE DEF Pick
  <2> QED BY <1>4
<1> DEFINE A == {n \in Nat : \A T \in SUBSET S : Cardinality(T) = n => Added[T] = G[T]}
<1>7. \A T \in SUBSET S : IsFiniteSet(T) /\ Cardinality(T) \in Nat
  <2>1. IsFiniteSet(Tasks)
    BY <1>1, FS_Interval
  <2>2. ASSUME NEW T \in SUBSET S PROVE IsFiniteSet(T)
    <3>1. T \in SUBSET Tasks
      OBVIOUS
    <3> QED BY <2>1, <3>1, FS_Subset
  <2> QED BY <2>2, FS_CardinalityType
<1>8. 0 \in A
  <2>1. ASSUME NEW T \in SUBSET S, Cardinality(T) = 0 PROVE Added[T] = G[T]
    <3>1. T = {}
      BY <1>7, <2>1, FS_EmptySet
    <3> QED BY <1>6, <3>1 DEF IsSum
  <2> QED BY <2>1
<1>9. ASSUME NEW n \in A PROVE n + 1 \in A
  <2> SUFFICES ASSUME NEW T \in SUBSET S, Cardinality(T) = n + 1
               PROVE  Added[T] = G[T]
    OBVIOUS
  <2>1. n \in Nat /\ \A U \in SUBSET S : Cardinality(U) = n => Added[U] = G[U]
    OBVIOUS
  <2>2. T # {}
    <3>1. n + 1 # 0
      BY <2>1
    <3> QED BY <3>1, FS_EmptySet
  <2> DEFINE U == T \ {Pick(T)}
  <2>3. Pick(T) \in T /\ U \in SUBSET S
    BY <1>2, <2>2
  <2>4. Cardinality(U) = n
    <3> HIDE DEF Pick
    <3>1. Cardinality(U) = Cardinality(T) - 1
      BY <1>7, <2>3, FS_RemoveElement
    <3> QED BY <2>1, <3>1
  <2>5. G[T] = Block[Pick(T)].n + G[U]
    <3>1. T \in SUBSET (1..Len(Block))
      BY <1>1
    <3> HIDE DEF Pick
    <3> QED BY <2>3, <3>1 DEF IsSum
  <2>6. Added[T] = Block[Pick(T)].n + Added[U]
    <3> HIDE DEF Pick
    <3> QED BY <1>6, <2>2
  <2> HIDE DEF Pick, U
  <2> QED BY <2>1, <2>3, <2>4, <2>5, <2>6
<1>10. A = Nat
  <2> HIDE DEF A
  <2>1. A \in SUBSET Nat
    BY DEF A
  <2> QED BY <1>8, <1>9, <2>1, Induction
<1>11. Cardinality(S) \in A
  BY <1>7, <1>10
<1> QED
  <2>1. S \in SUBSET S /\ \A T \in SUBSET S : Cardinality(T) = Cardinality(S) => Added[T] = G[T]
    BY <1>11
  <2> QED BY <1>5, <2>1

\* The names the embedder leaves alone, and where their value is.
Kept == Names \ HostNames
Value(n) == IF n \in BaseInit THEN cell[n] ELSE varz[n]

\* The statements that have stored a value, and those that have yet to.
Written(n) == {t \in Tasks \ failed : pc[t] = "done" /\ ~IsCall(t) /\ Block[t].name = n}
Writing == {"setBase", "inSetBase", "store", "setVars", "inSetVars"}

\* A statement is at the place where the value of its name is.
Placed ==
  /\ \A n \in Kept : n \in base <=> n \in BaseInit
  /\ \A t \in Tasks : Block[t].name \in Kept =>
       /\ pc[t] \in {"load", "store"} => Block[t].name \in BaseInit
       /\ pc[t] \in {"getVars", "inGetVars", "setVars", "inSetVars"} => Block[t].name \notin BaseInit
  /\ \A t \in Tasks : /\ IsCall(t) => pc[t] \notin Writing \cup {"load"}
                      /\ pc[t] = "call" => IsCall(t)

\* A value, and the old value a statement has read, is the sum of what some of
\* the statements that have stored one add.
Stored(G) ==
  /\ \A n \in Kept : Written(n) = {} =>
       Value(n) \in {0, Absent} /\ (n \in BaseInit => Value(n) = 0)
  /\ \A n \in Kept : Written(n) # {} =>
       \E S \in SUBSET Written(n) : S # {} /\ Value(n) = G[S]
Read(G) ==
  \A t \in Tasks : pc[t] \in Writing /\ Block[t].kind = "+=" /\ Block[t].name \in Kept =>
    \E S \in SUBSET Written(Block[t].name) : sv[t] = G[S]

EInv == Placed /\ \E G : IsSum(G, Len(Block)) /\ Stored(G) /\ Read(G)

(***************************************************************************)
(* When the block begins nothing is stored and nothing read.               *)
(***************************************************************************)
LEMMA InitEffects == Init => EInv
<1> SUFFICES ASSUME Init PROVE EInv
  OBVIOUS
<1>1. PICK G : IsSum(G, Len(Block))
  BY SumExists DEF Init
<1>2. Placed
  BY DEF Init, Placed, Kept, Writing
<1>3. Stored(G)
  <2>1. \A n \in Kept : Written(n) = {}
    BY DEF Init, Written
  <2> QED BY <2>1, BlockAssumption DEF Init, Stored, Kept, Value
<1>4. Read(G)
  BY DEF Init, Read, Writing
<1> QED BY <1>1, <1>2, <1>3, <1>4 DEF EInv

(***************************************************************************)
(* The embedder and the evaluating goroutine store nothing in the names    *)
(* the embedder leaves alone.                                              *)
(***************************************************************************)
LEMMA OthersEffects ==
  ASSUME IInv, EInv, Start \/ Wait \/ HostEnter \/ HostAdd \/ HostDel
  PROVE  EInv'
<1>1. PICK G : IsSum(G, Len(Block)) /\ Stored(G) /\ Read(G)
  BY DEF EInv
<1>2. /\ Block' = Block /\ cell' = cell /\ varz' = varz /\ sv' = sv /\ failed' = failed
      /\ Tasks' = Tasks
  BY DEF Start, Wait, HostEnter, HostAdd, HostDel, Tasks
<1>3. IsSum(G, Len(Block))'
  BY <1>1, <1>2 DEF IsSum
<1>4. ASSUME pc' = pc PROVE EInv'
  <2>1. \A n : Written(n)' = Written(n) /\ Value(n)' = Value(n)
    BY <1>2, <1>4 DEF Written, Value, IsCall
  <2>2. Stored(G)' /\ Read(G)'
    BY <1>1, <1>2, <1>4, <2>1 DEF Stored, Read
  <2>3. \A n \in Kept : n \in base' <=> n \in BaseInit
    BY DEF EInv, Placed, Kept, Start, Wait, HostEnter, HostAdd, HostDel
  <2>4. Placed'
    BY <1>2, <1>4, <2>3 DEF EInv, Placed, IsCall
  <2> QED BY <1>3, <2>2, <2>4 DEF EInv
<1>5. CASE Start
  <2>1. main \in Tasks /\ pc[main] = "new" /\ pc' = [pc EXCEPT ![main] = "rhs"] /\ base' = base
    BY <1>5 DEF Start, Goto, IInv, TypeOK, Started, Tasks
  <2>2. pc \in [Tasks -> Labels]
    BY DEF IInv, TypeOK
  <2>3. \A t \in Tasks : pc'[t] = pc[t] \/ (pc'[t] = "rhs" /\ pc[t] = "new")
    <3>1. ASSUME NEW t \in Tasks PROVE pc'[t] = IF t = main THEN "rhs" ELSE pc[t]
      BY <2>1, <2>2
    <3>2. pc[main] = "new"
      BY <2>1
    <3> QED BY <3>1, <3>2
  <2>4. \A n : Written(n)' = Written(n) /\ Value(n)' = Value(n)
    BY <1>2, <2>3 DEF Written, Value, IsCall
  <2>5. Stored(G)'
    BY <1>1, <1>2, <2>4 DEF Stored
  <2>6. Read(G)'
    BY <1>1, <1>2, <2>3, <2>4 DEF Read, Writing
  <2>7. Placed'
    BY <1>2, <2>1, <2>3 DEF EInv, Placed, Writing, IsCall
  <2> QED BY <1>3, <2>5, <2>6, <2>7 DEF EInv
<1>6. CASE Wait \/ HostEnter \/ HostAdd \/ HostDel
  BY <1>4, <1>6 DEF Wait, HostEnter, HostAdd, HostDel
<1> QED BY <1>5, <1>6

(***************************************************************************)
(* A statement goes where the value of its name is.                        *)
(***************************************************************************)
LEMMA PlacedKept ==
  ASSUME IInv, Placed, NEW t \in Tasks, Task(t)
  PROVE  Placed'
<1>1. /\ Block' = Block /\ base' = base /\ Tasks' = Tasks /\ pc \in [Tasks -> Labels]
      /\ Block[t].name \in Names
  BY BlockFacts
     DEF IInv, TypeOK, Task, Operands, EnterBase, GetBase, Load, EnterVars, GetVars, Called,
         SetBase, Store, SetVars, Report, Tasks
<1>2. PICK l : pc' = [pc EXCEPT ![t] = l]
  BY DEF Task, Operands, EnterBase, GetBase, Load, EnterVars, GetVars, Called, SetBase,
         Store, SetVars, Report, Goto, Fail
<1>3. pc'[t] = l /\ \A u \in Tasks : u # t => pc'[u] = pc[u]
  BY <1>1, <1>2
<1>4. Block[t].name \in Kept =>
        /\ l \in {"load", "store"} => Block[t].name \in BaseInit
        /\ l \in {"getVars", "inGetVars", "setVars", "inSetVars"} => Block[t].name \notin BaseInit
  BY <1>1, <1>3
     DEF Placed, Task, Operands, EnterBase, GetBase, Load, EnterVars, GetVars, Called, SetBase,
         Store, SetVars, Report, Goto, Fail, Kept
<1>5. (IsCall(t) => l \notin Writing \cup {"load"}) /\ (l = "call" => IsCall(t))
  <2>1. (IsCall(t) => pc[t] \notin Writing \cup {"load"}) /\ (pc[t] = "call" => IsCall(t))
    BY DEF Placed
  <2>2. CASE Operands(t) \/ EnterBase(t) \/ EnterVars(t)
    BY <1>1, <1>3, <2>1, <2>2
       DEF Operands, EnterBase, EnterVars, Goto, Fail, Writing, IsCall
  <2>3. CASE GetBase(t)
    BY <1>1, <1>3, <2>1, <2>3 DEF GetBase, Goto, Writing, IsCall
  <2>4. CASE Load(t)
    <3>1. l \in {"setBase", "report"} /\ pc[t] = "load"
      BY <1>1, <1>3, <2>4 DEF Load, Goto, Fail
    <3> QED BY <2>1, <3>1 DEF Writing
  <2>5. CASE GetVars(t)
    BY <1>1, <1>3, <2>1, <2>5 DEF GetVars, Goto, Fail, Writing, IsCall
  <2>6. CASE Called(t) \/ SetBase(t) \/ Store(t) \/ SetVars(t) \/ Report(t)
    BY <1>1, <1>3, <2>1, <2>6
       DEF Called, SetBase, Store, SetVars, Report, Goto, Fail, Writing, IsCall
  <2> QED BY <2>2, <2>3, <2>4, <2>5, <2>6 DEF Task
<1> QED BY <1>1, <1>3, <1>4, <1>5 DEF Placed, IsCall

(***************************************************************************)
(* A step of t that stores nothing: t goes on, fails, or ends without      *)
(* success.                                                                *)
(***************************************************************************)
LEMMA NothingStored ==
  ASSUME IInv, NEW t \in Tasks, NEW l \in Labels, pc' = [pc EXCEPT ![t] = l], pc[t] # "done",
         Block' = Block, cell' = cell, varz' = varz,
         failed' = failed \/ failed' = failed \cup {t},
         l = "done" => t \in failed \/ IsCall(t)
  PROVE  \A n : Written(n)' = Written(n) /\ Value(n)' = Value(n)
<1>1. pc \in [Tasks -> Labels] /\ Tasks' = Tasks
  BY DEF IInv, TypeOK, Tasks
<1> QED BY <1>1 DEF Written, Value, IsCall

(***************************************************************************)
(* What t has read stays a sum, and so does what is stored, if t stores    *)
(* nothing.                                                                *)
(***************************************************************************)
LEMMA ReadKept ==
  ASSUME IInv, NEW G, Stored(G), Read(G), IsSum(G, Len(Block)), NEW t \in Tasks, NEW l \in Labels,
         pc' = [pc EXCEPT ![t] = l], Block' = Block,
         \A n : Written(n)' = Written(n) /\ Value(n)' = Value(n),
         \/ sv' = sv /\ (l \in Writing /\ Block[t].kind = "+=" => pc[t] \in Writing)
         \/ /\ sv' = [sv EXCEPT ![t] = Value(Block[t].name)]
            /\ Block[t].name \in BaseInit \/ Value(Block[t].name) # Absent
         \/ Block[t].name \notin Kept /\ \A u \in Tasks : u # t => sv'[u] = sv[u]
  PROVE  Stored(G)' /\ Read(G)'
<1>1. /\ pc \in [Tasks -> Labels] /\ sv \in [Tasks -> Int] /\ Tasks' = Tasks
  BY DEF IInv, TypeOK, Tasks
<1>2. Stored(G)'
  BY DEF Stored
<1>3. \A u \in Tasks : u # t => pc'[u] = pc[u] /\ sv'[u] = sv[u]
  BY <1>1
<1>4. ASSUME Block[t].name \in Kept, l \in Writing, Block[t].kind = "+="
      PROVE  \E S \in SUBSET Written(Block[t].name) : sv'[t] = G[S]
  <2>1. CASE sv' = sv /\ pc[t] \in Writing
    BY <1>4, <2>1 DEF Read
  <2>2. CASE /\ sv' = [sv EXCEPT ![t] = Value(Block[t].name)]
             /\ Block[t].name \in BaseInit \/ Value(Block[t].name) # Absent
    <3>1. sv'[t] = Value(Block[t].name) /\ {} \in SUBSET Written(Block[t].name)
      BY <1>1, <2>2
    <3>2. CASE Written(Block[t].name) = {}
      <4>1. sv'[t] = 0
        BY <1>4, <2>2, <3>1, <3>2 DEF Stored
      <4> QED BY <3>1, <4>1 DEF IsSum
    <3>3. CASE Written(Block[t].name) # {}
      BY <1>4, <3>1, <3>3 DEF Stored
    <3> QED BY <3>2, <3>3
  <2> QED BY <1>4, <2>1, <2>2
<1>5. ASSUME NEW u \in Tasks, u # t, pc'[u] \in Writing, Block[u].kind = "+=",
             Block[u].name \in Kept
      PROVE  \E S \in SUBSET Written(Block[u].name) : sv'[u] = G[S]
  BY <1>3, <1>5 DEF Read
<1>6. ASSUME NEW u \in Tasks, pc'[u] \in Writing, Block[u].kind = "+=", Block[u].name \in Kept
      PROVE  \E S \in SUBSET Written(Block[u].name) : sv'[u] = G[S]
  <2>1. CASE u = t
    <3>1. pc'[t] = l
      BY <1>1
    <3> QED BY <1>4, <1>6, <2>1, <3>1
  <2>2. CASE u # t
    BY <1>5, <1>6, <2>2
  <2> QED BY <2>1, <2>2
<1>7. \A u \in Tasks : Written(Block[u].name)' = Written(Block[u].name)
  OBVIOUS
<1> QED BY <1>1, <1>2, <1>6, <1>7 DEF Read

(***************************************************************************)
(* A statement is an assignment, with or without a read, or a call.        *)
(***************************************************************************)
LEMMA Kinds ==
  ASSUME Block \in Blocks, NEW t \in Tasks
  PROVE  Block[t].kind \in {"=", "+=", "call"}
<1> DEFINE Statements == [kind : {"=", "+=", "call"}, name : Names, n : Nat \ {0}]
<1>1. Block \in Seq(Statements)
  BY BlockAssumption
<1>2. Block[t] \in Statements
  <2> HIDE DEF Statements
  <2> QED BY <1>1 DEF Tasks
<1> QED BY <1>2

(***************************************************************************)
(* A step of a statement: it stores nothing, or it adds itself to a sum.   *)
(***************************************************************************)
LEMMA TaskEffects ==
  ASSUME IInv, IInv', EInv, NEW t \in Tasks, Task(t)
  PROVE  EInv'
<1>1. PICK G : IsSum(G, Len(Block)) /\ Stored(G) /\ Read(G)
  BY DEF EInv
<1>2. /\ Block' = Block /\ Tasks' = Tasks /\ pc \in [Tasks -> Labels]
      /\ Block[t].name \in Names /\ Block[t].n \in Int
      /\ cell \in [Names -> Int] /\ varz \in [Names -> Int] /\ sv \in [Tasks -> Int]
  BY BlockFacts
     DEF IInv, TypeOK, Task, Operands, EnterBase, GetBase, Load, EnterVars, GetVars, Called,
         SetBase, Store, SetVars, Report, Tasks
<1>3. Placed /\ Placed'
  BY PlacedKept DEF EInv
<1>4. IsSum(G, Len(Block))'
  BY <1>1, <1>2 DEF IsSum
<1> SUFFICES Stored(G)' /\ Read(G)'
  BY <1>3, <1>4 DEF EInv
<1>5. ASSUME NEW l \in Labels, pc' = [pc EXCEPT ![t] = l], pc[t] # "done",
             cell' = cell, varz' = varz,
             failed' = failed \/ failed' = failed \cup {t},
             l = "done" => t \in failed \/ IsCall(t),
             \/ sv' = sv /\ (l \in Writing /\ Block[t].kind = "+=" => pc[t] \in Writing)
             \/ /\ sv' = [sv EXCEPT ![t] = Value(Block[t].name)]
                /\ Block[t].name \in BaseInit \/ Value(Block[t].name) # Absent
             \/ Block[t].name \notin Kept /\ \A u \in Tasks : u # t => sv'[u] = sv[u]
      PROVE  Stored(G)' /\ Read(G)'
  <2>1. \A n : Written(n)' = Written(n) /\ Value(n)' = Value(n)
    BY <1>2, <1>5, NothingStored
  <2> QED BY <1>1, <1>2, <1>5, <2>1, ReadKept
<1>6. ASSUME pc[t] # "done", pc' = [pc EXCEPT ![t] = "done"], failed' = failed, sv' = sv,
             t \notin failed, ~IsCall(t), pc[t] \in Writing,
             Block[t].name \in Kept => Value(Block[t].name)' = NewValue(t),
             \A n \in Kept : n # Block[t].name => Value(n)' = Value(n)
      PROVE  Stored(G)' /\ Read(G)'
  <2> PICK m \in Names : m = Block[t].name
    BY <1>2
  <2>1. pc'[t] = "done" /\ \A u \in Tasks : u # t => pc'[u] = pc[u]
    BY <1>2, <1>6
  <2>2. /\ \A n : n # m => Written(n)' = Written(n)
        /\ Written(m)' = Written(m) \cup {t} /\ t \notin Written(m)
    BY <1>2, <1>6, <2>1 DEF Written, IsCall
  <2>3. ASSUME NEW S \in SUBSET Written(m)
        PROVE  /\ S \cup {t} \in SUBSET Written(m)'
               /\ G[S \cup {t}] = Block[t].n + G[S]
    <3>1. S \cup {t} \in SUBSET (1..Len(Block)) /\ (S \cup {t}) \ {t} = S
      BY <2>2 DEF Written, Tasks
    <3> QED BY <1>1, <2>2, <3>1 DEF IsSum
  <2>4. ASSUME m \in Kept PROVE \E S \in SUBSET Written(m)' : S # {} /\ Value(m)' = G[S]
    <3>1. PICK S \in SUBSET Written(m) : NewValue(t) = Block[t].n + G[S]
      <4>1. CASE Block[t].kind = "="
        <5>1. G[{}] = 0
          BY <1>1 DEF IsSum
        <5> QED BY <1>2, <4>1, <5>1 DEF NewValue
      <4>2. CASE Block[t].kind # "="
        <5>1. PICK S \in SUBSET Written(m) : sv[t] = G[S]
          BY <1>1, <1>6, <2>4, <4>2, Kinds DEF Read, IsCall, IInv, TypeOK
        <5> QED BY <4>2, <5>1 DEF NewValue
      <4> QED BY <4>1, <4>2
    <3>2. Value(m)' = NewValue(t)
      BY <1>2, <1>6, <2>4
    <3>3. S \cup {t} \in SUBSET Written(m)' /\ Value(m)' = G[S \cup {t}]
      BY <2>3, <3>1, <3>2
    <3> QED BY <3>3
  <2>5. Stored(G)'
    <3>1. ASSUME NEW n \in Kept, n # m
          PROVE  Value(n)' = Value(n) /\ Written(n)' = Written(n)
      BY <1>6, <2>2, <3>1
    <3>2. ASSUME NEW n \in Kept
          PROVE  /\ (Written(n) = {})' =>
                      /\ Value(n)' \in {0, Absent}
                      /\ n \in BaseInit => Value(n)' = 0
                 /\ (Written(n) # {})' =>
                      \E S \in SUBSET Written(n)' : S # {} /\ Value(n)' = G[S]
      <4>1. CASE n = m
        <5>1. (Written(n) # {})'
          BY <2>2, <4>1
        <5> QED BY <2>4, <4>1, <5>1
      <4>2. CASE n # m
        BY <1>1, <3>1, <4>2 DEF Stored
      <4> QED BY <4>1, <4>2
    <3> QED BY <3>2 DEF Stored
  <2>6. Read(G)'
    <3>1. ASSUME NEW n PROVE Written(n) \subseteq Written(n)'
      <4>1. CASE n = m
        BY <2>2, <4>1
      <4>2. CASE n # m
        BY <2>2, <4>2
      <4> QED BY <4>1, <4>2
    <3>2. \A u \in Tasks : pc'[u] \in Writing => pc[u] \in Writing
      BY <2>1 DEF Writing
    <3> QED BY <1>1, <1>2, <1>6, <3>1, <3>2 DEF Read
  <2> QED BY <2>5, <2>6
<1>7. /\ pc[t] = "load" /\ Block[t].name \in Kept => Value(Block[t].name) = cell[Block[t].name]
      /\ pc[t] = "inGetVars" /\ Block[t].name \in Kept => Value(Block[t].name) = varz[Block[t].name]
      /\ pc[t] = "call" => IsCall(t)
      /\ pc[t] \in Writing => ~IsCall(t)
      /\ pc[t] = "report" => t \in failed
      /\ pc[t] \notin {"report", "done"} => t \notin failed
  <2>1. /\ pc[t] = "call" => IsCall(t)
        /\ pc[t] \in Writing => ~IsCall(t)
    BY <1>3 DEF Placed
  <2>2. /\ pc[t] = "load" /\ Block[t].name \in Kept => Block[t].name \in BaseInit
        /\ pc[t] = "inGetVars" /\ Block[t].name \in Kept => Block[t].name \notin BaseInit
    BY <1>3 DEF Placed
  <2>3. /\ pc[t] = "report" => t \in failed
        /\ pc[t] \notin {"report", "done"} => t \notin failed
    BY DEF IInv, Failures
  <2> QED BY <2>1, <2>2, <2>3 DEF Value
<1>8. CASE Operands(t)
  BY <1>2, <1>5, <1>8 DEF Operands, Goto, Fail, Labels, Writing
<1>9. CASE EnterBase(t) \/ EnterVars(t)
  BY <1>2, <1>5, <1>9 DEF EnterBase, EnterVars, Goto, Labels, Writing
<1>10. CASE GetBase(t) \/ SetBase(t)
  BY <1>2, <1>5, <1>10 DEF GetBase, SetBase, Goto, Labels, Writing
<1>11. CASE Load(t)
  <2>1. CASE Fail(t) /\ UNCHANGED sv
    BY <1>2, <1>5, <1>11, <2>1 DEF Load, Goto, Fail, Labels, Writing
  <2>2. CASE ~(Fail(t) /\ UNCHANGED sv)
    <3>1. /\ sv' = [sv EXCEPT ![t] = cell[Block[t].name]]
          /\ pc' = [pc EXCEPT ![t] = "setBase"] /\ failed' = failed
          /\ cell' = cell /\ varz' = varz /\ pc[t] = "load"
      BY <1>11, <2>2 DEF Load, Goto
    <3>2. CASE Block[t].name \in Kept
      <4>1. Block[t].name \in BaseInit /\ cell[Block[t].name] = Value(Block[t].name)
        BY <1>3, <1>7, <3>1, <3>2 DEF Placed
      <4> QED BY <1>5, <3>1, <4>1 DEF Labels
    <3>3. CASE Block[t].name \notin Kept
      <4>1. \A u \in Tasks : u # t => sv'[u] = sv[u]
        BY <1>2, <3>1
      <4> QED BY <1>5, <3>1, <3>3, <4>1 DEF Labels
    <3> QED BY <3>2, <3>3
  <2> QED BY <2>1, <2>2
<1>12. CASE GetVars(t)
  <2>1. CASE Fail(t) /\ UNCHANGED sv
    BY <1>2, <1>5, <1>12, <2>1 DEF GetVars, Goto, Fail, Labels, Writing
  <2>2. CASE ~(Fail(t) /\ UNCHANGED sv)
    <3>1. /\ varz[Block[t].name] # Absent /\ sv' = [sv EXCEPT ![t] = varz[Block[t].name]]
          /\ failed' = failed /\ cell' = cell /\ varz' = varz /\ pc[t] = "inGetVars"
      BY <1>12, <2>2 DEF GetVars
    <3> PICK l \in {"call", "setBase"} : pc' = [pc EXCEPT ![t] = l]
      BY <1>12, <2>2 DEF GetVars, Goto
    <3>2. CASE Block[t].name \in Kept
      <4>1. varz[Block[t].name] = Value(Block[t].name)
        BY <1>7, <3>1, <3>2
      <4> QED BY <1>5, <3>1, <4>1 DEF Labels
    <3>3. CASE Block[t].name \notin Kept
      <4>1. \A u \in Tasks : u # t => sv'[u] = sv[u]
        BY <1>2, <3>1
      <4> QED BY <1>5, <3>1, <3>3, <4>1 DEF Labels
    <3> QED BY <3>2, <3>3
  <2> QED BY <2>1, <2>2
<1>13. CASE Called(t)
  BY <1>2, <1>5, <1>7, <1>13 DEF Called, Goto, Fail, Labels, Writing
<1>14. CASE Store(t)
  <2>1. CASE Fail(t) /\ UNCHANGED cell
    BY <1>2, <1>5, <1>14, <2>1 DEF Store, Goto, Fail, Labels, Writing
  <2>2. CASE ~(Fail(t) /\ UNCHANGED cell)
    <3>1. /\ cell' = [cell EXCEPT ![Block[t].name] = NewValue(t)] /\ varz' = varz
          /\ pc' = [pc EXCEPT ![t] = "done"] /\ failed' = failed /\ sv' = sv /\ pc[t] = "store"
      BY <1>14, <2>2 DEF Store, Goto
    <3>2. /\ cell'[Block[t].name] = NewValue(t)
          /\ \A n \in Names : n # Block[t].name => cell'[n] = cell[n]
      BY <1>2, <3>1
    <3>3. Block[t].name \in Kept => Value(Block[t].name)' = NewValue(t)
      BY <1>2, <1>3, <3>1, <3>2 DEF Placed, Value
    <3>4. \A n \in Kept : n # Block[t].name => Value(n)' = Value(n)
      BY <3>1, <3>2 DEF Value, Kept
    <3>5. t \notin failed /\ ~IsCall(t) /\ pc[t] \in Writing /\ pc[t] # "done"
      BY <1>7, <3>1 DEF Writing
    <3> QED BY <1>6, <3>1, <3>3, <3>4, <3>5
  <2> QED BY <2>1, <2>2
<1>15. CASE SetVars(t)
  <2>1. CASE Fail(t) /\ UNCHANGED varz
    BY <1>2, <1>5, <1>15, <2>1 DEF SetVars, Goto, Fail, Labels, Writing
  <2>2. CASE ~(Fail(t) /\ UNCHANGED varz)
    <3>1. /\ varz' = [varz EXCEPT ![Block[t].name] = NewValue(t)] /\ cell' = cell
          /\ pc' = [pc EXCEPT ![t] = "done"] /\ failed' = failed /\ sv' = sv /\ pc[t] = "inSetVars"
      BY <1>15, <2>2 DEF SetVars, Goto
    <3>2. /\ varz'[Block[t].name] = NewValue(t)
          /\ \A n \in Names : n # Block[t].name => varz'[n] = varz[n]
      BY <1>2, <3>1
    <3>3. Block[t].name \in Kept => Value(Block[t].name)' = NewValue(t)
      BY <1>2, <1>3, <3>1, <3>2 DEF Placed, Value
    <3>4. \A n \in Kept : n # Block[t].name => Value(n)' = Value(n)
      BY <3>1, <3>2 DEF Value, Kept
    <3>5. t \notin failed /\ ~IsCall(t) /\ pc[t] \in Writing /\ pc[t] # "done"
      BY <1>7, <3>1 DEF Writing
    <3> QED BY <1>6, <3>1, <3>3, <3>4, <3>5
  <2> QED BY <2>1, <2>2
<1>16. CASE Report(t)
  BY <1>2, <1>5, <1>7, <1>16 DEF Report, Goto, Labels, Writing
<1> QED BY <1>8, <1>9, <1>10, <1>11, <1>12, <1>13, <1>14, <1>15, <1>16 DEF Task

(***************************************************************************)
(* So the effects stay sums in every reachable state.                      *)
(***************************************************************************)
LEMMA EffectsInvariant == Spec => []EInv
<1>1. ASSUME IInv, EInv, [Next]_vars PROVE EInv'
  <2>1. CASE UNCHANGED vars
    <3>1. PICK G : IsSum(G, Len(Block)) /\ Stored(G) /\ Read(G)
      BY <1>1 DEF EInv
    <3>2. IsSum(G, Len(Block))' /\ Tasks' = Tasks /\ \A n : Written(n)' = Written(n)
      BY <2>1, <3>1 DEF vars, IsSum, Tasks, Written, IsCall
    <3>3. Stored(G)' /\ Read(G)'
      BY <2>1, <3>1, <3>2 DEF vars, Stored, Read, Value
    <3>4. Placed'
      BY <1>1, <2>1, <3>2 DEF vars, EInv, Placed, IsCall
    <3> QED BY <3>2, <3>3, <3>4 DEF EInv
  <2>2. CASE Next
    <3>1. IInv'
      BY <1>1, <2>2, OthersInvariant, TaskInvariant DEF Next
    <3>2. CASE \E t \in Tasks : Task(t)
      BY <1>1, <3>1, <3>2, TaskEffects
    <3>3. CASE Start \/ Wait \/ HostEnter \/ HostAdd \/ HostDel
      BY <1>1, <3>3, OthersEffects
    <3> QED BY <2>2, <3>2, <3>3 DEF Next
  <2> QED BY <1>1, <2>1, <2>2
<1> QED BY <1>1, InitEffects, Invariant, PTL DEF Spec

(***************************************************************************)
(* However the statements interleave, a name the embedder leaves alone     *)
(* ends with its old value if no assignment to it succeeded, and otherwise *)
(* with the sum of what some of the successful ones add: nothing of a      *)
(* failed one.                                                             *)
(***************************************************************************)
THEOREM EffectsAreOfSuccesses == Spec => []EffectsOfSuccesses
<1>1. IInv /\ EInv => EffectsOfSuccesses
  <2> SUFFICES ASSUME IInv, EInv, Returned, NEW n \in Kept
               PROVE  LET value == IF n \in base THEN cell[n] ELSE varz[n]
                      IN IF Writers(n) = {} THEN value \in {0, Absent}
                         ELSE \E S \in SUBSET Writers(n) : S # {} /\ value = Effect(S)
    BY DEF EffectsOfSuccesses, Kept
  <2>1. PICK G : IsSum(G, Len(Block)) /\ Stored(G)
    BY DEF EInv
  <2>2. Written(n) = Writers(n)
    BY DEF IInv, Started, Written, Writers
  <2>3. \A S \in SUBSET Writers(n) : Effect(S) = G[S]
    <3>1. Block \in Blocks /\ Writers(n) \subseteq Tasks
      BY DEF IInv, TypeOK, Writers
    <3> QED BY <2>1, <3>1, EffectIsSum
  <2>4. (IF n \in base THEN cell[n] ELSE varz[n]) = Value(n)
    BY DEF EInv, Placed, Value
  <2> QED BY <2>1, <2>2, <2>3, <2>4 DEF Stored
<1> QED BY <1>1, Invariant, EffectsInvariant, PTL
============================================================================
