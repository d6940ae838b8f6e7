-------------------------- MODULE GenginePool_proof --------------------------
(***************************************************************************)
(* Proofs about GenginePool, for any set of calls, any pool lengths that   *)
(* NewGenginePool accepts, and any names.                                  *)
(***************************************************************************)
EXTENDS GenginePool, SequenceTheorems, TLAPS

(* Taking the first element of a slice without duplicates. *)
LEMMA PopFacts ==
  ASSUME NEW S, NEW s \in Seq(S), Len(s) > 0, IsInjective(s)
  PROVE  /\ Head(s) \in S /\ Tail(s) \in Seq(S)
         /\ Head(s) \in Range(s)
         /\ Range(Tail(s)) = Range(s) \ {Head(s)}
         /\ IsInjective(Tail(s))
<1>1. /\ Head(s) = s[1] /\ Tail(s) \in Seq(S) /\ Len(Tail(s)) = Len(s) - 1
      /\ \A i \in 1 .. Len(Tail(s)) : Tail(s)[i] = s[i + 1]
      /\ DOMAIN s = 1 .. Len(s) /\ DOMAIN Tail(s) = 1 .. Len(Tail(s))
      /\ Len(s) \in Nat
  BY HeadTailProperties, LenProperties
<1>2. Head(s) \in S /\ Head(s) \in Range(s)
  BY <1>1, ElementOfSeq DEF Range
<1>3. Range(Tail(s)) \subseteq Range(s) \ {Head(s)}
  BY <1>1 DEF Range, IsInjective
<1>4. ASSUME NEW x \in Range(s) \ {Head(s)} PROVE x \in Range(Tail(s))
  <2>1. PICK i \in 1 .. Len(s) : x = s[i]
    BY <1>1, <1>4 DEF Range
  <2>2. i # 1 /\ i - 1 \in 1 .. Len(Tail(s)) /\ Tail(s)[i - 1] = s[i]
    BY <1>1, <1>4, <2>1
  <2> QED BY <1>1, <2>1, <2>2 DEF Range
<1>5. IsInjective(Tail(s))
  <2> SUFFICES ASSUME NEW i \in 1 .. Len(Tail(s)), NEW j \in 1 .. Len(Tail(s)), Tail(s)[i] = Tail(s)[j]
               PROVE  i = j
    BY <1>1 DEF IsInjective
  <2>1. i + 1 \in 1 .. Len(s) /\ j + 1 \in 1 .. Len(s) /\ s[i + 1] = s[j + 1]
    BY <1>1
  <2> QED BY <1>1, <2>1 DEF IsInjective
<1> QED BY <1>1, <1>2, <1>3, <1>4, <1>5

(* Appending an element the slice does not hold. *)
LEMMA AppendFacts ==
  ASSUME NEW S, NEW s \in Seq(S), NEW x \in S, x \notin Range(s), IsInjective(s)
  PROVE  /\ Append(s, x) \in Seq(S)
         /\ Range(Append(s, x)) = Range(s) \cup {x}
         /\ IsInjective(Append(s, x))
         /\ Len(Append(s, x)) > 0
<1> DEFINE a == Append(s, x)
<1>1. /\ a \in Seq(S) /\ Len(a) = Len(s) + 1
      /\ \A i \in 1 .. Len(s) : a[i] = s[i]
      /\ a[Len(s) + 1] = x
      /\ DOMAIN s = 1 .. Len(s) /\ DOMAIN a = 1 .. Len(a) /\ Len(s) \in Nat
  BY AppendProperties, LenProperties
<1> HIDE DEF a
<1>2. Range(a) = Range(s) \cup {x}
  <2>1. ASSUME NEW y \in Range(s) PROVE y \in Range(a)
    <3>1. PICK i \in 1 .. Len(s) : y = s[i]  BY <1>1, <2>1 DEF Range
    <3> QED BY <1>1, <3>1 DEF Range
  <2>2. x \in Range(a)  BY <1>1 DEF Range
  <2>3. ASSUME NEW y \in Range(a), y # x PROVE y \in Range(s)
    <3>1. PICK i \in 1 .. Len(a) : y = a[i]  BY <1>1, <2>3 DEF Range
    <3>2. i \in 1 .. Len(s)  BY <1>1, <2>3, <3>1
    <3> QED BY <1>1, <3>1, <3>2 DEF Range
  <2> QED BY <2>1, <2>2, <2>3
<1>3. IsInjective(a)
  <2> SUFFICES ASSUME NEW i \in 1 .. Len(a), NEW j \in 1 .. Len(a), a[i] = a[j] PROVE i = j
    BY <1>1 DEF IsInjective
  <2>1. \A k \in 1 .. Len(s) : s[k] # x  BY <1>1 DEF Range
  <2> QED BY <1>1, <2>1 DEF IsInjective
<1> QED BY <1>1, <1>2, <1>3 DEF a

-----------------------------------------------------------------------------
(* The strengthening that makes EveryWrapperOnce and NoEmptyPop inductive: *)
(* who is inside getGengine's critical section and who holds a wrapper can *)
(* be told from the program counters.                                      *)
LockHolder == \A r \in Requests : getEngineLock = r <=> pc[r] \in Locking
LeaseHolder == \A r \in Requests : gw[r] # NULL <=> pc[r] \in Holding

PoolInv == TypeOK /\ LockHolder /\ LeaseHolder /\ NoEmptyPop /\ EveryWrapperOnce

LEMMA InitPoolInv == Init => PoolInv
<1> SUFFICES ASSUME Init PROVE PoolInv
  OBVIOUS
<1> USE PoolLengths, DistinctValues
<1>1. TypeOK
  BY DEF Init, TypeOK, Tags, Pcs, Data, NoData, Names, Suppliers
<1>2. Len(freeGengines) = poolMinLen /\ Len(additionGengines) = poolMaxLen - poolMinLen
  BY DEF Init
<1>3. Range(freeGengines) = 0 .. poolMinLen - 1
  <2>1. ASSUME NEW t \in 0 .. poolMinLen - 1 PROVE t \in Range(freeGengines)
    <3>1. t + 1 \in DOMAIN freeGengines /\ freeGengines[t + 1] = t
      BY <2>1 DEF Init
    <3> QED BY <3>1 DEF Range
  <2>2. ASSUME NEW i \in DOMAIN freeGengines PROVE freeGengines[i] \in 0 .. poolMinLen - 1
    BY <2>2 DEF Init
  <2> QED BY <2>1, <2>2 DEF Range
<1>4. Range(additionGengines) = poolMinLen .. poolMaxLen - 1
  <2>1. ASSUME NEW t \in poolMinLen .. poolMaxLen - 1 PROVE t \in Range(additionGengines)
    <3>1. t - poolMinLen + 1 \in DOMAIN additionGengines /\ additionGengines[t - poolMinLen + 1] = t
      BY <2>1 DEF Init
    <3> QED BY <3>1 DEF Range
  <2>2. ASSUME NEW i \in DOMAIN additionGengines
        PROVE  additionGengines[i] \in poolMinLen .. poolMaxLen - 1
    BY <2>2 DEF Init
  <2> QED BY <2>1, <2>2 DEF Range
<1>5. IsInjective(freeGengines) /\ IsInjective(additionGengines)
  BY DEF Init, IsInjective
<1>6. EveryWrapperOnce
  <2>1. Leased = {} /\ returning = {}  BY DEF Init, Leased
  <2>2. Range(freeGengines) \cup Range(additionGengines) = Tags
    BY <1>3, <1>4 DEF Tags
  <2>3. \A r, q \in Requests : gw[r] = gw[q] /\ gw[r] # NULL => r = q
    BY DEF Init
  <2> QED BY <1>3, <1>4, <1>5, <2>1, <2>2, <2>3 DEF EveryWrapperOnce, Pooled, addition
<1>7. LockHolder /\ LeaseHolder /\ NoEmptyPop
  BY DEF Init, LockHolder, LeaseHolder, NoEmptyPop, Locking, Holding
<1> QED BY <1>1, <1>6, <1>7 DEF PoolInv

(* Type correctness of every step. *)
LEMMA TypeStep ==
  ASSUME PoolInv, [Next]_vars
  PROVE  TypeOK'
<1> USE PoolLengths, DistinctValues DEF Pcs
<1>0. TypeOK /\ LeaseHolder /\ NoEmptyPop /\ EveryWrapperOnce
  BY DEF PoolInv
<1>1. ASSUME NEW r \in Requests, Call(r) PROVE TypeOK'
  <2>1. PICK d \in Data : data' = [data EXCEPT ![r] = d]
    BY <1>1 DEF Call
  <2> QED BY <1>0, <1>1, <2>1 DEF TypeOK, Call, Goto, poolVars, pluginVars
<1>2. ASSUME NEW r \in Requests, Lock(r) PROVE TypeOK'
  BY <1>0, <1>2 DEF TypeOK, Lock, Goto, Locking, pluginVars
<1>3. ASSUME NEW r \in Requests, CheckFree(r) PROVE TypeOK'
  BY <1>0, <1>3 DEF TypeOK, CheckFree, Goto, Locking, poolVars, pluginVars
<1>4. ASSUME NEW r \in Requests, PopFree(r) PROVE TypeOK'
  <2>1. Head(freeGengines) \in Tags /\ Tail(freeGengines) \in Seq(Tags)
    BY <1>0, <1>4, PopFacts DEF TypeOK, PopFree, Goto, NoEmptyPop, EveryWrapperOnce
  <2> QED BY <1>0, <1>4, <2>1 DEF TypeOK, PopFree, Goto, Holding, pluginVars
<1>5. ASSUME NEW r \in Requests, CheckAddition(r) PROVE TypeOK'
  BY <1>0, <1>5 DEF TypeOK, CheckAddition, Goto, Locking, pluginVars
<1>6. ASSUME NEW r \in Requests, PopAddition(r) PROVE TypeOK'
  <2>1. Head(additionGengines) \in Tags /\ Tail(additionGengines) \in Seq(Tags)
    BY <1>0, <1>6, PopFacts DEF TypeOK, PopAddition, Goto, NoEmptyPop, EveryWrapperOnce
  <2> QED BY <1>0, <1>6, <2>1 DEF TypeOK, PopAddition, Goto, Holding, pluginVars
<1>7. ASSUME NEW r \in Requests, Prepare(r) PROVE TypeOK'
  <2>1. gw[r] \in Tags
    BY <1>0, <1>7 DEF TypeOK, LeaseHolder, Prepare, Goto, Holding
  <2>2. Add(base[gw[r]], data[r].keys \ data[r].nils, r) \in [Names -> Suppliers \cup {NULL}]
    BY <1>0, <2>1 DEF TypeOK, Add, Suppliers
  <2>3. base' \in [Tags -> [Names -> Suppliers \cup {NULL}]]
    BY <1>0, <1>7, <2>2 DEF TypeOK, Prepare
  <2> QED BY <1>0, <1>7, <2>3 DEF TypeOK, Prepare, Goto, Holding, poolVars, pluginVars
<1>8. ASSUME NEW r \in Requests, StartExecute(r) PROVE TypeOK'
  BY <1>0, <1>8 DEF TypeOK, StartExecute, Goto, Holding, poolVars, pluginVars
<1>9. ASSUME NEW r \in Requests, AddResult(r) PROVE TypeOK'
  <2>1. gw[r] \in Tags
    BY <1>0, <1>9 DEF TypeOK, LeaseHolder, AddResult, Holding
  <2>2. PICK v \in Suppliers : returnResult' = [returnResult EXCEPT ![gw[r]] = @ \cup {v}]
    BY <1>9 DEF AddResult
  <2>3. returnResult' \in [Tags -> SUBSET Suppliers]
    BY <1>0, <2>1, <2>2 DEF TypeOK
  <2> QED BY <1>0, <1>9, <2>3 DEF TypeOK, AddResult, poolVars, pluginVars
<1>10. ASSUME NEW r \in Requests, GetRulesResultMap(r) PROVE TypeOK'
  <2>1. gw[r] \in Tags
    BY <1>0, <1>10 DEF TypeOK, LeaseHolder, GetRulesResultMap, Goto, Holding
  <2>2. result' \in [Requests -> SUBSET Suppliers]
    BY <1>0, <1>10, <2>1 DEF TypeOK, GetRulesResultMap
  <2> QED BY <1>0, <1>10, <2>2 DEF TypeOK, GetRulesResultMap, Goto, Holding, poolVars, pluginVars
<1>11. ASSUME NEW r \in Requests, Panic(r) PROVE TypeOK'
  BY <1>0, <1>11 DEF TypeOK, Panic, Goto, Holding, poolVars, pluginVars
<1>12. ASSUME NEW r \in Requests, ClearInjected(r) PROVE TypeOK'
  <2>1. gw[r] \in Tags
    BY <1>0, <1>12 DEF TypeOK, LeaseHolder, ClearInjected, Goto, Holding
  <2>2. Del(base[gw[r]], data[r].keys) \in [Names -> Suppliers \cup {NULL}]
    BY <1>0, <2>1 DEF TypeOK, Del
  <2>3. base' \in [Tags -> [Names -> Suppliers \cup {NULL}]]
    BY <1>0, <1>12, <2>2 DEF TypeOK, ClearInjected
  <2> QED BY <1>0, <1>12, <2>3 DEF TypeOK, ClearInjected, Goto, Holding, poolVars, pluginVars
<1>13. ASSUME NEW r \in Requests, PutGengineLocked(r) PROVE TypeOK'
  <2>1. gw[r] \in Tags
    BY <1>0, <1>13 DEF TypeOK, LeaseHolder, PutGengineLocked, Goto, Holding
  <2>2. NoData \in Data
    BY DEF NoData, Data
  <2> QED BY <1>0, <1>13, <2>1, <2>2 DEF TypeOK, PutGengineLocked, Goto, pluginVars
<1>14. ASSUME NEW t \in Tags, PutBack(t) PROVE TypeOK'
  <2>1. freeGengines' \in Seq(Tags) /\ additionGengines' \in Seq(Tags)
    <3>1. Append(freeGengines, t) \in Seq(Tags) /\ Append(additionGengines, t) \in Seq(Tags)
      BY <1>0, AppendProperties DEF TypeOK
    <3> QED BY <1>0, <1>14, <3>1 DEF TypeOK, PutBack
  <2> QED BY <1>0, <1>14, <2>1 DEF TypeOK, PutBack, pluginVars
<1>15. ASSUME NEW p \in Plugins, PluginLoader(p) PROVE TypeOK'
  BY <1>0, <1>15 DEF TypeOK, PluginLoader, poolVars
<1>16. CASE PluginAdd
  <2>1. loadNext \in Tags
    BY <1>0, <1>16 DEF TypeOK, PluginAdd, Tags
  <2>2. Add(base[loadNext], {loading}, Host) \in [Names -> Suppliers \cup {NULL}]
    BY <1>0, <2>1 DEF TypeOK, Add, Suppliers
  <2>3. base' \in [Tags -> [Names -> Suppliers \cup {NULL}]]
    BY <1>0, <1>16, <2>2 DEF TypeOK, PluginAdd
  <2>4. loadNext' \in 0 .. poolMaxLen
    BY <1>0, <1>16, <2>1 DEF PluginAdd, Tags
  <2> QED BY <1>0, <1>16, <2>3, <2>4 DEF TypeOK, PluginAdd, poolVars
<1>17. CASE PluginReturn
  BY <1>0, <1>17 DEF TypeOK, PluginReturn, poolVars
<1>18. CASE UNCHANGED vars
  BY <1>0, <1>18 DEF TypeOK, vars, poolVars, pluginVars
<1> QED
  BY <1>1, <1>2, <1>3, <1>4, <1>5, <1>6, <1>7, <1>8, <1>9, <1>10, <1>11, <1>12, <1>13, <1>14,
     <1>15, <1>16, <1>17, <1>18 DEF Next, Acquire, Execute, Release

(* A step that leaves the queues, the lock and the leases alone and moves  *)
(* calls only between program counters of the same kind keeps PoolInv.     *)
LEMMA PoolFrame ==
  ASSUME PoolInv, TypeOK', UNCHANGED <<poolVars, gw>>,
         \A r \in Requests : /\ pc'[r] \in Locking <=> pc[r] \in Locking
                             /\ pc'[r] \in Holding <=> pc[r] \in Holding
                             /\ pc'[r] \in {"popFree", "popAddition"} => pc'[r] = pc[r]
  PROVE  PoolInv'
<1>1. LockHolder' /\ LeaseHolder'
  BY DEF PoolInv, LockHolder, LeaseHolder, poolVars
<1>2. NoEmptyPop'
  BY DEF PoolInv, NoEmptyPop, poolVars
<1>3. EveryWrapperOnce'
  BY DEF PoolInv, EveryWrapperOnce, Pooled, Leased, poolVars
<1> QED BY <1>1, <1>2, <1>3 DEF PoolInv

(* Every step keeps PoolInv.  Only the pops, the hand-over to the returning *)
(* goroutine and its append move a wrapper; getEngineLock makes the pops    *)
(* safe, since nobody else can shrink a slice meanwhile.                    *)
LEMMA PoolStep == PoolInv /\ [Next]_vars => PoolInv'
<1> SUFFICES ASSUME PoolInv, [Next]_vars PROVE PoolInv'
  OBVIOUS
<1> USE PoolLengths, DistinctValues
<1>0. TypeOK /\ LockHolder /\ LeaseHolder /\ NoEmptyPop /\ EveryWrapperOnce /\ TypeOK'
  BY TypeStep DEF PoolInv
<1>1. ASSUME NEW r \in Requests, Call(r) PROVE PoolInv'
  BY <1>0, <1>1, PoolFrame DEF Call, Goto, TypeOK, Locking, Holding
<1>2. ASSUME NEW r \in Requests, Lock(r) PROVE PoolInv'
  <2>1. LockHolder'
    BY <1>0, <1>2 DEF LockHolder, Lock, Goto, TypeOK, Locking
  <2>2. LeaseHolder' /\ NoEmptyPop'
    BY <1>0, <1>2 DEF LeaseHolder, NoEmptyPop, Lock, Goto, TypeOK, Holding
  <2>3. EveryWrapperOnce'
    BY <1>0, <1>2 DEF EveryWrapperOnce, Pooled, Leased, Lock
  <2> QED BY <1>0, <2>1, <2>2, <2>3 DEF PoolInv
<1>3. ASSUME NEW r \in Requests, CheckFree(r) PROVE PoolInv'
  <2>1. LockHolder' /\ LeaseHolder'
    BY <1>0, <1>3 DEF LockHolder, LeaseHolder, CheckFree, Goto, TypeOK, Locking, Holding, poolVars
  <2>2. NoEmptyPop'
    BY <1>0, <1>3 DEF NoEmptyPop, CheckFree, Goto, TypeOK, poolVars
  <2>3. EveryWrapperOnce'
    BY <1>0, <1>3 DEF EveryWrapperOnce, Pooled, Leased, CheckFree, poolVars
  <2> QED BY <1>0, <2>1, <2>2, <2>3 DEF PoolInv
<1>4. ASSUME NEW r \in Requests, PopFree(r) PROVE PoolInv'
  <2> DEFINE t == Head(freeGengines)
  <2>1. /\ t \in Tags /\ t \in Range(freeGengines)
        /\ Range(freeGengines') = Range(freeGengines) \ {t}
        /\ IsInjective(freeGengines')
    BY <1>0, <1>4, PopFacts DEF TypeOK, PopFree, Goto, NoEmptyPop, EveryWrapperOnce
  <2>2. LockHolder'
    BY <1>0, <1>4 DEF LockHolder, PopFree, Goto, TypeOK, Locking
  <2>3. LeaseHolder'
    BY <1>0, <1>4, <2>1 DEF LeaseHolder, PopFree, Goto, TypeOK, Holding, Tags
  <2>4. NoEmptyPop'
    BY <1>0, <1>4 DEF NoEmptyPop, LockHolder, PopFree, Goto, TypeOK, Locking
  <2>5. gw[r] = NULL /\ gw' = [gw EXCEPT ![r] = t]
    BY <1>0, <1>4 DEF LeaseHolder, PopFree, Goto, Holding
  <2>6. Leased' = Leased \cup {t}
    <3>1. ASSUME NEW q \in Requests, q # r PROVE gw'[q] = gw[q]
      BY <1>0, <2>5, <3>1 DEF TypeOK
    <3>2. gw'[r] = t /\ t # NULL
      BY <1>0, <2>1, <2>5 DEF TypeOK, Tags
    <3> QED BY <2>5, <3>1, <3>2 DEF Leased
  <2> HIDE DEF t
  <2>7. t \notin Range(additionGengines)
    BY <1>0, <2>1 DEF EveryWrapperOnce, addition
  <2>8. Pooled' = Pooled \ {t}
    BY <1>4, <2>1, <2>7 DEF Pooled, PopFree
  <2>9. t \in Pooled
    BY <2>1 DEF Pooled
  <2>10. \A q, s \in Requests : gw'[q] = gw'[s] /\ gw'[q] # NULL => q = s
    <3>1. \A q \in Requests : gw[q] # t
      BY <1>0, <2>1, <2>9 DEF EveryWrapperOnce, Leased, Tags
    <3> QED BY <1>0, <2>5, <3>1 DEF EveryWrapperOnce, TypeOK
  <2>11. EveryWrapperOnce'
    BY <1>0, <1>4, <2>1, <2>6, <2>8, <2>9, <2>10 DEF EveryWrapperOnce, PopFree
  <2> QED BY <1>0, <2>2, <2>3, <2>4, <2>11 DEF PoolInv
<1>5. ASSUME NEW r \in Requests, CheckAddition(r) PROVE PoolInv'
  <2>1. LockHolder' /\ LeaseHolder'
    BY <1>0, <1>5 DEF LockHolder, LeaseHolder, CheckAddition, Goto, TypeOK, Locking, Holding
  <2>2. NoEmptyPop'
    BY <1>0, <1>5 DEF NoEmptyPop, CheckAddition, Goto, TypeOK
  <2>3. EveryWrapperOnce'
    BY <1>0, <1>5 DEF EveryWrapperOnce, Pooled, Leased, CheckAddition
  <2> QED BY <1>0, <2>1, <2>2, <2>3 DEF PoolInv
<1>6. ASSUME NEW r \in Requests, PopAddition(r) PROVE PoolInv'
  <2> DEFINE t == Head(additionGengines)
  <2>1. /\ t \in Tags /\ t \in Range(additionGengines)
        /\ Range(additionGengines') = Range(additionGengines) \ {t}
        /\ IsInjective(additionGengines')
    BY <1>0, <1>6, PopFacts DEF TypeOK, PopAddition, Goto, NoEmptyPop, EveryWrapperOnce
  <2>2. LockHolder'
    BY <1>0, <1>6 DEF LockHolder, PopAddition, Goto, TypeOK, Locking
  <2>3. LeaseHolder'
    BY <1>0, <1>6, <2>1 DEF LeaseHolder, PopAddition, Goto, TypeOK, Holding, Tags
  <2>4. NoEmptyPop'
    BY <1>0, <1>6 DEF NoEmptyPop, LockHolder, PopAddition, Goto, TypeOK, Locking
  <2>5. gw[r] = NULL /\ gw' = [gw EXCEPT ![r] = t]
    BY <1>0, <1>6 DEF LeaseHolder, PopAddition, Goto, Holding
  <2>6. Leased' = Leased \cup {t}
    <3>1. ASSUME NEW q \in Requests, q # r PROVE gw'[q] = gw[q]
      BY <1>0, <2>5, <3>1 DEF TypeOK
    <3>2. gw'[r] = t /\ t # NULL
      BY <1>0, <2>1, <2>5 DEF TypeOK, Tags
    <3> QED BY <2>5, <3>1, <3>2 DEF Leased
  <2> HIDE DEF t
  <2>7. t \notin Range(freeGengines)
    BY <1>0, <2>1 DEF EveryWrapperOnce, addition
  <2>8. Pooled' = Pooled \ {t}
    BY <1>6, <2>1, <2>7 DEF Pooled, PopAddition
  <2>9. t \in Pooled
    BY <2>1 DEF Pooled
  <2>10. \A q, s \in Requests : gw'[q] = gw'[s] /\ gw'[q] # NULL => q = s
    <3>1. \A q \in Requests : gw[q] # t
      BY <1>0, <2>1, <2>9 DEF EveryWrapperOnce, Leased, Tags
    <3> QED BY <1>0, <2>5, <3>1 DEF EveryWrapperOnce, TypeOK
  <2>11. EveryWrapperOnce'
    BY <1>0, <1>6, <2>1, <2>6, <2>8, <2>9, <2>10 DEF EveryWrapperOnce, PopAddition
  <2> QED BY <1>0, <2>2, <2>3, <2>4, <2>11 DEF PoolInv
<1>7. ASSUME NEW r \in Requests, Execute(r) \/ AddResult(r) \/ ClearInjected(r) PROVE PoolInv'
  <2>1. UNCHANGED <<poolVars, gw>>
    BY <1>7 DEF Execute, Prepare, StartExecute, GetRulesResultMap, Panic, AddResult, ClearInjected
  <2>2. \/ UNCHANGED pc
        \/ \E p, q \in Holding : pc[r] = p /\ pc' = [pc EXCEPT ![r] = q]
    BY <1>7 DEF Execute, Prepare, StartExecute, GetRulesResultMap, Panic, AddResult, ClearInjected,
                Goto, Holding
  <2>3. \A q \in Requests : /\ pc'[q] \in Locking <=> pc[q] \in Locking
                            /\ pc'[q] \in Holding <=> pc[q] \in Holding
                            /\ pc'[q] \in {"popFree", "popAddition"} => pc'[q] = pc[q]
    BY <1>0, <2>2 DEF TypeOK, Locking, Holding
  <2> QED BY <1>0, <2>1, <2>3, PoolFrame
<1>8. ASSUME NEW r \in Requests, PutGengineLocked(r) PROVE PoolInv'
  <2> DEFINE t == gw[r]
  <2>1. t \in Tags /\ t # NULL /\ gw' = [gw EXCEPT ![r] = NULL] /\ returning' = returning \cup {t}
    BY <1>0, <1>8 DEF TypeOK, LeaseHolder, PutGengineLocked, Goto, Holding
  <2>2. LockHolder' /\ LeaseHolder'
    BY <1>0, <1>8 DEF LockHolder, LeaseHolder, PutGengineLocked, Goto, TypeOK, Locking, Holding
  <2>3. NoEmptyPop'
    BY <1>0, <1>8 DEF NoEmptyPop, PutGengineLocked, Goto, TypeOK
  <2>4. Pooled' = Pooled
    BY <1>8 DEF Pooled, PutGengineLocked
  <2>5. Leased' = Leased \ {t}
    <3>1. \A q \in Requests : gw'[q] = IF q = r THEN NULL ELSE gw[q]
      BY <1>0, <2>1 DEF TypeOK
    <3>2. \A q \in Requests : q # r => gw[q] # t
      BY <1>0, <2>1 DEF EveryWrapperOnce
    <3> QED BY <2>1, <3>1, <3>2 DEF Leased
  <2>6. t \in Leased
    BY <2>1 DEF Leased
  <2>7. \A q, s \in Requests : gw'[q] = gw'[s] /\ gw'[q] # NULL => q = s
    BY <1>0, <2>1 DEF EveryWrapperOnce, TypeOK
  <2>8. UNCHANGED <<freeGengines, additionGengines>>
    BY <1>8 DEF PutGengineLocked
  <2> HIDE DEF t
  <2>9. EveryWrapperOnce'
    BY <1>0, <2>1, <2>4, <2>5, <2>6, <2>7, <2>8 DEF EveryWrapperOnce
  <2> QED BY <1>0, <2>2, <2>3, <2>9 DEF PoolInv
<1>9. ASSUME NEW t \in Tags, PutBack(t) PROVE PoolInv'
  <2>1. LockHolder' /\ LeaseHolder'
    BY <1>0, <1>9 DEF LockHolder, LeaseHolder, PutBack
  <2>2. t \notin Range(freeGengines) /\ t \notin Range(additionGengines) /\ t \notin Leased
    BY <1>0, <1>9 DEF EveryWrapperOnce, Pooled, PutBack
  <2>3. Leased' = Leased /\ returning' = returning \ {t}
        /\ \A q, s \in Requests : gw'[q] = gw'[s] /\ gw'[q] # NULL => q = s
    BY <1>0, <1>9 DEF Leased, PutBack, EveryWrapperOnce
  <2>4. /\ IsInjective(freeGengines') /\ IsInjective(additionGengines')
        /\ Range(freeGengines') = Range(freeGengines) \cup (IF addition(t) THEN {} ELSE {t})
        /\ Range(additionGengines') = Range(additionGengines) \cup (IF addition(t) THEN {t} ELSE {})
        /\ Len(freeGengines) > 0 => Len(freeGengines') > 0
        /\ Len(additionGengines) > 0 => Len(additionGengines') > 0
    <3> DEFINE a == Append(additionGengines, t)
               f == Append(freeGengines, t)
    <3>0. /\ Range(a) = Range(additionGengines) \cup {t} /\ IsInjective(a) /\ Len(a) > 0
          /\ Range(f) = Range(freeGengines) \cup {t} /\ IsInjective(f) /\ Len(f) > 0
          /\ IsInjective(freeGengines) /\ IsInjective(additionGengines)
      BY <1>0, <2>2, AppendFacts DEF TypeOK, EveryWrapperOnce
    <3> HIDE DEF a, f
    <3>1. CASE addition(t)
      <4>1. additionGengines' = a /\ freeGengines' = freeGengines
        BY <1>9, <3>1 DEF PutBack, a
      <4> QED BY <3>0, <3>1, <4>1
    <3>2. CASE ~addition(t)
      <4>1. freeGengines' = f /\ additionGengines' = additionGengines
        BY <1>9, <3>2 DEF PutBack, f
      <4> QED BY <3>0, <3>2, <4>1
    <3> QED BY <3>1, <3>2
  <2>5. NoEmptyPop'
    BY <1>0, <1>9, <2>4 DEF NoEmptyPop, PutBack
  <2>6. Pooled' = Pooled \cup {t}
    BY <2>4 DEF Pooled
  <2>7. t \in returning
    BY <1>9 DEF PutBack
  <2>8. /\ \A u \in Range(freeGengines') : ~addition(u)
        /\ \A u \in Range(additionGengines') : addition(u)
    BY <1>0, <2>4 DEF EveryWrapperOnce
  <2>9. EveryWrapperOnce'
    BY <1>0, <2>2, <2>3, <2>4, <2>6, <2>7, <2>8 DEF EveryWrapperOnce, addition
  <2> QED BY <1>0, <2>1, <2>5, <2>9 DEF PoolInv
<1>10. CASE (\E p \in Plugins : PluginLoader(p)) \/ PluginAdd \/ PluginReturn
  BY <1>0, <1>10, PoolFrame DEF PluginLoader, PluginAdd, PluginReturn
<1>11. CASE UNCHANGED vars
  BY <1>0, <1>11, PoolFrame DEF vars
<1> QED
  BY <1>1, <1>2, <1>3, <1>4, <1>5, <1>6, <1>7, <1>8, <1>9, <1>10, <1>11 DEF Next, Acquire, Release

(* The invariant of the pool holds in every reachable state. *)
THEOREM PoolInvariant == Safety => []PoolInv
<1>1. Init => PoolInv
  BY InitPoolInv
<1>2. PoolInv /\ [Next]_vars => PoolInv'
  BY PoolStep
<1> QED BY <1>1, <1>2, PTL DEF Safety

(* Type correctness of the pool, for any calls and any lengths. *)
THEOREM TypeCorrect == Safety => []TypeOK
BY PoolInvariant, PTL DEF PoolInv

(* Conservation: however calls, panics and asynchronous returns            *)
(* interleave, each wrapper is in exactly one place.                       *)
THEOREM WrappersConserved == Safety => []EveryWrapperOnce
BY PoolInvariant, PTL DEF PoolInv

(* The unguarded length reads of getGengine are safe: [0] never panics.    *)
THEOREM NoPopOfEmptySlice == Safety => []NoEmptyPop
BY PoolInvariant, PTL DEF PoolInv

-----------------------------------------------------------------------------
(* Every step of the pool is a step of the abstract lease or leaves it     *)
(* unchanged: a pop grants the instance, which no call holds, and the      *)
(* hand-over to the returning goroutine gives it back.                     *)
LEMMA LeaseStep == PoolInv /\ [Next]_vars => [Lease!Next]_(Lease!vars)
<1> SUFFICES ASSUME PoolInv, [Next]_vars PROVE [Lease!Next]_(Lease!vars)
  OBVIOUS
<1> USE DistinctValues
<1>0. TypeOK /\ LeaseHolder /\ NoEmptyPop /\ EveryWrapperOnce
  BY DEF PoolInv
<1>1. ASSUME NEW r \in Requests, Call(r) PROVE Lease!Arrive(r)
  <2>1. stage[r] = "none" /\ stage' = [stage EXCEPT ![r] = "waiting"]
    BY <1>0, <1>1 DEF stage, Call, Goto, TypeOK, Holding
  <2> QED BY <1>1, <2>1 DEF Lease!Arrive, Call
<1>2. ASSUME NEW r \in Requests, Lock(r) \/ CheckFree(r) \/ CheckAddition(r) PROVE UNCHANGED Lease!vars
  <2>1. \E p, q \in Locking \cup {"lock"} : pc[r] = p /\ pc' = [pc EXCEPT ![r] = q]
    BY <1>2 DEF Lock, CheckFree, CheckAddition, Goto, Locking
  <2>2. UNCHANGED stage
    BY <1>0, <2>1 DEF stage, TypeOK, Locking, Holding
  <2> QED BY <1>2, <2>2 DEF Lease!vars, Lock, CheckFree, CheckAddition
<1>3. ASSUME NEW r \in Requests, NEW t \in Tags, t \in Pooled, PopFree(r) \/ PopAddition(r),
             gw' = [gw EXCEPT ![r] = t]
      PROVE  Lease!Grant(r, t)
  <2>1. stage[r] = "waiting" /\ stage' = [stage EXCEPT ![r] = "served"]
    BY <1>0, <1>3 DEF stage, PopFree, PopAddition, Goto, TypeOK, Holding
  <2>2. \A q \in Requests : gw[q] # t
    BY <1>0, <1>3 DEF EveryWrapperOnce, Leased, TypeOK, Tags
  <2> QED BY <1>3, <2>1, <2>2 DEF Lease!Grant
<1>4. ASSUME NEW r \in Requests, PopFree(r) PROVE \E t \in Tags : Lease!Grant(r, t)
  <2>1. Head(freeGengines) \in Tags /\ Head(freeGengines) \in Pooled
    BY <1>0, <1>4, PopFacts DEF TypeOK, PopFree, Goto, NoEmptyPop, EveryWrapperOnce, Pooled
  <2> QED BY <1>3, <1>4, <2>1 DEF PopFree
<1>5. ASSUME NEW r \in Requests, PopAddition(r) PROVE \E t \in Tags : Lease!Grant(r, t)
  <2>1. Head(additionGengines) \in Tags /\ Head(additionGengines) \in Pooled
    BY <1>0, <1>5, PopFacts DEF TypeOK, PopAddition, Goto, NoEmptyPop, EveryWrapperOnce, Pooled
  <2> QED BY <1>3, <1>5, <2>1 DEF PopAddition
<1>6. ASSUME NEW r \in Requests, Execute(r) \/ AddResult(r) \/ ClearInjected(r)
      PROVE  UNCHANGED Lease!vars
  <2>1. \/ UNCHANGED pc
        \/ \E p, q \in Holding : pc[r] = p /\ pc' = [pc EXCEPT ![r] = q]
    BY <1>6 DEF Execute, Prepare, StartExecute, GetRulesResultMap, Panic, AddResult, ClearInjected,
                Goto, Holding
  <2>2. UNCHANGED stage
    BY <1>0, <2>1 DEF stage, TypeOK, Holding
  <2> QED BY <1>6, <2>2 DEF Lease!vars, Execute, Prepare, StartExecute, GetRulesResultMap, Panic,
                            AddResult, ClearInjected
<1>7. ASSUME NEW r \in Requests, PutGengineLocked(r) PROVE Lease!GiveBack(r)
  <2>1. stage[r] = "served" /\ stage' = [stage EXCEPT ![r] = "done"]
    BY <1>0, <1>7 DEF stage, PutGengineLocked, Goto, TypeOK, Holding
  <2> QED BY <1>7, <2>1 DEF Lease!GiveBack, PutGengineLocked
<1>8. CASE \/ \E t \in Tags : PutBack(t)
           \/ (\E p \in Plugins : PluginLoader(p)) \/ PluginAdd \/ PluginReturn
           \/ UNCHANGED vars
  <2>1. UNCHANGED <<pc, gw>>
    BY <1>8 DEF PutBack, PluginLoader, PluginAdd, PluginReturn, vars
  <2>2. UNCHANGED stage
    BY <2>1 DEF stage
  <2> QED BY <2>1, <2>2 DEF Lease!vars
<1> QED
  BY <1>1, <1>2, <1>4, <1>5, <1>6, <1>7, <1>8 DEF Next, Acquire, Release, Lease!Next

(* The pool implements the abstract lease: exclusive use of an instance,   *)
(* from its grant to the end of the call.                                  *)
THEOREM LeaseImplemented == Safety => Lease!Safety
<1>1. ASSUME Init PROVE Lease!Init
  <2>1. \A r \in Requests : stage[r] = "none"
    BY <1>1 DEF Init, stage, Holding
  <2>2. stage = [r \in Requests |-> stage[r]]
    BY DEF stage
  <2>3. gw = [r \in Requests |-> NULL]
    BY <1>1 DEF Init
  <2> HIDE DEF stage
  <2> QED BY <2>1, <2>2, <2>3 DEF Lease!Init
<1>2. PoolInv /\ [Next]_vars => [Lease!Next]_(Lease!vars)
  BY LeaseStep
<1> QED BY <1>1, <1>2, PoolInvariant, PTL DEF Safety, Lease!Safety

-----------------------------------------------------------------------------
(* Calls that share an instance one after the other do not see each        *)
(* other's data or results.                                                *)

(* A value some call supplied is bound on the instance that call holds,    *)
(* under one of its own keys, and only between Prepare and ClearInjected.  *)
BindingsOfHolders ==
  \A t \in Tags, n \in Names, r \in Requests : base[t][n] = r =>
    gw[r] = t /\ pc[r] \in {"reset", "running", "clear"} /\ n \in data[r].keys

(* While rules run, the engine's result map holds results of this call.    *)
ResultsOfHolders ==
  \A r \in Requests : pc[r] = "running" => returnResult[gw[r]] \subseteq {r, Host}

DataInv == BindingsOfHolders /\ ResultsOfHolders /\ ResultsAreOwn

LEMMA InitDataInv == Init => DataInv
<1> SUFFICES ASSUME Init PROVE DataInv
  OBVIOUS
<1> USE DistinctValues
<1>1. BindingsOfHolders
  <2>1. \A t \in Tags, n \in Names : base[t][n] \in {Host, NULL}
    BY DEF Init
  <2> QED BY <2>1 DEF BindingsOfHolders
<1>2. ResultsOfHolders /\ ResultsAreOwn
  BY DEF Init, ResultsOfHolders, ResultsAreOwn
<1> QED BY <1>1, <1>2 DEF DataInv

(* What a wrapper holder may assume of its instance: it is nobody else's.  *)
LEMMA HolderFacts ==
  ASSUME PoolInv, NEW r \in Requests, pc[r] \in Holding
  PROVE  gw[r] \in Tags /\ \A q \in Requests : gw[q] = gw[r] => q = r
BY DistinctValues DEF PoolInv, TypeOK, LeaseHolder, EveryWrapperOnce

LEMMA DataStep == PoolInv /\ DataInv /\ [Next]_vars => DataInv'
<1> SUFFICES ASSUME PoolInv, DataInv, [Next]_vars PROVE DataInv'
  OBVIOUS
<1> USE DistinctValues
<1>0. TypeOK /\ LeaseHolder /\ BindingsOfHolders /\ ResultsOfHolders /\ ResultsAreOwn
  BY DEF PoolInv, DataInv
<1>1. ASSUME NEW r \in Requests, Call(r) \/ Acquire(r) PROVE DataInv'
  <2>1. pc[r] \notin {"reset", "running", "clear"} /\ UNCHANGED <<base, returnResult, result>>
    BY <1>1 DEF Call, Acquire, Lock, CheckFree, PopFree, CheckAddition, PopAddition, Goto
  <2>2. \A q \in Requests : q # r => gw'[q] = gw[q] /\ pc'[q] = pc[q] /\ data'[q] = data[q]
    <3>1. PICK d : data' = [data EXCEPT ![r] = d]
      BY <1>0, <1>1 DEF Call, Acquire, Lock, CheckFree, PopFree, CheckAddition, PopAddition, TypeOK
    <3>2. PICK g : gw' = [gw EXCEPT ![r] = g]
      BY <1>0, <1>1 DEF Call, Acquire, Lock, CheckFree, PopFree, CheckAddition, PopAddition, TypeOK
    <3>3. PICK p \in Pcs \ {"running"} : pc' = [pc EXCEPT ![r] = p]
      BY <1>1 DEF Call, Acquire, Lock, CheckFree, PopFree, CheckAddition, PopAddition, Goto,
                  Pcs, Locking, Holding
    <3> QED BY <1>0, <3>1, <3>2, <3>3 DEF TypeOK
  <2>3. pc'[r] # "running"
    BY <1>0, <1>1 DEF Call, Acquire, Lock, CheckFree, PopFree, CheckAddition, PopAddition, Goto, TypeOK
  <2>4. BindingsOfHolders'
    BY <1>0, <2>1, <2>2 DEF BindingsOfHolders
  <2>5. ResultsOfHolders' /\ ResultsAreOwn'
    BY <1>0, <2>1, <2>2, <2>3 DEF ResultsOfHolders, ResultsAreOwn
  <2> QED BY <2>4, <2>5 DEF DataInv
<1>2. ASSUME NEW r \in Requests, Prepare(r) PROVE DataInv'
  <2>1. gw[r] \in Tags /\ pc[r] = "bind" /\ pc' = [pc EXCEPT ![r] = "reset"]
        /\ UNCHANGED <<gw, data, returnResult, result>>
    BY <1>2, HolderFacts DEF Prepare, Goto, Holding
  <2>2. \A t \in Tags, n \in Names : base'[t][n] = base[t][n] \/
           (t = gw[r] /\ n \in data[r].keys /\ base'[t][n] = r)
    BY <1>0, <1>2, <2>1 DEF Prepare, Add, TypeOK
  <2>3. BindingsOfHolders'
    <3> SUFFICES ASSUME NEW t \in Tags, NEW n \in Names, NEW q \in Requests, base'[t][n] = q
                 PROVE  gw[q] = t /\ pc'[q] \in {"reset", "running", "clear"} /\ n \in data[q].keys
      BY <2>1 DEF BindingsOfHolders
    <3>1. CASE base[t][n] = q
      <4>1. gw[q] = t /\ pc[q] \in {"reset", "running", "clear"} /\ n \in data[q].keys
        BY <1>0, <3>1 DEF BindingsOfHolders
      <4> QED BY <1>0, <2>1, <4>1 DEF TypeOK
    <3>2. CASE t = gw[r] /\ n \in data[r].keys /\ q = r
      BY <1>0, <2>1, <3>2 DEF TypeOK
    <3> QED BY <2>2, <3>1, <3>2
  <2>4. ResultsOfHolders' /\ ResultsAreOwn'
    BY <1>0, <2>1 DEF ResultsOfHolders, ResultsAreOwn, TypeOK
  <2> QED BY <2>3, <2>4 DEF DataInv
<1>3. ASSUME NEW r \in Requests, StartExecute(r) PROVE DataInv'
  <2>1. gw[r] \in Tags /\ pc[r] = "reset" /\ pc' = [pc EXCEPT ![r] = "running"]
        /\ returnResult' = [returnResult EXCEPT ![gw[r]] = {}]
        /\ UNCHANGED <<gw, data, base, result>>
    BY <1>3, HolderFacts DEF StartExecute, Goto, Holding
  <2>2. BindingsOfHolders' /\ ResultsAreOwn'
    BY <1>0, <2>1 DEF BindingsOfHolders, ResultsAreOwn, TypeOK
  <2>3. ResultsOfHolders'
    BY <1>0, <2>1 DEF ResultsOfHolders, TypeOK, LeaseHolder, Holding
  <2> QED BY <2>2, <2>3 DEF DataInv
<1>4. ASSUME NEW r \in Requests, AddResult(r) PROVE DataInv'
  <2>1. gw[r] \in Tags /\ (\A q \in Requests : gw[q] = gw[r] => q = r) /\ pc[r] = "running"
        /\ UNCHANGED <<gw, data, base, result, pc>>
    BY <1>4, HolderFacts DEF AddResult, Holding
  <2>2. PICK v \in Range(base[gw[r]]) \cap Suppliers :
           returnResult' = [returnResult EXCEPT ![gw[r]] = @ \cup {v}]
    BY <1>4 DEF AddResult
  <2>3. v \in {r, Host}
    <3>1. PICK n \in Names : v = base[gw[r]][n]
      BY <1>0, <2>1, <2>2 DEF Range, TypeOK
    <3> QED BY <1>0, <2>1, <2>2, <3>1 DEF BindingsOfHolders, Suppliers
  <2>4. ResultsOfHolders'
    BY <1>0, <2>1, <2>2, <2>3 DEF ResultsOfHolders, TypeOK
  <2>5. BindingsOfHolders' /\ ResultsAreOwn'
    BY <1>0, <2>1 DEF BindingsOfHolders, ResultsAreOwn
  <2> QED BY <2>4, <2>5 DEF DataInv
<1>5. ASSUME NEW r \in Requests, GetRulesResultMap(r) \/ Panic(r) PROVE DataInv'
  <2>1. pc[r] = "running" /\ pc' = [pc EXCEPT ![r] = "clear"]
        /\ UNCHANGED <<gw, data, base, returnResult>>
        /\ (UNCHANGED result \/ result' = [result EXCEPT ![r] = returnResult[gw[r]]])
    BY <1>5 DEF GetRulesResultMap, Panic, Goto
  <2>2. BindingsOfHolders' /\ ResultsOfHolders'
    BY <1>0, <2>1 DEF BindingsOfHolders, ResultsOfHolders, TypeOK
  <2>3. ResultsAreOwn'
    BY <1>0, <2>1 DEF ResultsOfHolders, ResultsAreOwn, TypeOK
  <2> QED BY <2>2, <2>3 DEF DataInv
<1>6. ASSUME NEW r \in Requests, ClearInjected(r) PROVE DataInv'
  <2>1. gw[r] \in Tags /\ pc[r] = "clear" /\ pc' = [pc EXCEPT ![r] = "put"]
        /\ UNCHANGED <<gw, data, returnResult, result>>
    BY <1>6, HolderFacts DEF ClearInjected, Goto, Holding
  <2>2. \A t \in Tags, n \in Names :
           base'[t][n] = IF t = gw[r] /\ n \in data[r].keys THEN NULL ELSE base[t][n]
    BY <1>0, <1>6, <2>1 DEF ClearInjected, Del, TypeOK
  <2>3. BindingsOfHolders'
    <3> SUFFICES ASSUME NEW t \in Tags, NEW n \in Names, NEW q \in Requests, base'[t][n] = q
                 PROVE  gw[q] = t /\ pc'[q] \in {"reset", "running", "clear"} /\ n \in data[q].keys
      BY <2>1 DEF BindingsOfHolders
    <3>1. base[t][n] = q /\ ~(t = gw[r] /\ n \in data[r].keys)
      BY <2>2
    <3>2. gw[q] = t /\ pc[q] \in {"reset", "running", "clear"} /\ n \in data[q].keys
      BY <1>0, <3>1 DEF BindingsOfHolders
    <3>3. q # r
      BY <3>1, <3>2
    <3> QED BY <1>0, <2>1, <3>2, <3>3 DEF TypeOK
  <2>4. ResultsOfHolders' /\ ResultsAreOwn'
    BY <1>0, <2>1 DEF ResultsOfHolders, ResultsAreOwn, TypeOK
  <2> QED BY <2>3, <2>4 DEF DataInv
<1>7. ASSUME NEW r \in Requests, PutGengineLocked(r) PROVE DataInv'
  <2>1. pc[r] = "put" /\ UNCHANGED <<base, returnResult, result>>
        /\ pc' = [pc EXCEPT ![r] = "done"] /\ gw' = [gw EXCEPT ![r] = NULL]
        /\ data' = [data EXCEPT ![r] = NoData]
    BY <1>7 DEF PutGengineLocked, Goto
  <2>2. BindingsOfHolders' /\ ResultsOfHolders' /\ ResultsAreOwn'
    BY <1>0, <2>1 DEF BindingsOfHolders, ResultsOfHolders, ResultsAreOwn, TypeOK
  <2> QED BY <2>2 DEF DataInv
<1>8. CASE PluginAdd
  <2>1. loadNext \in Tags /\ UNCHANGED <<gw, pc, data, returnResult, result>>
    BY <1>0, <1>8, PoolLengths DEF PluginAdd, TypeOK, Tags
  <2>2. \A t \in Tags, n \in Names : base'[t][n] = base[t][n] \/ base'[t][n] = Host
    BY <1>0, <1>8, <2>1 DEF PluginAdd, Add, TypeOK
  <2>3. BindingsOfHolders'
    BY <1>0, <2>1, <2>2 DEF BindingsOfHolders
  <2>4. ResultsOfHolders' /\ ResultsAreOwn'
    BY <1>0, <2>1 DEF ResultsOfHolders, ResultsAreOwn
  <2> QED BY <2>3, <2>4 DEF DataInv
<1>9. CASE \/ \E t \in Tags : PutBack(t)
           \/ (\E p \in Plugins : PluginLoader(p)) \/ PluginReturn
           \/ UNCHANGED vars
  <2>1. UNCHANGED <<gw, pc, data, base, returnResult, result>>
    BY <1>9 DEF PutBack, PluginLoader, PluginReturn, vars
  <2> QED BY <1>0, <2>1 DEF DataInv, BindingsOfHolders, ResultsOfHolders, ResultsAreOwn
<1> QED
  BY <1>1, <1>2, <1>3, <1>4, <1>5, <1>6, <1>7, <1>8, <1>9 DEF Next, Execute, Release

THEOREM DataInvariant == Safety => []DataInv
<1>1. Init => DataInv
  BY InitDataInv
<1>2. PoolInv /\ DataInv /\ [Next]_vars => DataInv'
  BY DataStep
<1> QED BY <1>1, <1>2, PoolInvariant, PTL DEF Safety

(* No call is ever returned a value another call supplied.                 *)
THEOREM ResultsIsolated == Safety => []ResultsAreOwn
BY DataInvariant, PTL DEF DataInv

-----------------------------------------------------------------------------
(* With callers' names apart from the host's, what is bound under a key is *)
(* exact: the apis and loaded plugins stay, and so does a call's own data  *)
(* while its rules run.                                                    *)
HostBindings ==
  \A t \in Tags :
    /\ \A n \in ApiNames : base[t][n] = Host
    /\ \A n \in Names : base[t][n] = Host => n \in HostNames
    /\ \A p \in Plugins : p \in loaded \/ (p = loading /\ t < loadNext) => base[t][p] = Host

OwnBindings ==
  \A r \in Requests : pc[r] \in {"reset", "running"} =>
    \A n \in data[r].keys \ data[r].nils : base[gw[r]][n] = r

NamesInv == HostBindings /\ OwnBindings

LEMMA InitNamesInv == Init => NamesInv
<1> SUFFICES ASSUME Init PROVE NamesInv
  OBVIOUS
<1>1. HostBindings
  BY DistinctValues DEF Init, HostBindings, Names, HostNames, Tags
<1>2. OwnBindings
  BY DEF Init, OwnBindings
<1> QED BY <1>1, <1>2 DEF NamesInv

LEMMA NamesStep ==
  ASSUME DataNames \cap HostNames = {}, PoolInv, NamesInv, [Next]_vars
  PROVE  NamesInv'
<1> USE DistinctValues DEF Names, HostNames
<1>0. TypeOK /\ HostBindings /\ OwnBindings
      /\ \A r \in Requests : data[r].keys \subseteq DataNames
  BY DEF PoolInv, NamesInv, TypeOK, Data
<1>1. ASSUME NEW r \in Requests, Call(r) \/ Acquire(r) \/ PutGengineLocked(r) PROVE NamesInv'
  <2>1. UNCHANGED <<base, loading, loadNext, loaded>>
    BY <1>1 DEF Call, Acquire, Lock, CheckFree, PopFree, CheckAddition, PopAddition,
                PutGengineLocked, pluginVars
  <2>2. \A q \in Requests : q # r => gw'[q] = gw[q] /\ pc'[q] = pc[q] /\ data'[q] = data[q]
    <3>1. PICK d : data' = [data EXCEPT ![r] = d]
      BY <1>0, <1>1 DEF Call, Acquire, Lock, CheckFree, PopFree, CheckAddition, PopAddition,
                        PutGengineLocked, TypeOK
    <3>2. PICK g : gw' = [gw EXCEPT ![r] = g]
      BY <1>0, <1>1 DEF Call, Acquire, Lock, CheckFree, PopFree, CheckAddition, PopAddition,
                        PutGengineLocked, TypeOK
    <3>3. PICK p : pc' = [pc EXCEPT ![r] = p]
      BY <1>1 DEF Call, Acquire, Lock, CheckFree, PopFree, CheckAddition, PopAddition,
                  PutGengineLocked, Goto
    <3> QED BY <1>0, <3>1, <3>2, <3>3 DEF TypeOK
  <2>3. pc'[r] \notin {"reset", "running"}
    BY <1>0, <1>1 DEF Call, Acquire, Lock, CheckFree, PopFree, CheckAddition, PopAddition,
                      PutGengineLocked, Goto, TypeOK
  <2>4. HostBindings'
    BY <1>0, <2>1 DEF HostBindings
  <2>5. OwnBindings'
    BY <1>0, <2>1, <2>2, <2>3 DEF OwnBindings
  <2> QED BY <2>4, <2>5 DEF NamesInv
<1>2. ASSUME NEW r \in Requests, Prepare(r) PROVE NamesInv'
  <2>1. /\ gw[r] \in Tags /\ \A q \in Requests : gw[q] = gw[r] => q = r
        /\ pc[r] = "bind" /\ pc' = [pc EXCEPT ![r] = "reset"]
        /\ UNCHANGED <<gw, data, loading, loadNext, loaded>>
    BY <1>2, HolderFacts DEF Prepare, Goto, Holding, pluginVars
  <2>2. \A t \in Tags, n \in Names :
          base'[t][n] = IF t = gw[r] /\ n \in data[r].keys \ data[r].nils THEN r ELSE base[t][n]
    BY <1>0, <1>2, <2>1 DEF Prepare, Add, TypeOK
  <2>3. HostBindings'
    <3>1. \A n \in ApiNames \cup Plugins : n \notin data[r].keys
      BY <1>0
    <3> QED BY <1>0, <2>1, <2>2, <3>1 DEF HostBindings
  <2>4. OwnBindings'
    <3> SUFFICES ASSUME NEW q \in Requests, pc'[q] \in {"reset", "running"},
                        NEW n \in data[q].keys \ data[q].nils
                 PROVE  base'[gw[q]][n] = q
      BY <2>1 DEF OwnBindings
    <3>1. CASE q = r
      BY <1>0, <2>1, <2>2, <3>1 DEF TypeOK
    <3>2. CASE q # r
      <4>1. pc[q] \in {"reset", "running"} /\ gw[q] # gw[r]
        BY <1>0, <2>1, <3>2 DEF TypeOK
      <4>2. gw[q] \in Tags /\ n \in Names
        BY <1>0, <4>1, HolderFacts DEF Holding
      <4> QED BY <1>0, <2>2, <4>1, <4>2 DEF OwnBindings
    <3> QED BY <3>1, <3>2
  <2> QED BY <2>3, <2>4 DEF NamesInv
<1>3. ASSUME NEW r \in Requests, Execute(r) \/ AddResult(r), ~Prepare(r) PROVE NamesInv'
  <2>1. UNCHANGED <<base, gw, data, loading, loadNext, loaded>>
    BY <1>3 DEF Execute, StartExecute, GetRulesResultMap, Panic, AddResult, pluginVars
  <2>2. \A q \in Requests : pc'[q] \in {"reset", "running"} => pc[q] \in {"reset", "running"}
    BY <1>0, <1>3 DEF Execute, StartExecute, GetRulesResultMap, Panic, AddResult, Goto, TypeOK
  <2> QED BY <1>0, <2>1, <2>2 DEF NamesInv, HostBindings, OwnBindings
<1>4. ASSUME NEW r \in Requests, ClearInjected(r) PROVE NamesInv'
  <2>1. /\ gw[r] \in Tags /\ \A q \in Requests : gw[q] = gw[r] => q = r
        /\ pc[r] = "clear" /\ pc' = [pc EXCEPT ![r] = "put"]
        /\ UNCHANGED <<gw, data, loading, loadNext, loaded>>
    BY <1>4, HolderFacts DEF ClearInjected, Goto, Holding, pluginVars
  <2>2. \A t \in Tags, n \in Names :
          base'[t][n] = IF t = gw[r] /\ n \in data[r].keys THEN NULL ELSE base[t][n]
    BY <1>0, <1>4, <2>1 DEF ClearInjected, Del, TypeOK
  <2>3. HostBindings'
    <3>1. \A n \in ApiNames \cup Plugins : n \notin data[r].keys
      BY <1>0
    <3> QED BY <1>0, <2>1, <2>2, <3>1 DEF HostBindings
  <2>4. OwnBindings'
    <3> SUFFICES ASSUME NEW q \in Requests, pc'[q] \in {"reset", "running"},
                        NEW n \in data[q].keys \ data[q].nils
                 PROVE  base'[gw[q]][n] = q
      BY <2>1 DEF OwnBindings
    <3>1. q # r /\ pc[q] \in {"reset", "running"}
      BY <1>0, <2>1 DEF TypeOK
    <3>2. gw[q] # gw[r] /\ gw[q] \in Tags /\ n \in Names
      BY <1>0, <2>1, <3>1, HolderFacts DEF Holding
    <3> QED BY <1>0, <2>2, <3>1, <3>2 DEF OwnBindings
  <2> QED BY <2>3, <2>4 DEF NamesInv
<1>5. CASE PluginAdd
  <2>1. loadNext \in Tags /\ loading \in Plugins /\ loadNext' = loadNext + 1
        /\ UNCHANGED <<gw, pc, data, loading, loaded>>
    BY <1>0, <1>5, PoolLengths DEF PluginAdd, TypeOK, Tags
  <2>2. \A t \in Tags, n \in Names :
          base'[t][n] = IF t = loadNext /\ n = loading THEN Host ELSE base[t][n]
    BY <1>0, <1>5, <2>1 DEF PluginAdd, Add, TypeOK
  <2>3. HostBindings'
    BY <1>0, <2>1, <2>2, PoolLengths DEF HostBindings, Tags
  <2>4. OwnBindings'
    <3> SUFFICES ASSUME NEW q \in Requests, pc[q] \in {"reset", "running"},
                        NEW n \in data[q].keys \ data[q].nils
                 PROVE  base'[gw[q]][n] = q
      BY <2>1 DEF OwnBindings
    <3>1. gw[q] \in Tags /\ n \in Names /\ n # loading
      BY <1>0, <2>1, HolderFacts DEF Holding
    <3> QED BY <1>0, <2>2, <3>1 DEF OwnBindings
  <2> QED BY <2>3, <2>4 DEF NamesInv
<1>6. ASSUME NEW p \in Plugins, PluginLoader(p) PROVE NamesInv'
  <2>1. loadNext' = 0 /\ UNCHANGED <<gw, pc, data, base, loaded>>
    BY <1>6 DEF PluginLoader
  <2> QED BY <1>0, <2>1, PoolLengths DEF NamesInv, HostBindings, OwnBindings, Tags
<1>7. CASE PluginReturn
  <2>1. loading' = NULL /\ loaded' = loaded \cup {loading} /\ loadNext = poolMaxLen
        /\ UNCHANGED <<gw, pc, data, base>>
    BY <1>7 DEF PluginReturn
  <2> QED BY <1>0, <2>1, PoolLengths DEF NamesInv, HostBindings, OwnBindings, Tags
<1>8. CASE (\E t \in Tags : PutBack(t)) \/ UNCHANGED vars
  <2>1. UNCHANGED <<gw, pc, data, base, loading, loadNext, loaded>>
    BY <1>8 DEF PutBack, vars, pluginVars
  <2> QED BY <1>0, <2>1 DEF NamesInv, HostBindings, OwnBindings
<1> QED
  BY <1>1, <1>2, <1>3, <1>4, <1>5, <1>6, <1>7, <1>8 DEF Next, Execute, Release

LEMMA NamesImply ==
  ASSUME DataNames \cap HostNames = {}, PoolInv, DataInv, NamesInv
  PROVE  RulesSeeOwnData /\ BoundForTheCallOnly /\ PluginOnEveryInstance
<1> USE DistinctValues
<1>1. RulesSeeOwnData
  <2> SUFFICES ASSUME NEW r \in Requests, pc[r] = "running"
               PROVE  /\ \A n \in data[r].keys \ data[r].nils : base[gw[r]][n] = r
                      /\ Range(base[gw[r]]) \subseteq {r, Host, NULL}
    BY DEF RulesSeeOwnData
  <2>1. gw[r] \in Tags /\ \A q \in Requests : gw[q] = gw[r] => q = r
    BY HolderFacts DEF Holding
  <2>2. \A n \in Names : base[gw[r]][n] \in {r, Host, NULL}
    <3>1. \A n \in Names : base[gw[r]][n] \in Requests \cup {Host, NULL}
      BY <2>1 DEF PoolInv, TypeOK, Suppliers
    <3> QED BY <2>1, <3>1 DEF DataInv, BindingsOfHolders
  <2>3. DOMAIN base[gw[r]] = Names
    BY <2>1 DEF PoolInv, TypeOK
  <2> QED BY <2>2, <2>3 DEF NamesInv, OwnBindings, Range
<1>2. BoundForTheCallOnly
  <2> SUFFICES ASSUME NEW t \in Tags \ Leased, NEW n \in DataNames \ HostNames
               PROVE  base[t][n] = NULL
    BY DEF BoundForTheCallOnly, NamesInv, HostBindings
  <2>1. base[t][n] \in Requests \cup {Host, NULL}
    BY DEF PoolInv, TypeOK, Suppliers, Names
  <2>2. base[t][n] \notin Requests
    BY DEF DataInv, BindingsOfHolders, Names, Leased, Tags
  <2> QED BY <2>1, <2>2 DEF NamesInv, HostBindings, Names
<1>3. PluginOnEveryInstance
  BY DEF PluginOnEveryInstance, NamesInv, HostBindings, PoolInv, TypeOK
<1> QED BY <1>1, <1>2, <1>3

LEMMA NamesInvariant ==
  ASSUME DataNames \cap HostNames = {}
  PROVE  Safety => [](RulesSeeOwnData /\ BoundForTheCallOnly /\ PluginOnEveryInstance)
<1>1. Init => NamesInv
  BY InitNamesInv
<1>2. PoolInv /\ NamesInv /\ [Next]_vars => NamesInv'
  BY NamesStep
<1>3. PoolInv /\ DataInv /\ NamesInv => RulesSeeOwnData /\ BoundForTheCallOnly /\ PluginOnEveryInstance
  BY NamesImply
<1> QED BY <1>1, <1>2, <1>3, PoolInvariant, DataInvariant, PTL DEF Safety

(* When callers use other names than the host, rules find exactly the data *)
(* of their call, and nothing of it is left when the instance is free.     *)
THEOREM DataIsolated ==
  ASSUME DataNames \cap HostNames = {}
  PROVE  Safety => []RulesSeeOwnData
BY NamesInvariant, PTL

(* ... an instance out of use is back to the host's apis ...               *)
THEOREM InstanceRestored ==
  ASSUME DataNames \cap HostNames = {}
  PROVE  Safety => []BoundForTheCallOnly
BY NamesInvariant, PTL

(* ... and a loaded plugin is available on every instance from then on.    *)
THEOREM PluginEverywhere ==
  ASSUME DataNames \cap HostNames = {}
  PROVE  Safety => []PluginOnEveryInstance
BY NamesInvariant, PTL
=============================================================================
