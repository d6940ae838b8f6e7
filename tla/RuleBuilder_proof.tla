-------------------------- MODULE RuleBuilder_proof --------------------------
(***************************************************************************)
(* For any number of calls, rule names, saliences and for any growth of    *)
(* slices: what the calls of a RuleBuilder leave, what an update looks up  *)
(* and writes, and how it uses the binary search.                          *)
(***************************************************************************)
EXTENDS RuleBuilder, SequenceTheorems, FiniteSetTheorems, TLAPS

-----------------------------------------------------------------------------
(* The inductive invariant *)

(* Everything before low is greater than the salience, everything behind   *)
(* high is less; the outer mid stays 0 while the loop runs.                *)
Narrowed ==
  /\ low \in 0 .. Len(re) /\ high \in -1 .. Len(re) - 1 /\ low <= high + 1
  /\ \A i \in 1 .. low : re[i] > salience
  /\ \A i \in high + 2 .. Len(re) : re[i] < salience
  /\ spc = "loop" => mid = 0

SearchInv == Search!TypeOK /\ Narrowed /\ Search!InRange /\ Search!KeepsOrder

Rule == [RuleName : Names, Salience : Saliences, version : Nat]
Cell == Rule \cup {nil}
SliceHeader == [arr : Nat, len : Nat]

(* A map from rule names to rules, as RuleEntities is *)
Keyed(f) ==
  /\ f \in [DOMAIN f -> Rule] /\ DOMAIN f \subseteq Names
  /\ \A n \in DOMAIN f : f[n].RuleName = n

(* s holds every rule of f once, by descending salience. *)
Listing(s, f) ==
  /\ s \in Seq(Rule) /\ SortedDown(s)
  /\ \A i \in 1 .. Len(s) : s[i].RuleName \in DOMAIN f /\ s[i] = f[s[i].RuleName]
  /\ \A i, j \in 1 .. Len(s) : s[i].RuleName = s[j].RuleName => i = j
  /\ \A n \in DOMAIN f : \E i \in 1 .. Len(s) : s[i].RuleName = n

IndexOf(map, s) ==
  /\ DOMAIN map = {s[i].RuleName : i \in DOMAIN s}
  /\ \A i \in DOMAIN s : map[s[i].RuleName] = i - 1

(* A slice of an array of h, and its rules *)
SliceIn(h, sl) == sl \in SliceHeader /\ sl.arr \in 1 .. Len(h) /\ sl.len <= Len(h[sl.arr])
RulesOf(h, sl) == SubSeq(h[sl.arr], 1, sl.len)

Entities == UNION {[D -> Rule] : D \in SUBSET Names}
IndexMaps == UNION {[D -> Nat] : D \in SUBSET Names}
Context == [RuleEntities : Entities, SortRules : SliceHeader, SortRulesIndexMap : IndexMaps]

Memory ==
  /\ heap \in Seq(Seq(Cell))
  /\ kcs \in Seq(Context) /\ Kc \in 1 .. Len(kcs)
  /\ SliceIn(heap, newSortRules) /\ SliceIn(heap, room)
  /\ \A sl \in published : SliceIn(heap, sl)

Control ==
  /\ pc \in {"idle", "update", "search", "publish", "arr", "len"}
  /\ calls \in Nat /\ todo \subseteq Rule
  /\ Keyed(newRuleEntities) /\ Keyed(asked)
  /\ pc = "search" => spc # "idle"
  /\ pc # "search" => spc = "idle"

(* The array of the copy is in no slice that was published. *)
Private ==
  /\ pc \in {"update", "search"} => \A sl \in published : sl.arr # newSortRules.arr
  /\ pc = "search" => room.arr = newSortRules.arr

(* What the call has still to enter in the copy *)
pending == todo \cup (IF pc = "search" THEN {moving} ELSE {})

(* Rules p entered in f would make it a. *)
Owed(a, p, f) ==
  /\ \A v \in p : v.RuleName \in DOMAIN a /\ a[v.RuleName] = v
  /\ \A n \in DOMAIN f : n \in DOMAIN a /\ (a[n] = f[n] \/ a[n] \in p)
  /\ \A n \in DOMAIN a : n \in DOMAIN f \/ a[n] \in p

Asked ==
  /\ pc = "idle" => asked = kcs[Kc].RuleEntities
  /\ pc \in {"publish", "arr", "len"} => asked = newRuleEntities
  /\ pc \in {"update", "search"} => Owed(asked, pending, newRuleEntities)

Live ==
  pc = "idle" =>
    /\ SliceIn(heap, kcs[Kc].SortRules)
    /\ Listing(RulesOf(heap, kcs[Kc].SortRules), kcs[Kc].RuleEntities)
    /\ IndexOf(kcs[Kc].SortRulesIndexMap, RulesOf(heap, kcs[Kc].SortRules))

Copy ==
  pc \in {"update", "publish", "arr", "len"} =>
    /\ Listing(RulesOf(heap, newSortRules), newRuleEntities)
    /\ IndexOf(kcs[Kc].SortRulesIndexMap, RulesOf(heap, newSortRules))

Stored ==
  /\ pc \in {"publish", "arr", "len"} => kcs[Kc].RuleEntities = newRuleEntities
  /\ pc = "arr" => kcs[Kc].SortRules.len = newSortRules.len
  /\ pc = "len" => kcs[Kc].SortRules.arr = newSortRules.arr

(* The slice searched holds the rules but the one to be entered. *)
Searched ==
  pc = "search" =>
    /\ moving \in Rule
    /\ Listing(RulesOf(heap, room), Without(newRuleEntities, {moving.RuleName}))
    /\ newSortRules.len = room.len + (IF Known(moving) THEN 1 ELSE 0)
    /\ re = [k \in 1 .. room.len |-> RulesOf(heap, room)[k].Salience]
    /\ salience = moving.Salience

BuilderInv ==
  /\ Memory /\ Control /\ Private /\ Asked /\ Live /\ Copy /\ Stored /\ Searched
  /\ SearchInv

-----------------------------------------------------------------------------
(* Arrays and slices *)

(* An array more changes no slice. *)
LEMMA ArrayAdded ==
  ASSUME heap \in Seq(Seq(Cell)), NEW a \in Seq(Cell), heap' = Append(heap, a)
  PROVE  /\ heap' \in Seq(Seq(Cell)) /\ Len(heap') = Len(heap) + 1
         /\ heap'[Len(heap) + 1] = a
         /\ \A sl : SliceIn(heap, sl) => SliceIn(heap', sl) /\ RulesOf(heap', sl) = RulesOf(heap, sl)
<1>1. /\ heap' \in Seq(Seq(Cell)) /\ Len(heap') = Len(heap) + 1 /\ Len(heap) \in Nat
      /\ \A i \in 1 .. Len(heap) : heap'[i] = heap[i]
      /\ heap'[Len(heap) + 1] = a
  BY AppendProperties, LenProperties
<1>2. ASSUME NEW sl, SliceIn(heap, sl)
      PROVE  SliceIn(heap', sl) /\ RulesOf(heap', sl) = RulesOf(heap, sl)
  <2>1. sl.arr \in 1 .. Len(heap) /\ heap'[sl.arr] = heap[sl.arr] /\ sl.arr \in 1 .. Len(heap')
    BY <1>1, <1>2 DEF SliceIn
  <2> QED BY <1>2, <2>1 DEF SliceIn, RulesOf
<1> QED BY <1>1, <1>2

LEMMA PrefixOfConcat ==
  ASSUME NEW S, NEW s \in Seq(S), NEW r \in Seq(S)
  PROVE  SubSeq(s \o r, 1, Len(s)) = s
<1> DEFINE b == s \o r
           pre == SubSeq(b, 1, Len(s))
<1>1. /\ Len(s) \in Nat /\ Len(r) \in Nat
      /\ \A i \in 1 .. Len(s) : s[i] \in S
  BY LenProperties, ElementOfSeq
<1>2. /\ b \in Seq(S) /\ Len(b) = Len(s) + Len(r)
      /\ \A i \in 1 .. Len(s) + Len(r) : b[i] = IF i <= Len(s) THEN s[i] ELSE r[i - Len(s)]
  BY ConcatProperties
<1> HIDE DEF b
<1>3. \A i \in 1 .. Len(s) : b[i] = s[i] /\ b[i] \in S
  BY <1>1, <1>2
<1>4. pre \in Seq(S) /\ Len(pre) = Len(s) /\ \A i \in 1 .. Len(s) : pre[i] = b[i]
  <2>1. /\ pre \in Seq(S) /\ Len(pre) = IF 1 <= Len(s) THEN Len(s) - 1 + 1 ELSE 0
        /\ \A i \in 1 .. Len(s) - 1 + 1 : pre[i] = b[1 + i - 1]
    BY <1>1, <1>3, SubSeqProperties
  <2> HIDE DEF pre
  <2> QED BY <2>1, <1>1
<1> HIDE DEF pre
<1>5. pre = s
  BY <1>3, <1>4, SeqEqual
<1> QED BY <1>5 DEF pre, b

(* The rules of a slice *)
LEMMA ElemsFacts ==
  ASSUME heap \in Seq(Seq(Cell)), NEW sl, SliceIn(heap, sl)
  PROVE  RulesOf(heap, sl) \in Seq(Cell) /\ Len(RulesOf(heap, sl)) = sl.len
<1>1. /\ sl.arr \in 1 .. Len(heap) /\ heap[sl.arr] \in Seq(Cell) /\ sl.len \in Nat
      /\ sl.len <= Len(heap[sl.arr])
  BY ElementOfSeq DEF SliceIn, SliceHeader
<1>2. \A i \in 1 .. sl.len : heap[sl.arr][i] \in Cell
  BY <1>1, ElementOfSeq, LenProperties
<1>3. /\ SubSeq(heap[sl.arr], 1, sl.len) \in Seq(Cell)
      /\ Len(SubSeq(heap[sl.arr], 1, sl.len)) = IF 1 <= sl.len THEN sl.len - 1 + 1 ELSE 0
  BY <1>1, <1>2, SubSeqProperties
<1> QED BY <1>1, <1>3 DEF RulesOf

(* An array for the rules of a list, with spare capacity *)
LEMMA PaddedFacts ==
  ASSUME NEW s \in Seq(Rule), NEW c \in Nat, c >= Len(s)
  PROVE  /\ Padded(s, c) \in Seq(Cell) /\ Len(Padded(s, c)) = c
         /\ SubSeq(Padded(s, c), 1, Len(s)) = s
<1> DEFINE r == [i \in 1 .. c - Len(s) |-> nil]
<1>1. s \in Seq(Cell) /\ Len(s) \in Nat
  BY SeqMonotonic, LenProperties DEF Cell
<1>2. r \in Seq(Cell) /\ Len(r) = c - Len(s)
  BY <1>1 DEF Cell
<1>3. Padded(s, c) = s \o r
  BY DEF Padded
<1> HIDE DEF r
<1>4. s \o r \in Seq(Cell) /\ Len(s \o r) = Len(s) + Len(r)
  BY <1>1, <1>2, ConcatProperties
<1>5. SubSeq(s \o r, 1, Len(s)) = s
  BY <1>1, <1>2, PrefixOfConcat
<1> QED BY <1>1, <1>2, <1>3, <1>4, <1>5

(* Writing over the beginning of an array changes the slices of it only. *)
LEMMA ArrayWritten ==
  ASSUME heap \in Seq(Seq(Cell)), NEW sl, SliceIn(heap, sl), NEW s \in Seq(Cell), Len(s) <= Cap(sl),
         heap' = Written(sl, s)
  PROVE  /\ heap' \in Seq(Seq(Cell)) /\ Len(heap') = Len(heap)
         /\ \A i \in 1 .. Len(heap) : Len(heap'[i]) = Len(heap[i])
         /\ SubSeq(heap'[sl.arr], 1, Len(s)) = s
         /\ \A t : SliceIn(heap, t) => SliceIn(heap', t)
         /\ \A t : SliceIn(heap, t) /\ t.arr # sl.arr => RulesOf(heap', t) = RulesOf(heap, t)
<1> DEFINE a == heap[sl.arr]
           rest == SubSeq(a, Len(s) + 1, Len(a))
<1>1. /\ sl.arr \in 1 .. Len(heap) /\ a \in Seq(Cell) /\ Len(a) \in Nat /\ Len(s) \in Nat /\ Len(s) <= Len(a)
      /\ \A i \in 1 .. Len(a) : a[i] \in Cell
  BY ElementOfSeq, LenProperties DEF SliceIn, Cap
<1>2. rest \in Seq(Cell) /\ Len(rest) = Len(a) - Len(s)
  <2>1. \A i \in Len(s) + 1 .. Len(a) : a[i] \in Cell
    BY <1>1
  <2> HIDE DEF a
  <2> QED BY <1>1, <2>1, SubSeqProperties
<1>3. s \o rest \in Seq(Cell) /\ Len(s \o rest) = Len(a)
      /\ \A i \in 1 .. Len(s) : (s \o rest)[i] = s[i]
  <2> HIDE DEF a, rest
  <2>1. /\ s \o rest \in Seq(Cell) /\ Len(s \o rest) = Len(s) + Len(rest)
        /\ \A i \in 1 .. Len(s) + Len(rest) : (s \o rest)[i] = IF i <= Len(s) THEN s[i] ELSE rest[i - Len(s)]
    BY <1>2, ConcatProperties
  <2> QED BY <2>1, <1>1, <1>2
<1>4. heap' = [heap EXCEPT ![sl.arr] = s \o rest]
  BY DEF Written
<1> HIDE DEF a, rest
<1>5. /\ heap' \in Seq(Seq(Cell)) /\ Len(heap') = Len(heap)
      /\ \A i \in 1 .. Len(heap) : heap'[i] = IF i = sl.arr THEN s \o rest ELSE heap[i]
  BY <1>1, <1>3, <1>4, ExceptSeq
<1>6. \A i \in 1 .. Len(heap) : Len(heap'[i]) = Len(heap[i])
  BY <1>3, <1>5 DEF a
<1>7. SubSeq(heap'[sl.arr], 1, Len(s)) = s
  BY <1>1, <1>2, <1>5, PrefixOfConcat, ZenonT(30)
<1> QED BY <1>5, <1>6, <1>7 DEF SliceIn, RulesOf

-----------------------------------------------------------------------------
(* Lists of rules *)

LEMMA RemoveAtFacts ==
  ASSUME NEW S, NEW s \in Seq(S), NEW i \in 1 .. Len(s)
  PROVE  /\ RemoveAt(s, i) \in Seq(S) /\ Len(RemoveAt(s, i)) = Len(s) - 1
         /\ \A k \in 1 .. Len(s) - 1 : RemoveAt(s, i)[k] = IF k < i THEN s[k] ELSE s[k + 1]
<1> DEFINE a == SubSeq(s, 1, i - 1)
           b == SubSeq(s, i + 1, Len(s))
<1>1. Len(s) \in Nat /\ i \in Nat /\ \A k \in 1 .. Len(s) : s[k] \in S
  BY LenProperties, ElementOfSeq
<1>2. /\ a \in Seq(S) /\ Len(a) = i - 1
      /\ \A k \in 1 .. i - 1 : a[k] = s[k]
  <2>1. /\ a \in Seq(S) /\ Len(a) = IF 1 <= i - 1 THEN i - 1 - 1 + 1 ELSE 0
        /\ \A k \in 1 .. i - 1 - 1 + 1 : a[k] = s[1 + k - 1]
    BY <1>1, SubSeqProperties
  <2> HIDE DEF a
  <2> QED BY <2>1, <1>1
<1>3. /\ b \in Seq(S) /\ Len(b) = Len(s) - i
      /\ \A k \in 1 .. Len(s) - i : b[k] = s[i + k]
  <2>1. /\ b \in Seq(S) /\ Len(b) = IF i + 1 <= Len(s) THEN Len(s) - (i + 1) + 1 ELSE 0
        /\ \A k \in 1 .. Len(s) - (i + 1) + 1 : b[k] = s[(i + 1) + k - 1]
    BY <1>1, SubSeqProperties
  <2> HIDE DEF b
  <2> QED BY <2>1, <1>1
<1>4. RemoveAt(s, i) = a \o b
  BY DEF RemoveAt
<1> HIDE DEF a, b
<1>5. /\ a \o b \in Seq(S) /\ Len(a \o b) = Len(a) + Len(b)
      /\ \A k \in 1 .. Len(a) + Len(b) : (a \o b)[k] = IF k <= Len(a) THEN a[k] ELSE b[k - Len(a)]
  BY <1>2, <1>3, ConcatProperties
<1> QED BY <1>1, <1>2, <1>3, <1>4, <1>5

LEMMA InsertAtFacts ==
  ASSUME NEW S, NEW s \in Seq(S), NEW e \in S, NEW i \in 1 .. Len(s) + 1
  PROVE  /\ InsertAt(s, i, e) \in Seq(S) /\ Len(InsertAt(s, i, e)) = Len(s) + 1
         /\ \A k \in 1 .. Len(s) + 1 :
              InsertAt(s, i, e)[k] = IF k < i THEN s[k] ELSE IF k = i THEN e ELSE s[k - 1]
<1> DEFINE a == SubSeq(s, 1, i - 1)
           b == SubSeq(s, i, Len(s))
           ae == a \o <<e>>
<1>1. Len(s) \in Nat /\ i \in Nat /\ \A k \in 1 .. Len(s) : s[k] \in S
  BY LenProperties, ElementOfSeq
<1>2. /\ a \in Seq(S) /\ Len(a) = i - 1
      /\ \A k \in 1 .. i - 1 : a[k] = s[k]
  <2>1. /\ a \in Seq(S) /\ Len(a) = IF 1 <= i - 1 THEN i - 1 - 1 + 1 ELSE 0
        /\ \A k \in 1 .. i - 1 - 1 + 1 : a[k] = s[1 + k - 1]
    BY <1>1, SubSeqProperties
  <2> HIDE DEF a
  <2> QED BY <2>1, <1>1
<1>3. /\ b \in Seq(S) /\ Len(b) = Len(s) - i + 1
      /\ \A k \in 1 .. Len(s) - i + 1 : b[k] = s[i + k - 1]
  <2>1. /\ b \in Seq(S) /\ Len(b) = IF i <= Len(s) THEN Len(s) - i + 1 ELSE 0
        /\ \A k \in 1 .. Len(s) - i + 1 : b[k] = s[i + k - 1]
    BY <1>1, SubSeqProperties
  <2> HIDE DEF b
  <2> QED BY <2>1, <1>1
<1>4. InsertAt(s, i, e) = ae \o b
  BY DEF InsertAt
<1>5. /\ ae \in Seq(S) /\ Len(ae) = i
      /\ \A k \in 1 .. i : ae[k] = IF k < i THEN s[k] ELSE e
  <2> HIDE DEF a
  <2>1. <<e>> \in Seq(S) /\ Len(<<e>>) = 1 /\ <<e>>[1] = e
    OBVIOUS
  <2>2. /\ ae \in Seq(S) /\ Len(ae) = Len(a) + Len(<<e>>)
        /\ \A k \in 1 .. Len(a) + Len(<<e>>) : ae[k] = IF k <= Len(a) THEN a[k] ELSE <<e>>[k - Len(a)]
    BY <1>2, <2>1, ConcatProperties
  <2> QED BY <1>1, <1>2, <2>1, <2>2
<1> HIDE DEF ae, b
<1>6. /\ ae \o b \in Seq(S) /\ Len(ae \o b) = Len(ae) + Len(b)
      /\ \A k \in 1 .. Len(ae) + Len(b) : (ae \o b)[k] = IF k <= Len(ae) THEN ae[k] ELSE b[k - Len(ae)]
  BY <1>3, <1>5, ConcatProperties
<1> QED BY <1>1, <1>3, <1>4, <1>5, <1>6

LEMMA ListingFacts ==
  ASSUME BuilderConstants, NEW s, NEW f, Listing(s, f)
  PROVE  /\ s \in Seq(Rule) /\ Len(s) \in Nat /\ DOMAIN s = 1 .. Len(s)
         /\ \A i \in 1 .. Len(s) : s[i] \in Rule /\ s[i].Salience \in Int
         /\ \A i, j \in 1 .. Len(s) : i < j => s[i].Salience >= s[j].Salience
<1>1. s \in Seq(Rule) /\ Len(s) \in Nat /\ DOMAIN s = 1 .. Len(s)
  BY LenProperties DEF Listing
<1>2. \A i \in 1 .. Len(s) : s[i] \in Rule
  BY <1>1, ElementOfSeq
<1> QED BY <1>1, <1>2 DEF Listing, SortedDown, Rule, BuilderConstants

(* Taking a rule out *)
LEMMA ListingWithout ==
  ASSUME BuilderConstants, NEW s, NEW f, Listing(s, f), NEW i \in 1 .. Len(s)
  PROVE  /\ Listing(RemoveAt(s, i), Without(f, {s[i].RuleName}))
         /\ Len(RemoveAt(s, i)) = Len(s) - 1
<1> DEFINE t == RemoveAt(s, i)
           g == Without(f, {s[i].RuleName})
<1>1. /\ s \in Seq(Rule) /\ Len(s) \in Nat
      /\ \A k \in 1 .. Len(s) : s[k] \in Rule /\ s[k].Salience \in Int
      /\ \A k, m \in 1 .. Len(s) : k < m => s[k].Salience >= s[m].Salience
  BY ListingFacts
<1>2. /\ t \in Seq(Rule) /\ Len(t) = Len(s) - 1
      /\ \A k \in 1 .. Len(s) - 1 : t[k] = IF k < i THEN s[k] ELSE s[k + 1]
  BY <1>1, RemoveAtFacts
<1>3. DOMAIN g = DOMAIN f \ {s[i].RuleName} /\ \A n \in DOMAIN g : g[n] = f[n]
  BY DEF Without
<1> DEFINE was == [k \in 1 .. Len(t) |-> IF k < i THEN k ELSE k + 1]
<1> HIDE DEF t, g
<1>4. /\ \A k \in 1 .. Len(t) : was[k] \in 1 .. Len(s) /\ was[k] # i /\ t[k] = s[was[k]]
      /\ \A k, m \in 1 .. Len(t) : k < m => was[k] < was[m]
      /\ \A k, m \in 1 .. Len(t) : was[k] = was[m] => k = m
      /\ \A m \in 1 .. Len(s) : m # i => \E k \in 1 .. Len(t) : was[k] = m
  <2>1. ASSUME NEW m \in 1 .. Len(s), m # i
        PROVE  \E k \in 1 .. Len(t) : was[k] = m
    <3>1. CASE m < i
      <4>1. m \in 1 .. Len(t) /\ was[m] = m
        BY <1>1, <1>2, <3>1
      <4> QED BY <4>1
    <3>2. CASE m > i
      <4>1. m - 1 \in 1 .. Len(t) /\ was[m - 1] = m
        BY <1>1, <1>2, <3>2
      <4> QED BY <4>1
    <3> QED BY <1>1, <2>1, <3>1, <3>2
  <2> QED BY <1>1, <1>2, <2>1
<1> HIDE DEF was
<1>5. DOMAIN t = 1 .. Len(t)
  BY <1>2, LenProperties
<1>6. SortedDown(t)
  <2>1. ASSUME NEW k \in 1 .. Len(t), NEW m \in 1 .. Len(t), k < m
        PROVE  t[k].Salience >= t[m].Salience
    <3>1. was[k] \in 1 .. Len(s) /\ was[m] \in 1 .. Len(s) /\ was[k] < was[m]
      BY <1>4, <2>1
    <3> QED BY <1>1, <1>4, <3>1, SMTT(30)
  <2> QED BY <1>5, <2>1 DEF SortedDown
<1>7. /\ \A k \in 1 .. Len(t) : t[k].RuleName \in DOMAIN g /\ t[k] = g[t[k].RuleName]
      /\ \A k, m \in 1 .. Len(t) : t[k].RuleName = t[m].RuleName => k = m
  <2>1. ASSUME NEW k \in 1 .. Len(t)
        PROVE  t[k].RuleName \in DOMAIN g /\ t[k] = g[t[k].RuleName]
    <3>1. was[k] \in 1 .. Len(s) /\ was[k] # i /\ t[k] = s[was[k]]
      BY <1>4
    <3>2. t[k].RuleName \in DOMAIN f /\ t[k] = f[t[k].RuleName] /\ t[k].RuleName # s[i].RuleName
      BY <3>1, SMTT(30) DEF Listing
    <3> QED BY <1>3, <3>2
  <2>2. ASSUME NEW k \in 1 .. Len(t), NEW m \in 1 .. Len(t), t[k].RuleName = t[m].RuleName
        PROVE  k = m
    <3>1. was[k] \in 1 .. Len(s) /\ was[m] \in 1 .. Len(s) /\ s[was[k]].RuleName = s[was[m]].RuleName
      BY <1>4, <2>2
    <3>2. was[k] = was[m]
      BY <3>1, ZenonT(30) DEF Listing
    <3> QED BY <1>4, <3>2
  <2> QED BY <2>1, <2>2
<1>8. ASSUME NEW n \in DOMAIN g
      PROVE  \E k \in 1 .. Len(t) : t[k].RuleName = n
  <2>1. PICK m \in 1 .. Len(s) : s[m].RuleName = n
    BY <1>3 DEF Listing
  <2>2. PICK k \in 1 .. Len(t) : was[k] = m
    BY <1>3, <1>4, <2>1
  <2> QED BY <1>4, <2>1, <2>2
<1>9. Listing(t, g)
  BY <1>2, <1>6, <1>7, <1>8 DEF Listing
<1> QED BY <1>2, <1>9 DEF t, g

(* Entering a rule under its name *)
LEMMA KeyedEntered ==
  ASSUME NEW f, Keyed(f), NEW v \in Rule
  PROVE  Keyed(Over([n \in {v.RuleName} |-> v], f))
<1> DEFINE g == Over([n \in {v.RuleName} |-> v], f)
<1>1. /\ DOMAIN g = DOMAIN f \cup {v.RuleName} /\ g[v.RuleName] = v
      /\ \A n \in DOMAIN f : n # v.RuleName => g[n] = f[n]
  BY DEF Over
<1>2. g = [n \in DOMAIN g |-> g[n]]
  BY DEF Over
<1>3. v.RuleName \in Names
  BY DEF Rule
<1> HIDE DEF g
<1>4. \A n \in DOMAIN g : g[n] \in Rule /\ g[n].RuleName = n /\ n \in Names
  BY <1>1, <1>3 DEF Keyed
<1>5. Keyed(g)
  BY <1>2, <1>4 DEF Keyed
<1> QED BY <1>5 DEF g

(* Putting a rule where its salience belongs *)
LEMMA ListingWith ==
  ASSUME BuilderConstants, NEW s, NEW f, NEW v \in Rule, Listing(s, Without(f, {v.RuleName})),
         NEW p \in 0 .. Len(s),
         \A i \in 1 .. p : s[i].Salience >= v.Salience,
         \A i \in p + 1 .. Len(s) : s[i].Salience <= v.Salience
  PROVE  /\ Listing(InsertAt(s, p + 1, v), Over([n \in {v.RuleName} |-> v], f))
         /\ Len(InsertAt(s, p + 1, v)) = Len(s) + 1
<1> DEFINE e == Without(f, {v.RuleName})
           g == Over([n \in {v.RuleName} |-> v], f)
           t == InsertAt(s, p + 1, v)
<1>1. /\ s \in Seq(Rule) /\ Len(s) \in Nat
      /\ \A k \in 1 .. Len(s) : s[k] \in Rule /\ s[k].Salience \in Int
      /\ \A k, m \in 1 .. Len(s) : k < m => s[k].Salience >= s[m].Salience
  BY ListingFacts
<1>2. /\ t \in Seq(Rule) /\ Len(t) = Len(s) + 1
      /\ \A k \in 1 .. Len(s) + 1 : t[k] = IF k < p + 1 THEN s[k] ELSE IF k = p + 1 THEN v ELSE s[k - 1]
  <2>1. p + 1 \in 1 .. Len(s) + 1
    BY <1>1
  <2> QED BY <1>1, <2>1, InsertAtFacts
<1>3. /\ DOMAIN e = DOMAIN f \ {v.RuleName} /\ \A n \in DOMAIN e : e[n] = f[n]
      /\ DOMAIN g = DOMAIN e \cup {v.RuleName} /\ g[v.RuleName] = v
      /\ \A n \in DOMAIN e : n # v.RuleName => g[n] = e[n]
  BY DEF Over, Without
<1>4. Listing(s, e)
  OBVIOUS
<1> DEFINE was == [k \in 1 .. Len(t) |-> IF k < p + 1 THEN k ELSE k - 1]
<1> HIDE DEF t, g, e
<1>5. /\ p + 1 \in 1 .. Len(t) /\ t[p + 1] = v
      /\ \A k \in 1 .. Len(t) : k # p + 1 => was[k] \in 1 .. Len(s) /\ t[k] = s[was[k]]
      /\ \A k, m \in 1 .. Len(t) : k # p + 1 /\ m # p + 1 /\ k < m => was[k] < was[m]
      /\ \A k, m \in 1 .. Len(t) : k # p + 1 /\ m # p + 1 /\ was[k] = was[m] => k = m
      /\ \A k \in 1 .. Len(t) : k < p + 1 => was[k] \in 1 .. p
      /\ \A k \in 1 .. Len(t) : k > p + 1 => was[k] \in p + 1 .. Len(s)
      /\ \A m \in 1 .. Len(s) : \E k \in 1 .. Len(t) : k # p + 1 /\ was[k] = m
  <2>1. ASSUME NEW m \in 1 .. Len(s)
        PROVE  \E k \in 1 .. Len(t) : k # p + 1 /\ was[k] = m
    <3>1. CASE m < p + 1
      <4>1. m \in 1 .. Len(t) /\ was[m] = m
        BY <1>1, <1>2, <3>1
      <4> QED BY <4>1, <3>1
    <3>2. CASE m >= p + 1
      <4>1. m + 1 \in 1 .. Len(t) /\ was[m + 1] = m /\ m + 1 # p + 1
        BY <1>1, <1>2, <3>2
      <4> QED BY <4>1
    <3> QED BY <1>1, <2>1, <3>1, <3>2
  <2>2. /\ p + 1 \in 1 .. Len(t) /\ t[p + 1] = v
        /\ \A k \in 1 .. Len(t) : k # p + 1 => was[k] \in 1 .. Len(s) /\ t[k] = s[was[k]]
    BY <1>1, <1>2
  <2>3. /\ \A k, m \in 1 .. Len(t) : k # p + 1 /\ m # p + 1 /\ k < m => was[k] < was[m]
        /\ \A k, m \in 1 .. Len(t) : k # p + 1 /\ m # p + 1 /\ was[k] = was[m] => k = m
        /\ \A k \in 1 .. Len(t) : k < p + 1 => was[k] \in 1 .. p
        /\ \A k \in 1 .. Len(t) : k > p + 1 => was[k] \in p + 1 .. Len(s)
    BY <1>1, <1>2
  <2> QED BY <2>1, <2>2, <2>3
<1> HIDE DEF was
<1>6. DOMAIN t = 1 .. Len(t)
  BY <1>2, LenProperties
<1>7. SortedDown(t)
  <2>1. ASSUME NEW k \in 1 .. Len(t), NEW m \in 1 .. Len(t), k < m
        PROVE  t[k].Salience >= t[m].Salience
    <3>1. CASE k = p + 1
      <4>1. was[m] \in p + 1 .. Len(s) /\ t[m] = s[was[m]] /\ t[k] = v
        BY <1>5, <2>1, <3>1
      <4>2. s[was[m]].Salience <= v.Salience /\ s[was[m]].Salience \in Int /\ v.Salience \in Int
        <5>1. v.Salience \in Int
          BY DEF Rule, BuilderConstants
        <5>2. was[m] \in 1 .. Len(s)
          BY <1>1, <4>1
        <5> QED BY <1>1, <4>1, <5>1, <5>2
      <4> QED BY <4>1, <4>2
    <3>2. CASE m = p + 1
      <4>1. was[k] \in 1 .. p /\ t[k] = s[was[k]] /\ t[m] = v
        BY <1>5, <2>1, <3>2
      <4> QED BY <4>1
    <3>3. CASE k # p + 1 /\ m # p + 1
      <4>1. /\ was[k] \in 1 .. Len(s) /\ was[m] \in 1 .. Len(s) /\ was[k] < was[m]
            /\ t[k] = s[was[k]] /\ t[m] = s[was[m]]
        BY <1>5, <2>1, <3>3
      <4> QED BY <1>1, <4>1
    <3> QED BY <3>1, <3>2, <3>3
  <2> QED BY <1>6, <2>1 DEF SortedDown
<1>8. ASSUME NEW k \in 1 .. Len(t), k # p + 1
      PROVE  /\ was[k] \in 1 .. Len(s) /\ t[k] = s[was[k]]
             /\ t[k].RuleName \in DOMAIN e /\ t[k] = e[t[k].RuleName] /\ t[k].RuleName # v.RuleName
  <2>1. was[k] \in 1 .. Len(s) /\ t[k] = s[was[k]]
    BY <1>5, <1>8
  <2>2. t[k].RuleName \in DOMAIN e /\ t[k] = e[t[k].RuleName]
    BY <1>4, <2>1 DEF Listing
  <2> QED BY <1>3, <2>1, <2>2
<1>9. ASSUME NEW k \in 1 .. Len(t)
      PROVE  t[k].RuleName \in DOMAIN g /\ t[k] = g[t[k].RuleName]
  <2>1. CASE k = p + 1
    BY <1>3, <1>5, <2>1
  <2>2. CASE k # p + 1
    BY <1>3, <1>8, <2>2
  <2> QED BY <2>1, <2>2
<1>10. ASSUME NEW k \in 1 .. Len(t), NEW m \in 1 .. Len(t), t[k].RuleName = t[m].RuleName
       PROVE  k = m
  <2>1. CASE k = p + 1 \/ m = p + 1
    BY <1>5, <1>8, <1>10, <2>1
  <2>2. CASE k # p + 1 /\ m # p + 1
    <3>1. was[k] \in 1 .. Len(s) /\ was[m] \in 1 .. Len(s) /\ s[was[k]].RuleName = s[was[m]].RuleName
      BY <1>5, <1>10, <2>2
    <3>2. was[k] = was[m]
      BY <1>4, <3>1 DEF Listing
    <3> QED BY <1>5, <2>2, <3>2
  <2> QED BY <2>1, <2>2
<1>11. ASSUME NEW n \in DOMAIN g
       PROVE  \E k \in 1 .. Len(t) : t[k].RuleName = n
  <2>1. CASE n = v.RuleName
    BY <1>5, <2>1
  <2>2. CASE n \in DOMAIN e
    <3>1. PICK m \in 1 .. Len(s) : s[m].RuleName = n
      BY <1>4, <2>2 DEF Listing
    <3>2. PICK k \in 1 .. Len(t) : k # p + 1 /\ was[k] = m
      BY <1>5, <3>1
    <3> QED BY <1>5, <3>1, <3>2
  <2> QED BY <1>3, <2>1, <2>2
<1>12. Listing(t, g)
  BY <1>2, <1>7, <1>9, <1>10, <1>11 DEF Listing
<1> QED BY <1>2, <1>12 DEF t, g

(* Putting a new version of a rule in its place *)
LEMMA ListingReplaced ==
  ASSUME BuilderConstants, NEW s, NEW f, Listing(s, f), NEW i \in 1 .. Len(s),
         NEW v \in Rule, v.RuleName = s[i].RuleName, v.Salience = s[i].Salience
  PROVE  /\ Listing(ReplaceAt(s, i, v), Over([n \in {v.RuleName} |-> v], f))
         /\ Len(ReplaceAt(s, i, v)) = Len(s)
         /\ \A map : IndexOf(map, s) => IndexOf(map, ReplaceAt(s, i, v))
<1> DEFINE g == Over([n \in {v.RuleName} |-> v], f)
           t == ReplaceAt(s, i, v)
<1>1. /\ s \in Seq(Rule) /\ Len(s) \in Nat /\ DOMAIN s = 1 .. Len(s)
      /\ \A k \in 1 .. Len(s) : s[k] \in Rule /\ s[k].Salience \in Int
      /\ \A k, m \in 1 .. Len(s) : k < m => s[k].Salience >= s[m].Salience
  BY ListingFacts
<1>2. /\ t \in Seq(Rule) /\ Len(t) = Len(s)
      /\ \A k \in 1 .. Len(s) : t[k] = IF k = i THEN v ELSE s[k]
  BY <1>1, ExceptSeq DEF ReplaceAt
<1>3. /\ DOMAIN g = DOMAIN f \cup {v.RuleName} /\ g[v.RuleName] = v
      /\ \A n \in DOMAIN f : n # v.RuleName => g[n] = f[n]
  BY DEF Over
<1> HIDE DEF g, t
<1>4. DOMAIN t = 1 .. Len(s) /\ DOMAIN t = DOMAIN s
  BY <1>1, <1>2, LenProperties
<1>5. \A k \in 1 .. Len(s) : t[k].RuleName = s[k].RuleName /\ t[k].Salience = s[k].Salience
  BY <1>2
<1>6. SortedDown(t)
  BY <1>1, <1>4, <1>5 DEF SortedDown
<1>7. ASSUME NEW k \in 1 .. Len(s)
      PROVE  t[k].RuleName \in DOMAIN g /\ t[k] = g[t[k].RuleName]
  <2>1. CASE k = i
    BY <1>2, <1>3, <2>1
  <2>2. CASE k # i
    <3>1. s[k].RuleName \in DOMAIN f /\ s[k] = f[s[k].RuleName] /\ s[k].RuleName # s[i].RuleName
      BY <2>2 DEF Listing
    <3> QED BY <1>2, <1>3, <2>2, <3>1
  <2> QED BY <2>1, <2>2
<1>8. \A k, m \in 1 .. Len(s) : t[k].RuleName = t[m].RuleName => k = m
  BY <1>5 DEF Listing
<1>9. ASSUME NEW n \in DOMAIN g
      PROVE  \E k \in 1 .. Len(s) : t[k].RuleName = n
  <2>1. n \in DOMAIN f
    BY <1>3 DEF Listing
  <2>2. PICK k \in 1 .. Len(s) : s[k].RuleName = n
    BY <2>1 DEF Listing
  <2> QED BY <1>5, <2>2
<1>10. Listing(t, g)
  BY <1>2, <1>6, <1>7, <1>8, <1>9 DEF Listing
<1>11. ASSUME NEW map, IndexOf(map, s)
       PROVE  IndexOf(map, t)
  <2>1. {s[k].RuleName : k \in DOMAIN s} = {t[k].RuleName : k \in DOMAIN t}
    BY <1>1, <1>4, <1>5
  <2> QED BY <1>1, <1>4, <1>5, <1>11, <2>1 DEF IndexOf
<1> QED BY <1>2, <1>10, <1>11 DEF g, t

(* The map made of a list tells where each rule of it is. *)
LEMMA IndexMapOfListing ==
  ASSUME BuilderConstants, NEW s, NEW f, Keyed(f), Listing(s, f)
  PROVE  IndexOf(indexMap(s), s) /\ indexMap(s) \in IndexMaps
<1>1. /\ Len(s) \in Nat /\ DOMAIN s = 1 .. Len(s)
      /\ \A k \in 1 .. Len(s) : s[k] \in Rule
  BY ListingFacts
<1>2. /\ DOMAIN indexMap(s) = {s[i].RuleName : i \in DOMAIN s}
      /\ \A n \in DOMAIN indexMap(s) : indexMap(s)[n] = (CHOOSE i \in DOMAIN s : s[i].RuleName = n) - 1
      /\ indexMap(s) = [n \in DOMAIN indexMap(s) |-> indexMap(s)[n]]
  BY DEF indexMap
<1> HIDE DEF indexMap
<1>3. ASSUME NEW i \in DOMAIN s
      PROVE  indexMap(s)[s[i].RuleName] = i - 1
  <2>1. \A k \in DOMAIN s : s[k].RuleName = s[i].RuleName => k = i
    BY <1>1 DEF Listing
  <2>2. (CHOOSE k \in DOMAIN s : s[k].RuleName = s[i].RuleName) = i
    BY <2>1
  <2>3. s[i].RuleName \in DOMAIN indexMap(s)
    BY <1>2
  <2> QED BY <1>2, <2>2, <2>3
<1>4. \A n \in DOMAIN indexMap(s) : n \in Names /\ indexMap(s)[n] \in Nat
  <2> SUFFICES ASSUME NEW n \in DOMAIN indexMap(s) PROVE n \in Names /\ indexMap(s)[n] \in Nat
    OBVIOUS
  <2>1. PICK i \in DOMAIN s : n = s[i].RuleName
    BY <1>2
  <2>2. n \in Names
    BY <1>1, <2>1 DEF Rule
  <2>3. indexMap(s)[n] = i - 1
    BY <1>3, <2>1
  <2> QED BY <1>1, <2>2, <2>3
<1>5. indexMap(s) \in [DOMAIN indexMap(s) -> Nat] /\ DOMAIN indexMap(s) \in SUBSET Names
  BY <1>2, <1>4
<1> QED BY <1>2, <1>3, <1>5 DEF IndexOf, IndexMaps

(* A list has as many rules as the map has names, and they are the same. *)
LEMMA ListingCount ==
  ASSUME BuilderConstants, NEW s, NEW f, Keyed(f), Listing(s, f)
  PROVE  /\ Len(s) = Cardinality(DOMAIN f) /\ Len(s) \in 0 .. Cardinality(Names)
         /\ {s[i] : i \in DOMAIN s} = {f[n] : n \in DOMAIN f}
<1>1. /\ Len(s) \in Nat /\ DOMAIN s = 1 .. Len(s)
      /\ \A k \in 1 .. Len(s) : s[k] \in Rule
  BY ListingFacts
<1> DEFINE h == [i \in 1 .. Len(s) |-> s[i].RuleName]
<1>2. h \in Bijection(1 .. Len(s), DOMAIN f)
  <2>1. h \in [1 .. Len(s) -> DOMAIN f]
    BY DEF Listing
  <2>2. \A i, j \in 1 .. Len(s) : h[i] = h[j] => i = j
    BY DEF Listing
  <2>3. \A n \in DOMAIN f : \E i \in 1 .. Len(s) : h[i] = n
    BY DEF Listing
  <2> HIDE DEF h
  <2> QED BY <2>1, <2>2, <2>3 DEF Bijection, Injection, Surjection, IsInjective
<1> HIDE DEF h
<1>3. IsFiniteSet(1 .. Len(s)) /\ Cardinality(1 .. Len(s)) = Len(s)
  <2>1. /\ IsFiniteSet(1 .. Len(s))
        /\ Cardinality(1 .. Len(s)) = IF 1 > Len(s) THEN 0 ELSE Len(s) - 1 + 1
    BY <1>1, FS_Interval, SMTT(30)
  <2> QED BY <1>1, <2>1
<1>4. Cardinality(DOMAIN f) = Len(s)
  <2>1. ExistsBijection(1 .. Len(s), DOMAIN f)
    BY <1>2 DEF ExistsBijection
  <2> QED BY <1>3, <2>1, FS_Bijection
<1>5. Len(s) <= Cardinality(Names) /\ Cardinality(Names) \in Nat
  <2>1. DOMAIN f \in SUBSET Names /\ IsFiniteSet(Names)
    BY DEF Keyed, BuilderConstants
  <2> QED BY <1>4, <2>1, FS_Subset, FS_CardinalityType
<1>6. {s[i] : i \in DOMAIN s} = {f[n] : n \in DOMAIN f}
  <2>1. ASSUME NEW i \in DOMAIN s
        PROVE  \E n \in DOMAIN f : f[n] = s[i]
    BY <1>1 DEF Listing
  <2>2. ASSUME NEW n \in DOMAIN f
        PROVE  \E i \in DOMAIN s : s[i] = f[n]
    <3>1. PICK i \in 1 .. Len(s) : s[i].RuleName = n
      BY DEF Listing
    <3>2. s[i] = f[s[i].RuleName]
      BY <3>1 DEF Listing
    <3> QED BY <1>1, <3>1, <3>2
  <2> QED BY <2>1, <2>2
<1> QED BY <1>1, <1>4, <1>5, <1>6

(* A sequence of the rules of a map, sorted, lists them. *)
LEMMA ListingOfSeqs ==
  ASSUME BuilderConstants, NEW f, Keyed(f),
         NEW s \in SetToSeqs({f[n] : n \in DOMAIN f}), SortedDown(s)
  PROVE  Listing(s, f)
<1> DEFINE S == {f[n] : n \in DOMAIN f}
           h == [n \in DOMAIN f |-> f[n]]
           c == Cardinality(S)
<1>1. IsFiniteSet(DOMAIN f)
  BY FS_Subset DEF Keyed, BuilderConstants
<1>2. h \in Bijection(DOMAIN f, S)
  <2>1. h \in [DOMAIN f -> S] /\ \A n, m \in DOMAIN f : h[n] = h[m] => n = m
    BY DEF Keyed
  <2>2. \A r \in S : \E n \in DOMAIN f : h[n] = r
    OBVIOUS
  <2> HIDE DEF h, S
  <2> QED BY <2>1, <2>2 DEF Bijection, Injection, Surjection, IsInjective
<1>3. IsFiniteSet(S)
  <2>1. ExistsBijection(DOMAIN f, S)
    BY <1>2 DEF ExistsBijection
  <2> HIDE DEF S
  <2> QED BY <1>1, <2>1, FS_Bijection
<1>4. \A r \in S : r \in Rule /\ r.RuleName \in DOMAIN f /\ r = f[r.RuleName]
  BY DEF Keyed
<1>5. \A n \in DOMAIN f : f[n] \in S /\ f[n].RuleName = n
  BY DEF Keyed
<1>6. s \in [1 .. c -> S] /\ \A i, j \in 1 .. c : i # j => s[i] # s[j]
  BY DEF SetToSeqs
<1> HIDE DEF S, h
<1>7. c \in Nat
  BY <1>3, FS_CardinalityType
<1> HIDE DEF c
<1>8. s \in Seq(S) /\ Len(s) = c /\ s \in Seq(Rule) /\ \A i \in 1 .. c : s[i] \in S
  BY <1>4, <1>6, <1>7
<1>9. \A r \in S : \E i \in 1 .. c : s[i] = r
  <2>1. s \in Injection(1 .. c, S)
    BY <1>6 DEF Injection, IsInjective
  <2>2. Cardinality(1 .. c) = c
    BY <1>7, FS_Interval
  <2>3. s \in Surjection(1 .. c, S)
    BY <1>3, <2>1, <2>2, FS_Injection DEF c
  <2> QED BY <2>3 DEF Surjection
<1>10. \A i \in 1 .. c : s[i].RuleName \in DOMAIN f /\ s[i] = f[s[i].RuleName]
  BY <1>4, <1>8
<1>11. ASSUME NEW i \in 1 .. c, NEW j \in 1 .. c, s[i].RuleName = s[j].RuleName
       PROVE  i = j
  <2>1. s[i] = s[j]
    BY <1>10, <1>11
  <2> QED BY <1>6, <2>1
<1>12. \A n \in DOMAIN f : \E i \in 1 .. c : s[i].RuleName = n
  BY <1>5, <1>9
<1> QED BY <1>8, <1>10, <1>11, <1>12 DEF Listing

(* What is searched is a list the search is owed. *)
LEMMA SearchedLists ==
  ASSUME BuilderConstants, NEW s, NEW f, Keyed(f), Listing(s, f)
  PROVE  [k \in DOMAIN s |-> s[k].Salience] \in SortedLists
<1> DEFINE l == [k \in DOMAIN s |-> s[k].Salience]
<1>1. /\ Len(s) \in Nat /\ DOMAIN s = 1 .. Len(s)
      /\ \A k \in 1 .. Len(s) : s[k] \in Rule
      /\ \A i, j \in 1 .. Len(s) : i < j => s[i].Salience >= s[j].Salience
  BY ListingFacts
<1>2. Len(s) \in 0 .. Cardinality(Names)
  BY ListingCount
<1>3. l \in [1 .. Len(s) -> Saliences]
  BY <1>1 DEF Rule
<1>4. \A i, j \in DOMAIN l : i < j => l[i] >= l[j]
  BY <1>1
<1> HIDE DEF l
<1>5. l \in UNION {[1 .. n -> Saliences] : n \in 0 .. Cardinality(Names)}
  BY <1>2, <1>3
<1>6. l \in SortedLists
  BY <1>4, <1>5 DEF SortedLists
<1> QED BY <1>6 DEF l

LEMMA ListsAreSorted ==
  ASSUME BuilderConstants
  PROVE  Search!ListsSorted
<1> SUFFICES ASSUME NEW s \in SortedLists PROVE s \in Seq(Int) /\ Search!SortedDown(s)
  BY DEF Search!ListsSorted, BuilderConstants
<1>1. PICK n \in 0 .. Cardinality(Names) : s \in [1 .. n -> Saliences]
  BY DEF SortedLists
<1>2. Cardinality(Names) \in Nat /\ Saliences \subseteq Int
  BY FS_CardinalityType DEF BuilderConstants
<1>3. s \in Seq(Int)
  <2>1. n \in Nat
    BY <1>2
  <2>2. s = [i \in 1 .. n |-> s[i]] /\ \A i \in 1 .. n : s[i] \in Int
    BY <1>1, <1>2
  <2>3. s \in [1 .. n -> Int]
    BY <2>2
  <2> QED BY <2>1, <2>3
<1>4. Search!SortedDown(s)
  BY DEF SortedLists, Search!SortedDown
<1> QED BY <1>3, <1>4

-----------------------------------------------------------------------------
(* The binary search, on lists of any length *)

LEMMA ListFacts ==
  ASSUME Search!ListsSorted, Search!TypeOK
  PROVE  /\ re \in Seq(Int) /\ Len(re) \in Nat /\ DOMAIN re = 1 .. Len(re)
         /\ \A i \in 1 .. Len(re) : re[i] \in Int
         /\ \A i, j \in 1 .. Len(re) : i < j => re[i] >= re[j]
         /\ salience \in Int
<1>1. salience \in Int
  BY DEF Search!ListsSorted, Search!TypeOK
<1>2. re \in Seq(Int) /\ Search!SortedDown(re)
  <2>1. <<>> \in Seq(Int) /\ Search!SortedDown(<<>>)
    BY DEF Search!SortedDown
  <2> QED BY <2>1 DEF Search!ListsSorted, Search!TypeOK
<1> QED BY <1>1, <1>2 DEF Search!SortedDown

LEMMA MiddleFacts ==
  ASSUME Search!ListsSorted, Search!TypeOK, Narrowed, low <= high
  PROVE  Search!middle \in low .. high /\ Search!middle + 1 \in 1 .. Len(re)
<1>1. Len(re) \in Nat
  BY ListFacts
<1> QED BY <1>1 DEF Narrowed, Search!middle

LEMMA InitSearch == Search!Init => SearchInv
<1> SUFFICES ASSUME Search!Init PROVE SearchInv
  OBVIOUS
<1>1. re = <<>> /\ Len(re) = 0 /\ low = 0 /\ high = -1 /\ mid = 0 /\ spc = "idle" /\ salience = 0
  BY DEF Search!Init
<1> QED BY <1>1 DEF SearchInv, Search!TypeOK, Narrowed, Search!InRange, Search!KeepsOrder

LEMMA SearchStep ==
  ASSUME Search!ListsSorted, SearchInv, [Search!Next]_Search!vars
  PROVE  SearchInv'
<1>0. /\ Search!TypeOK /\ Narrowed /\ Len(re) \in Nat /\ salience \in Int
      /\ \A i \in 1 .. Len(re) : re[i] \in Int
      /\ \A i, j \in 1 .. Len(re) : i < j => re[i] >= re[j]
  BY ListFacts DEF SearchInv
<1>1. CASE Search!Met
  <2>1. /\ Search!middle \in low .. high /\ Search!middle + 1 \in 1 .. Len(re) /\ re[Search!middle + 1] = salience
        /\ mid' = Search!middle /\ spc' = "done" /\ UNCHANGED <<re, salience, low, high>>
    BY <1>0, <1>1, MiddleFacts DEF Search!Met
  <2>2. Search!position' = Search!middle
    BY <1>0, <2>1 DEF Search!position, Narrowed
  <2>3. Search!TypeOK' /\ Narrowed'
    BY <1>0, <2>1 DEF Search!TypeOK, Narrowed
  <2>4. /\ \A i \in 1 .. Search!middle : re[i] >= salience
        /\ \A i \in Search!middle + 1 .. Len(re) : re[i] <= salience
    <3>1. /\ \A i \in 1 .. Len(re) : i < Search!middle + 1 => re[i] >= re[Search!middle + 1]
          /\ \A i \in 1 .. Len(re) : Search!middle + 1 < i => re[Search!middle + 1] >= re[i]
      BY <1>0, <2>1
    <3>2. Search!middle \in Int /\ Search!middle < Len(re)
      BY <1>0, <2>1
    <3> HIDE DEF Search!middle
    <3> QED BY <1>0, <2>1, <3>1, <3>2
  <2>5. Search!InRange' /\ Search!KeepsOrder'
    BY <1>0, <2>1, <2>2, <2>4 DEF Search!InRange, Search!KeepsOrder, Search!InsertionPoints, Narrowed
  <2> QED BY <2>3, <2>5 DEF SearchInv
<1>2. CASE Search!GoLeft
  <2>1. /\ Search!middle \in low .. high /\ Search!middle + 1 \in 1 .. Len(re) /\ re[Search!middle + 1] < salience
        /\ high' = Search!middle - 1 /\ spc = "loop" /\ UNCHANGED <<re, salience, low, mid, spc>>
    BY <1>0, <1>2, MiddleFacts DEF Search!GoLeft
  <2>2. \A i \in Search!middle + 1 .. Len(re) : re[i] < salience
    BY <1>0, <2>1
  <2>3. Search!TypeOK' /\ Narrowed'
    BY <1>0, <2>1, <2>2 DEF Search!TypeOK, Narrowed
  <2>4. low' <= high' => Search!middle' \in 0 .. Len(re') - 1
    BY <1>0, <2>1, <2>3 DEF Narrowed, Search!middle
  <2> QED BY <2>1, <2>3, <2>4 DEF SearchInv, Search!InRange, Search!KeepsOrder
<1>3. CASE Search!GoRight
  <2>1. /\ Search!middle \in low .. high /\ Search!middle + 1 \in 1 .. Len(re) /\ re[Search!middle + 1] > salience
        /\ low' = Search!middle + 1 /\ spc = "loop" /\ UNCHANGED <<re, salience, high, mid, spc>>
    BY <1>0, <1>3, MiddleFacts DEF Search!GoRight
  <2>2. \A i \in 1 .. Search!middle + 1 : re[i] > salience
    BY <1>0, <2>1
  <2>3. Search!TypeOK' /\ Narrowed'
    BY <1>0, <2>1, <2>2 DEF Search!TypeOK, Narrowed
  <2>4. low' <= high' => Search!middle' \in 0 .. Len(re') - 1
    BY <1>0, <2>1, <2>3 DEF Narrowed, Search!middle
  <2> QED BY <2>1, <2>3, <2>4 DEF SearchInv, Search!InRange, Search!KeepsOrder
<1>4. CASE Search!Exhausted
  <2>1. mid = 0 /\ low = high + 1 /\ spc' = "done" /\ UNCHANGED <<re, salience, low, high, mid>>
    BY <1>0, <1>4 DEF Search!Exhausted, Narrowed
  <2>2. Search!position' = low
    BY <2>1 DEF Search!position
  <2>3. Search!TypeOK' /\ Narrowed'
    BY <1>0, <2>1 DEF Search!TypeOK, Narrowed
  <2>4. /\ \A i \in 1 .. low : re[i] >= salience
        /\ \A i \in low + 1 .. Len(re) : re[i] <= salience
    BY <1>0, <2>1 DEF Narrowed
  <2>5. Search!InRange' /\ Search!KeepsOrder'
    BY <1>0, <2>1, <2>2, <2>4 DEF Search!InRange, Search!KeepsOrder, Search!InsertionPoints, Narrowed
  <2> QED BY <2>3, <2>5 DEF SearchInv
<1>5. CASE Search!Call
  <2>1. /\ re' \in Seq(Int) /\ Len(re') \in Nat /\ re' \in SortedLists /\ salience' \in Saliences
        /\ low' = 0 /\ high' = Len(re') - 1 /\ mid' = 0 /\ spc' = "loop"
    BY <1>5 DEF Search!Call, Search!Start, Search!ListsSorted
  <2>2. Search!TypeOK' /\ Narrowed'
    BY <2>1 DEF Search!TypeOK, Narrowed
  <2>3. low' <= high' => Search!middle' \in 0 .. Len(re') - 1
    BY <2>1 DEF Search!middle
  <2> QED BY <2>1, <2>2, <2>3 DEF SearchInv, Search!InRange, Search!KeepsOrder
<1>6. CASE Search!Return
  <2>1. re' = <<>> /\ Len(re') = 0 /\ low' = 0 /\ high' = -1 /\ mid' = 0 /\ spc' = "idle" /\ salience' = 0
    BY <1>6 DEF Search!Return
  <2> QED BY <2>1 DEF SearchInv, Search!TypeOK, Narrowed, Search!InRange, Search!KeepsOrder
<1>7. CASE UNCHANGED Search!vars
  BY <1>7 DEF SearchInv, Search!TypeOK, Narrowed, Search!InRange, Search!KeepsOrder, Search!InsertionPoints, Search!position, Search!middle, Search!vars
<1> QED BY <1>1, <1>2, <1>3, <1>4, <1>5, <1>6, <1>7 DEF Search!Next

(* Called on sorted lists only, the search keeps its invariant in every    *)
(* reachable state.                                                        *)
LEMMA SearchInvariant == Search!Spec => []SearchInv
<1>1. Search!ListsSorted
  BY ListsAreSorted, BuilderConstants
<1>2. SearchInv /\ [Search!Next]_Search!vars => SearchInv'
  BY <1>1, SearchStep
<1> QED BY InitSearch, <1>2, PTL DEF Search!Spec

(* No index and no slice expression of the search and of its callers is    *)
(* out of range, for any list sorted by descending salience.               *)
THEOREM SearchInRange == Search!Spec => []Search!InRange
<1>1. SearchInv => Search!InRange
  BY DEF SearchInv
<1> QED BY SearchInvariant, <1>1, PTL

(* Inserting where the callers insert keeps any descending list sorted.    *)
THEOREM SearchKeepsOrder == Search!Spec => []Search!KeepsOrder
<1>1. SearchInv => Search!KeepsOrder
  BY DEF SearchInv
<1> QED BY SearchInvariant, <1>1, PTL

-----------------------------------------------------------------------------
(* What a call still owes *)

LEMMA OwedFacts ==
  /\ \A a, f : Keyed(a) /\ Keyed(f) /\ Owed(a, {}, f) => a = f
  /\ \A r, f : Keyed(r) /\ Keyed(f) =>
       Keyed(Over(r, f)) /\ Owed(Over(r, f), {r[n] : n \in DOMAIN r}, f)
<1>1. ASSUME NEW a, NEW f, Keyed(a), Keyed(f), Owed(a, {}, f)
      PROVE  a = f
  <2>1. DOMAIN a = DOMAIN f /\ \A n \in DOMAIN a : a[n] = f[n]
    BY <1>1 DEF Owed
  <2>2. a = [n \in DOMAIN a |-> a[n]] /\ f = [n \in DOMAIN f |-> f[n]]
    BY <1>1 DEF Keyed
  <2> QED BY <2>1, <2>2
<1>2. ASSUME NEW r, NEW f, Keyed(r), Keyed(f)
      PROVE  Keyed(Over(r, f)) /\ Owed(Over(r, f), {r[n] : n \in DOMAIN r}, f)
  <2> DEFINE a == Over(r, f)
             p == {r[n] : n \in DOMAIN r}
  <2>1. /\ DOMAIN a = DOMAIN r \cup DOMAIN f /\ a = [n \in DOMAIN a |-> a[n]]
        /\ \A n \in DOMAIN a : a[n] = IF n \in DOMAIN r THEN r[n] ELSE f[n]
    BY DEF Over
  <2>2. \A v \in p : v.RuleName \in DOMAIN r /\ r[v.RuleName] = v
    BY <1>2 DEF Keyed
  <2>3. \A n \in DOMAIN r : r[n] \in p
    OBVIOUS
  <2> HIDE DEF a, p
  <2>4. \A n \in DOMAIN a : a[n] \in Rule /\ a[n].RuleName = n /\ n \in Names
    BY <1>2, <2>1 DEF Keyed
  <2>5. Keyed(a)
    BY <2>1, <2>4 DEF Keyed
  <2>6. Owed(a, p, f)
    BY <2>1, <2>2, <2>3 DEF Owed
  <2> QED BY <2>5, <2>6 DEF a, p
<1> QED BY <1>1, <1>2

(* Entering a rule settles it and no other. *)
LEMMA OwedEntered ==
  ASSUME NEW a, NEW f, NEW p, Keyed(a), Owed(a, p, f), NEW v \in p
  PROVE  Owed(a, p \ {v}, Over([n \in {v.RuleName} |-> v], f))
<1> DEFINE g == Over([n \in {v.RuleName} |-> v], f)
<1>1. /\ DOMAIN g = DOMAIN f \cup {v.RuleName} /\ g[v.RuleName] = v
      /\ \A n \in DOMAIN f : n # v.RuleName => g[n] = f[n]
  BY DEF Over
<1> HIDE DEF g
<1>2. v.RuleName \in DOMAIN a /\ a[v.RuleName] = v
  BY DEF Owed
<1>3. \A n \in DOMAIN a : a[n].RuleName = n
  BY DEF Keyed
<1>4. \A n \in DOMAIN a : n # v.RuleName => a[n] # v
  BY <1>3
<1>5. \A n \in DOMAIN g : n \in DOMAIN a /\ (a[n] = g[n] \/ a[n] \in p \ {v})
  BY <1>1, <1>2, <1>4 DEF Owed
<1>6. \A n \in DOMAIN a : n \in DOMAIN g \/ a[n] \in p \ {v}
  BY <1>1, <1>4 DEF Owed
<1>7. \A w \in p \ {v} : w.RuleName \in DOMAIN a /\ a[w.RuleName] = w
  BY DEF Owed
<1>8. Owed(a, p \ {v}, g)
  BY <1>5, <1>6, <1>7 DEF Owed
<1> QED BY <1>8 DEF g

LEMMA KeyedEntities == \A f : Keyed(f) => f \in Entities
BY DEF Keyed, Entities

LEMMA KeyedWithout ==
  ASSUME NEW f, Keyed(f), NEW S
  PROVE  Keyed(Without(f, S))
BY DEF Keyed, Without

(* Rules of a text have the names they stand under. *)
LEMMA KeyedTexts ==
  ASSUME NEW n \in Nat, NEW rules \in Texts(n)
  PROVE  Keyed(rules)
<1>1. PICK D \in SUBSET Names : \E sal \in [D -> Saliences] :
             rules = [name \in DOMAIN sal |-> [RuleName |-> name, Salience |-> sal[name], version |-> n]]
  BY DEF Texts
<1>2. PICK sal \in [D -> Saliences] :
             rules = [name \in D |-> [RuleName |-> name, Salience |-> sal[name], version |-> n]]
  BY <1>1
<1>3. DOMAIN rules = D /\ \A m \in D : rules[m] \in Rule /\ rules[m].RuleName = m
  BY <1>2 DEF Rule
<1> QED BY <1>2, <1>3 DEF Keyed

-----------------------------------------------------------------------------
(* The search as a part of the update *)

LEMMA SearchMoves ==
  ASSUME BuilderConstants, SearchInv, [Search!Next]_Search!vars
  PROVE  SearchInv'
BY ListsAreSorted, SearchStep

(* Where the rule may be inserted *)
LEMMA SearchAnswer ==
  ASSUME BuilderConstants, SearchInv, spc = "done"
  PROVE  /\ Search!position \in 0 .. Len(re)
         /\ \A i \in 1 .. Search!position : re[i] >= salience
         /\ \A i \in Search!position + 1 .. Len(re) : re[i] <= salience
BY DEF SearchInv, Search!KeepsOrder, Search!InsertionPoints, Search!position

LEMMA InitBuilder == BuilderConstants /\ Init => BuilderInv
<1> SUFFICES ASSUME BuilderConstants, Init PROVE BuilderInv
  OBVIOUS
<1>1. /\ heap = <<<<>>>> /\ Kc = 1 /\ pc = "idle" /\ room = Nothing /\ todo = {} /\ newRuleEntities = <<>>
      /\ kcs = <<[RuleEntities |-> <<>>, SortRules |-> Nothing, SortRulesIndexMap |-> <<>>]>>
      /\ newSortRules = Nothing /\ calls = 0 /\ asked = <<>> /\ published = {Nothing}
  BY DEF Init
<1>2. heap \in Seq(Seq(Cell)) /\ Len(heap) = 1 /\ heap[1] = <<>>
  BY <1>1
<1>3. SliceIn(heap, Nothing) /\ RulesOf(heap, Nothing) = <<>>
  <2>1. SubSeq(<<>>, 1, 0) = <<>>
    BY SubSeqEmpty
  <2>2. RulesOf(heap, Nothing) = SubSeq(<<>>, 1, 0)
    BY <1>2 DEF Nothing, RulesOf
  <2> QED BY <1>2, <2>1, <2>2 DEF SliceIn, Nothing, SliceHeader
<1>4. Keyed(<<>>) /\ <<>> \in Entities /\ <<>> \in IndexMaps
  <2>1. DOMAIN <<>> = {} /\ <<>> \in [{} -> Rule] /\ <<>> \in [{} -> Nat]
    OBVIOUS
  <2>2. Keyed(<<>>)
    BY <2>1 DEF Keyed
  <2>3. [{} -> Nat] \in {[D -> Nat] : D \in SUBSET Names}
    OBVIOUS
  <2> QED BY <2>1, <2>2, <2>3, KeyedEntities DEF IndexMaps
<1>5. /\ kcs \in Seq(Context) /\ Len(kcs) = 1
      /\ kcs[Kc].SortRules = Nothing /\ kcs[Kc].RuleEntities = <<>> /\ kcs[Kc].SortRulesIndexMap = <<>>
  BY <1>1, <1>4 DEF Context, Nothing, SliceHeader
<1>6. Memory
  BY <1>1, <1>2, <1>3, <1>5 DEF Memory
<1>7. spc = "idle" /\ Search!Init
  BY DEF Init, Search!Init
<1>8. Control
  BY <1>1, <1>4, <1>7 DEF Control
<1>9. Private /\ Asked /\ Copy /\ Stored /\ Searched
  BY <1>1, <1>5 DEF Private, Asked, Copy, Stored, Searched
<1>10. Live
  <2>1. Listing(<<>>, <<>>) /\ IndexOf(<<>>, <<>>)
    BY DEF Listing, IndexOf, SortedDown
  <2> QED BY <1>3, <1>5, <2>1 DEF Live
<1>11. SearchInv
  BY <1>7, InitSearch
<1> QED BY <1>6, <1>8, <1>9, <1>10, <1>11 DEF BuilderInv

-----------------------------------------------------------------------------
(* The steps *)

(* What no step changes: the rules of a published slice *)
Kept == \A sl \in published : RulesOf(heap', sl) = RulesOf(heap, sl)

(* What every step does *)
Promise == BuilderInv' /\ Kept /\ [Search!Next]_Search!vars

(* The rules of the slice of the copy in search of the place of an update *)
LEMMA IndexFound ==
  ASSUME BuilderConstants, NEW s, NEW f, NEW map, Listing(s, f), IndexOf(map, s), NEW n \in DOMAIN f
  PROVE  /\ n \in DOMAIN map /\ map[n] + 1 \in 1 .. Len(s)
         /\ s[map[n] + 1] = f[n] /\ s[map[n] + 1].RuleName = n
<1>1. DOMAIN s = 1 .. Len(s) /\ Len(s) \in Nat
  BY ListingFacts
<1>2. PICK i \in 1 .. Len(s) : s[i].RuleName = n
  BY DEF Listing
<1>3. n \in DOMAIN map /\ map[n] = i - 1
  BY <1>1, <1>2 DEF IndexOf
<1>4. map[n] + 1 = i
  BY <1>1, <1>3
<1>5. s[i] = f[s[i].RuleName]
  BY DEF Listing
<1> QED BY <1>2, <1>3, <1>4, <1>5

LEMMA NewKcStep ==
  ASSUME BuilderConstants, BuilderInv, pc = "idle", NEW rules, Keyed(rules),
         NewKc(rules), asked' = rules, calls' = calls + 1, UNCHANGED <<pc, copies, place>>
  PROVE  Promise
<1>0. /\ Memory /\ Control /\ SearchInv
      /\ UNCHANGED <<pc, todo, newRuleEntities, newSortRules, moving, room, search>>
  BY DEF BuilderInv, copies, place
<1>1. PICK s \in SetToSeqs({rules[n] : n \in DOMAIN rules}) :
        /\ SortedDown(s)
        /\ heap' = Append(heap, Padded(s, GrownTo[Len(s)]))
        /\ kcs' = Append(kcs, [RuleEntities |-> rules, SortRules |-> [arr |-> Len(heap) + 1, len |-> Len(s)],
                               SortRulesIndexMap |-> indexMap(s)])
        /\ Kc' = Len(kcs) + 1
        /\ published' = published \cup {[arr |-> Len(heap) + 1, len |-> Len(s)]}
  BY DEF NewKc
<1>1a. PICK sl : sl = [arr |-> Len(heap) + 1, len |-> Len(s)]
  OBVIOUS
<1> DEFINE kc == [RuleEntities |-> rules, SortRules |-> sl, SortRulesIndexMap |-> indexMap(s)]
           a == Padded(s, GrownTo[Len(s)])
<1>2. Listing(s, rules) /\ s \in Seq(Rule) /\ Len(s) \in Nat
  BY <1>1, ListingOfSeqs, ListingFacts
<1>3. GrownTo[Len(s)] \in Nat /\ GrownTo[Len(s)] >= Len(s)
  BY <1>2, ListingCount DEF BuilderConstants
<1>4. a \in Seq(Cell) /\ Len(a) >= Len(s) /\ SubSeq(a, 1, Len(s)) = s
  BY <1>2, <1>3, PaddedFacts
<1>5. heap' = Append(heap, a) /\ heap \in Seq(Seq(Cell)) /\ Len(heap) \in Nat
  BY <1>0, <1>1, LenProperties DEF Memory
<1> HIDE DEF a
<1>6. /\ heap' \in Seq(Seq(Cell)) /\ Len(heap') = Len(heap) + 1 /\ heap'[Len(heap) + 1] = a
      /\ \A t : SliceIn(heap, t) => SliceIn(heap', t) /\ RulesOf(heap', t) = RulesOf(heap, t)
  BY <1>4, <1>5, ArrayAdded
<1>7. SliceIn(heap', sl) /\ RulesOf(heap', sl) = s /\ sl \in SliceHeader
  BY <1>1a, <1>2, <1>4, <1>5, <1>6 DEF SliceIn, RulesOf, SliceHeader
<1>8. IndexOf(indexMap(s), s) /\ indexMap(s) \in IndexMaps /\ rules \in Entities
  BY <1>2, IndexMapOfListing, KeyedEntities
<1>9. kcs' \in Seq(Context) /\ Kc' \in 1 .. Len(kcs') /\ kcs'[Kc'] = kc
  <2>1. kcs \in Seq(Context) /\ Len(kcs) \in Nat
    BY <1>0, LenProperties DEF Memory
  <2>2. kc \in Context
    BY <1>7, <1>8 DEF Context
  <2>3. kcs' = Append(kcs, kc)
    BY <1>1, <1>1a
  <2> HIDE DEF kc
  <2> QED BY <1>1, <2>1, <2>2, <2>3, AppendProperties
<1>10. /\ kcs'[Kc'].RuleEntities = rules /\ kcs'[Kc'].SortRules = sl
       /\ kcs'[Kc'].SortRulesIndexMap = indexMap(s)
  BY <1>9
<1>11. published' = published \cup {sl}
  BY <1>1, <1>1a
<1> HIDE DEF kc
<1>12. Memory'
  BY <1>0, <1>6, <1>7, <1>9, <1>11 DEF Memory
<1>13. Control' /\ Private' /\ Copy' /\ Stored' /\ Searched'
  BY <1>0 DEF Control, Private, Copy, Stored, Searched, search
<1>14. Asked'
  BY <1>0, <1>10 DEF Asked
<1>15. Live'
  BY <1>2, <1>7, <1>8, <1>10 DEF Live
<1>16. UNCHANGED Search!vars
  BY <1>0 DEF search, Search!vars
<1>17. SearchInv'
  BY <1>0, <1>16, SearchMoves
<1>18. Kept
  BY <1>0, <1>6 DEF Kept, Memory
<1> QED BY <1>12, <1>13, <1>14, <1>15, <1>16, <1>17, <1>18 DEF Promise, BuilderInv

LEMMA IncrementalStep ==
  ASSUME BuilderConstants, BuilderInv, NEW rules \in Texts(calls + 1), Incremental(rules)
  PROVE  Promise
<1>1. /\ pc = "idle" /\ pc' = "update" /\ calls' = calls + 1
      /\ todo' = {rules[n] : n \in DOMAIN rules} /\ newRuleEntities' = kcs[Kc].RuleEntities
      /\ heap' = Append(heap, RulesOf(heap, kcs[Kc].SortRules))
      /\ asked' = Over(rules, asked)
      /\ UNCHANGED <<kcs, Kc, published, moving, room, search>>
  BY DEF Incremental, Called, place, Elems, RulesOf
<1>2. PICK sl : sl = [arr |-> Len(heap) + 1, len |-> kcs[Kc].SortRules.len]
  OBVIOUS
<1>3. newSortRules' = sl
  BY <1>2 DEF Incremental
<1>4. /\ Memory /\ Control /\ SearchInv /\ asked = kcs[Kc].RuleEntities
      /\ SliceIn(heap, kcs[Kc].SortRules)
      /\ Listing(RulesOf(heap, kcs[Kc].SortRules), kcs[Kc].RuleEntities)
      /\ IndexOf(kcs[Kc].SortRulesIndexMap, RulesOf(heap, kcs[Kc].SortRules))
  BY <1>1 DEF BuilderInv, Asked, Live
<1>5. PICK a : a = RulesOf(heap, kcs[Kc].SortRules)
  OBVIOUS
<1>6. heap \in Seq(Seq(Cell)) /\ Len(heap) \in Nat /\ a \in Seq(Cell) /\ Len(a) = kcs[Kc].SortRules.len
  BY <1>4, <1>5, ElemsFacts, LenProperties DEF Memory
<1>7. /\ heap' \in Seq(Seq(Cell)) /\ Len(heap') = Len(heap) + 1 /\ heap'[Len(heap) + 1] = a
      /\ \A t : SliceIn(heap, t) => SliceIn(heap', t) /\ RulesOf(heap', t) = RulesOf(heap, t)
  BY <1>1, <1>5, <1>6, ArrayAdded
<1>8. RulesOf(heap', sl) = a /\ SliceIn(heap', sl)
  <2>1. SubSeq(a, 1, Len(a)) = a /\ Len(a) \in Nat
    BY <1>6, SubSeqFull, LenProperties
  <2> QED BY <1>2, <1>6, <1>7, <2>1, SMTT(30) DEF SliceIn, RulesOf, SliceHeader
<1>9. Memory'
  BY <1>1, <1>3, <1>4, <1>7, <1>8 DEF Memory
<1>10. Keyed(rules) /\ Keyed(asked) /\ rules \in [DOMAIN rules -> Rule]
  BY <1>4, KeyedTexts DEF Keyed, Control
<1>11. Control'
  <2>1. Keyed(asked') /\ todo' \subseteq Rule
    BY <1>1, <1>10, OwedFacts, ZenonT(30) DEF Keyed
  <2> QED BY <1>1, <1>4, <1>10, <2>1 DEF Control, search
<1>12. Asked'
  <2>1. Owed(asked', todo', newRuleEntities')
    BY <1>1, <1>4, <1>10, OwedFacts
  <2>2. pending' = todo'
    BY <1>1 DEF pending
  <2> QED BY <1>1, <2>1, <2>2 DEF Asked
<1>13. Private'
  <2>1. \A t \in published : t.arr \in 1 .. Len(heap)
    BY <1>4 DEF Memory, SliceIn
  <2> QED BY <1>1, <1>2, <1>3, <1>6, <2>1 DEF Private
<1>14. Live' /\ Stored' /\ Searched'
  BY <1>1 DEF Live, Stored, Searched
<1>15. Copy'
  BY <1>1, <1>3, <1>4, <1>5, <1>8 DEF Copy
<1>16. UNCHANGED Search!vars
  BY <1>1 DEF search, Search!vars
<1>17. SearchInv'
  BY <1>4, <1>16, SearchMoves
<1>18. Kept
  BY <1>4, <1>7 DEF Kept, Memory
<1> QED BY <1>9, <1>11, <1>12, <1>13, <1>14, <1>15, <1>16, <1>17, <1>18 DEF Promise, BuilderInv

(* What the visit of a rule finds: the copy lists the rules, its array is  *)
(* in no published slice, and a known rule is where the index map says.    *)
LEMMA VisitFacts ==
  ASSUME BuilderConstants, BuilderInv, NEW v, Visit(v)
  PROVE  /\ pc = "update" /\ v \in todo /\ v \in Rule /\ todo' = todo \ {v}
         /\ UNCHANGED <<kcs, Kc, newSortRules, calls, asked, published>>
         /\ heap \in Seq(Seq(Cell)) /\ SliceIn(heap, newSortRules)
         /\ Listing(RulesOf(heap, newSortRules), newRuleEntities)
         /\ Len(RulesOf(heap, newSortRules)) = newSortRules.len
         /\ \A sl \in published : SliceIn(heap, sl) /\ sl.arr # newSortRules.arr
         /\ Known(v) => /\ index(v) + 1 \in 1 .. Len(RulesOf(heap, newSortRules))
                        /\ RulesOf(heap, newSortRules)[index(v) + 1] = newRuleEntities[v.RuleName]
                        /\ newRuleEntities[v.RuleName].RuleName = v.RuleName
<1>1. /\ pc = "update" /\ v \in todo /\ todo' = todo \ {v}
      /\ UNCHANGED <<kcs, Kc, newSortRules, calls, asked, published>>
  BY DEF Visit, history
<1>2. /\ heap \in Seq(Seq(Cell)) /\ SliceIn(heap, newSortRules) /\ v \in Rule
      /\ Listing(RulesOf(heap, newSortRules), newRuleEntities)
      /\ IndexOf(kcs[Kc].SortRulesIndexMap, RulesOf(heap, newSortRules))
      /\ \A sl \in published : SliceIn(heap, sl) /\ sl.arr # newSortRules.arr
  BY <1>1 DEF BuilderInv, Memory, Control, Copy, Private
<1>3. Len(RulesOf(heap, newSortRules)) = newSortRules.len
  BY <1>2, ElemsFacts
<1>4. ASSUME Known(v)
      PROVE  /\ index(v) + 1 \in 1 .. Len(RulesOf(heap, newSortRules))
             /\ RulesOf(heap, newSortRules)[index(v) + 1] = newRuleEntities[v.RuleName]
             /\ newRuleEntities[v.RuleName].RuleName = v.RuleName
  <2>1. v.RuleName \in DOMAIN newRuleEntities
    BY <1>4 DEF Known
  <2> DEFINE map == kcs[Kc].SortRulesIndexMap
  <2>2. /\ v.RuleName \in DOMAIN map /\ map[v.RuleName] + 1 \in 1 .. Len(RulesOf(heap, newSortRules))
        /\ RulesOf(heap, newSortRules)[map[v.RuleName] + 1] = newRuleEntities[v.RuleName]
        /\ RulesOf(heap, newSortRules)[map[v.RuleName] + 1].RuleName = v.RuleName
    BY <1>2, <2>1, IndexFound
  <2>3. index(v) = map[v.RuleName]
    BY <2>2 DEF index
  <2> QED BY <2>2, <2>3
<1> QED BY <1>1, <1>2, <1>3, <1>4

(* A rule of unchanged salience is overwritten where it is. *)
LEMMA ReplaceStep ==
  ASSUME BuilderConstants, BuilderInv, NEW v \in todo, Replace(v)
  PROVE  Promise
<1>1. Visit(v) /\ Known(v)
  BY DEF Replace
<1>2. PICK s : s = RulesOf(heap, newSortRules)
  OBVIOUS
<1>3. PICK i : i = index(v) + 1
  OBVIOUS
<1>4. PICK t : t = ReplaceAt(s, i, v)
  OBVIOUS
<1>5. /\ pc = "update" /\ v \in todo /\ v \in Rule /\ todo' = todo \ {v}
      /\ UNCHANGED <<kcs, Kc, newSortRules, calls, asked, published>>
      /\ heap \in Seq(Seq(Cell)) /\ SliceIn(heap, newSortRules)
      /\ Listing(s, newRuleEntities) /\ Len(s) = newSortRules.len
      /\ \A sl \in published : SliceIn(heap, sl) /\ sl.arr # newSortRules.arr
      /\ i \in 1 .. Len(s) /\ s[i] = newRuleEntities[v.RuleName] /\ s[i].RuleName = v.RuleName
  BY <1>1, <1>2, <1>3, VisitFacts
<1>6. /\ UNCHANGED <<pc, moving, room, search>> /\ heap' = Written(newSortRules, t)
      /\ s[i].Salience = v.Salience
      /\ newRuleEntities' = Over([n \in {v.RuleName} |-> v], newRuleEntities)
  BY <1>2, <1>3, <1>4, <1>5 DEF Replace, Entered, place, Elems, RulesOf
<1>7. /\ Listing(t, newRuleEntities') /\ Len(t) = Len(s)
      /\ \A map : IndexOf(map, s) => IndexOf(map, t)
  BY <1>4, <1>5, <1>6, ListingReplaced
<1>8. t \in Seq(Cell) /\ Len(t) <= Cap(newSortRules)
  <2>1. t \in Seq(Rule)
    BY <1>7 DEF Listing
  <2> QED BY <1>5, <1>7, <2>1, SeqMonotonic DEF Cell, SliceIn, Cap
<1>9. /\ heap' \in Seq(Seq(Cell)) /\ Len(heap') = Len(heap)
      /\ SubSeq(heap'[newSortRules.arr], 1, Len(t)) = t
      /\ \A sl : SliceIn(heap, sl) => SliceIn(heap', sl)
      /\ \A sl : SliceIn(heap, sl) /\ sl.arr # newSortRules.arr => RulesOf(heap', sl) = RulesOf(heap, sl)
  BY <1>5, <1>6, <1>8, ArrayWritten
<1>10. Memory /\ Control /\ SearchInv /\ Owed(asked, todo, newRuleEntities)
       /\ IndexOf(kcs[Kc].SortRulesIndexMap, s)
  BY <1>2, <1>5 DEF BuilderInv, Asked, Copy, pending
<1>11. Memory'
  BY <1>5, <1>6, <1>9, <1>10 DEF Memory
<1>12. Control'
  BY <1>5, <1>6, <1>10, KeyedEntered DEF Control, search
<1>13. Asked'
  <2>1. Owed(asked', todo', newRuleEntities')
    BY <1>5, <1>6, <1>10, OwedEntered, ZenonT(30) DEF Control
  <2>2. pending' = todo'
    BY <1>5, <1>6 DEF pending
  <2> QED BY <1>5, <1>6, <2>1, <2>2 DEF Asked
<1>14. Private' /\ Live' /\ Stored' /\ Searched'
  BY <1>5, <1>6 DEF Private, Live, Stored, Searched
<1>15. Copy'
  <2>1. RulesOf(heap', newSortRules') = t
    BY <1>5, <1>7, <1>9 DEF RulesOf
  <2> QED BY <1>5, <1>7, <1>10, <2>1 DEF Copy
<1>16. UNCHANGED Search!vars
  BY <1>6 DEF search, Search!vars
<1>17. SearchInv'
  BY <1>10, <1>16, SearchMoves
<1>18. Kept
  BY <1>5, <1>9 DEF Kept
<1> QED BY <1>11, <1>12, <1>13, <1>14, <1>15, <1>16, <1>17, <1>18 DEF Promise, BuilderInv

(* A search begins on the slice sl, whose rules are those of s. *)
LEMMA SearchBegun ==
  ASSUME BuilderConstants, BuilderInv, pc = "update", NEW v \in Rule, NEW sl, NEW s, NEW f,
         Keyed(f), Listing(s, f), SearchIn(sl, s, v)
  PROVE  /\ SearchInv' /\ spc' = "loop" /\ [Search!Next]_Search!vars
         /\ re' = [k \in 1 .. Len(s) |-> s[k].Salience] /\ salience' = v.Salience
<1>1. /\ re' = [k \in DOMAIN s |-> s[k].Salience] /\ salience' = v.Salience
      /\ Search!Start /\ DOMAIN s = 1 .. Len(s)
  BY ListingFacts DEF SearchIn
<1>2. re' \in SortedLists /\ salience' \in Saliences
  BY <1>1, SearchedLists DEF Rule
<1>3. Search!Next /\ spc' = "loop"
  BY <1>1, <1>2 DEF Search!Next, Search!Call, Search!Start
<1>4. SearchInv'
  BY <1>3, SearchMoves DEF BuilderInv
<1> QED BY <1>1, <1>3, <1>4

(* A rule whose salience changed is taken out before its place is sought. *)
LEMMA MoveStep ==
  ASSUME BuilderConstants, BuilderInv, NEW v \in todo, Move(v)
  PROVE  Promise
<1>1. Visit(v) /\ Known(v)
  BY DEF Move
<1>2. PICK s : s = RulesOf(heap, newSortRules)
  OBVIOUS
<1>3. PICK i : i = index(v) + 1
  OBVIOUS
<1>4. PICK t : t = RemoveAt(s, i)
  OBVIOUS
<1>5. /\ pc = "update" /\ v \in todo /\ v \in Rule /\ todo' = todo \ {v}
      /\ UNCHANGED <<kcs, Kc, newSortRules, calls, asked, published>>
      /\ heap \in Seq(Seq(Cell)) /\ SliceIn(heap, newSortRules)
      /\ Listing(s, newRuleEntities) /\ Len(s) = newSortRules.len /\ Len(s) \in Nat
      /\ \A sl \in published : SliceIn(heap, sl) /\ sl.arr # newSortRules.arr
      /\ i \in 1 .. Len(s) /\ s[i].RuleName = v.RuleName /\ v.RuleName \in DOMAIN newRuleEntities
  BY <1>1, <1>2, <1>3, VisitFacts, ListingFacts DEF Known
<1>6. PICK sl : sl = [newSortRules EXCEPT !.len = @ - 1]
  OBVIOUS
<1>7. /\ SearchIn(sl, t, v) /\ heap' = Written(newSortRules, t)
      /\ pc' = "search" /\ moving' = v /\ room' = sl /\ UNCHANGED newRuleEntities
  BY <1>2, <1>3, <1>4, <1>6 DEF Move, SearchIn, Elems, RulesOf
<1>8. /\ Listing(t, Without(newRuleEntities, {v.RuleName})) /\ Len(t) = Len(s) - 1
      /\ Keyed(newRuleEntities)
  BY <1>4, <1>5, ListingWithout DEF BuilderInv, Control
<1>9. t \in Seq(Cell) /\ Len(t) <= Cap(newSortRules)
  <2>1. t \in Seq(Rule)
    BY <1>8 DEF Listing
  <2>2. heap[newSortRules.arr] \in Seq(Cell)
    BY <1>5, ElementOfSeq DEF SliceIn
  <2> QED BY <1>5, <1>8, <2>1, <2>2, SeqMonotonic, LenProperties DEF Cell, SliceIn, Cap
<1>10. /\ heap' \in Seq(Seq(Cell)) /\ Len(heap') = Len(heap)
       /\ SubSeq(heap'[newSortRules.arr], 1, Len(t)) = t
       /\ \A x : SliceIn(heap, x) => SliceIn(heap', x)
       /\ \A x : SliceIn(heap, x) /\ x.arr # newSortRules.arr => RulesOf(heap', x) = RulesOf(heap, x)
  BY <1>5, <1>7, <1>9, ArrayWritten
<1>11. /\ sl.arr = newSortRules.arr /\ sl.len = Len(t) /\ newSortRules.len = sl.len + 1
       /\ SliceIn(heap', sl) /\ RulesOf(heap', sl) = t
  <2>1. newSortRules \in SliceHeader /\ SliceIn(heap', newSortRules)
    BY <1>5, <1>10 DEF SliceIn
  <2>2. sl \in SliceHeader /\ sl.arr = newSortRules.arr /\ sl.len = newSortRules.len - 1
    BY <1>5, <1>6, <2>1 DEF SliceHeader
  <2>3. heap'[sl.arr] \in Seq(Cell)
    BY <1>10, <2>1, <2>2, ElementOfSeq DEF SliceIn
  <2>4. Len(heap'[sl.arr]) \in Nat /\ sl.len \in Nat /\ newSortRules.len \in Nat
    BY <2>1, <2>2, <2>3, LenProperties DEF SliceHeader
  <2>5. sl.len = Len(t) /\ newSortRules.len = sl.len + 1
    BY <1>5, <1>8, <2>2, <2>4
  <2>6. SliceIn(heap', sl)
    <3>1. newSortRules.arr \in 1 .. Len(heap') /\ newSortRules.len <= Len(heap'[newSortRules.arr])
      BY <2>1 DEF SliceIn
    <3>2. sl.len <= Len(heap'[sl.arr])
      BY <2>2, <2>4, <2>5, <3>1
    <3> QED BY <2>2, <3>1, <3>2 DEF SliceIn
  <2>7. RulesOf(heap', sl) = t
    BY <1>10, <2>2, <2>5 DEF RulesOf
  <2> QED BY <2>2, <2>5, <2>6, <2>7
<1>12. Memory /\ Control /\ Owed(asked, todo, newRuleEntities)
  BY <1>5 DEF BuilderInv, Asked, pending
<1>13. /\ SearchInv' /\ spc' = "loop" /\ [Search!Next]_Search!vars
       /\ re' = [k \in 1 .. Len(t) |-> t[k].Salience] /\ salience' = v.Salience
  BY <1>5, <1>7, <1>8, KeyedWithout, SearchBegun
<1>14. Memory'
  BY <1>5, <1>7, <1>10, <1>11, <1>12 DEF Memory
<1>15. Control'
  BY <1>5, <1>7, <1>12, <1>13 DEF Control
<1>16. Asked'
  <2>1. pending' = todo
    BY <1>5, <1>7 DEF pending
  <2> QED BY <1>5, <1>7, <1>12, <2>1 DEF Asked
<1>17. Private' /\ Live' /\ Stored' /\ Copy'
  BY <1>5, <1>7, <1>11 DEF Private, Live, Stored, Copy
<1>18. Searched'
  BY <1>5, <1>7, <1>8, <1>11, <1>13 DEF Searched, Known
<1>19. Kept
  BY <1>5, <1>10 DEF Kept
<1> QED BY <1>13, <1>14, <1>15, <1>16, <1>17, <1>18, <1>19 DEF Promise, BuilderInv

(* A new rule has its place sought in the whole copy. *)
LEMMA AddStep ==
  ASSUME BuilderConstants, BuilderInv, NEW v \in todo, Add(v)
  PROVE  Promise
<1>1. Visit(v) /\ ~Known(v)
  BY DEF Add
<1>2. PICK s : s = RulesOf(heap, newSortRules)
  OBVIOUS
<1>3. /\ pc = "update" /\ v \in todo /\ v \in Rule /\ todo' = todo \ {v}
      /\ UNCHANGED <<kcs, Kc, newSortRules, calls, asked, published>>
      /\ heap \in Seq(Seq(Cell)) /\ SliceIn(heap, newSortRules)
      /\ Listing(s, newRuleEntities) /\ Len(s) = newSortRules.len
      /\ \A sl \in published : SliceIn(heap, sl) /\ sl.arr # newSortRules.arr
  BY <1>1, <1>2, VisitFacts
<1>4. /\ SearchIn(newSortRules, s, v) /\ heap' = heap
      /\ pc' = "search" /\ moving' = v /\ room' = newSortRules /\ UNCHANGED newRuleEntities
  BY <1>2 DEF Add, SearchIn, Elems, RulesOf
<1>5. Memory /\ Control /\ Owed(asked, todo, newRuleEntities)
  BY <1>3 DEF BuilderInv, Asked, pending
<1>6. /\ SearchInv' /\ spc' = "loop" /\ [Search!Next]_Search!vars
      /\ re' = [k \in 1 .. Len(s) |-> s[k].Salience] /\ salience' = v.Salience
  BY <1>3, <1>4, <1>5, SearchBegun DEF Control
<1>7. Memory'
  BY <1>3, <1>4, <1>5 DEF Memory
<1>8. Control'
  BY <1>3, <1>4, <1>5, <1>6 DEF Control
<1>9. Asked'
  <2>1. pending' = todo
    BY <1>3, <1>4 DEF pending
  <2> QED BY <1>3, <1>4, <1>5, <2>1 DEF Asked
<1>10. Private' /\ Live' /\ Stored' /\ Copy'
  BY <1>3, <1>4 DEF Private, Live, Stored, Copy
<1>11. Searched'
  <2>1. v.RuleName \notin DOMAIN newRuleEntities
    BY <1>1 DEF Known
  <2>2. Without(newRuleEntities, {v.RuleName}) = newRuleEntities
    BY <1>5, <2>1 DEF Without, Control, Keyed
  <2>3. newSortRules.len \in Nat
    BY <1>3 DEF SliceIn, SliceHeader
  <2> QED BY <1>2, <1>3, <1>4, <1>6, <2>1, <2>2, <2>3 DEF Searched, Known
<1>12. Kept
  BY <1>4 DEF Kept
<1> QED BY <1>6, <1>7, <1>8, <1>9, <1>10, <1>11, <1>12 DEF Promise, BuilderInv

LEMMA SearchRoundStep ==
  ASSUME BuilderConstants, BuilderInv, SearchRound
  PROVE  Promise
<1>1. /\ spc = "loop" /\ spc' \in {"loop", "done"} /\ Search!Next /\ UNCHANGED <<re, salience>>
      /\ UNCHANGED <<heap, kcs, Kc, pc, todo, newRuleEntities, newSortRules, moving, room, calls, asked, published>>
  BY DEF SearchRound, Search!Next, Search!Met, Search!GoLeft, Search!GoRight, Search!Exhausted, store, copies, history
<1>2. SearchInv' /\ [Search!Next]_Search!vars
  BY <1>1, SearchMoves DEF BuilderInv
<1>3. pending' = pending
  BY <1>1 DEF pending
<1>4. Memory' /\ Control' /\ Private' /\ Asked'
  BY <1>1, <1>3 DEF BuilderInv, Memory, Control, Private, Asked
<1>5. Live' /\ Copy' /\ Stored' /\ Searched'
  BY <1>1 DEF BuilderInv, Live, Copy, Stored, Searched, Known
<1>6. Kept
  BY <1>1 DEF Kept
<1> QED BY <1>2, <1>4, <1>5, <1>6 DEF Promise, BuilderInv

(* A field of the context in use is stored. *)
LEMMA ContextStored ==
  ASSUME Memory, NEW kc \in Context, kcs' = [kcs EXCEPT ![Kc] = kc], UNCHANGED Kc
  PROVE  kcs' \in Seq(Context) /\ Kc' \in 1 .. Len(kcs') /\ kcs'[Kc'] = kc
BY ExceptSeq DEF Memory

(* The rule is inserted where the search says: in the array of the copy    *)
(* while there is room, else in one of twice its capacity.                 *)
LEMMA InsertStep ==
  ASSUME BuilderConstants, BuilderInv, Insert
  PROVE  Promise
<1>1. /\ pc = "search" /\ pc' = "update" /\ Search!Return
      /\ moving' = nil /\ room' = Nothing /\ UNCHANGED <<Kc, todo, calls, asked, published>>
  BY DEF Insert, history
<1>2. PICK r : r = RulesOf(heap, room)
  OBVIOUS
<1>3. PICK p : p = Search!position
  OBVIOUS
<1>4. PICK s : s = InsertAt(r, p + 1, moving)
  OBVIOUS
<1>5. /\ \/ /\ Len(s) <= Cap(room)
            /\ heap' = Written(room, s)
            /\ newSortRules' = [newSortRules EXCEPT !.len = Len(s)]
         \/ /\ Len(s) > Cap(room)
            /\ heap' = Append(heap, Padded(s, IF Len(s) = 1 THEN 1 ELSE 2 * Cap(room)))
            /\ newSortRules' = [arr |-> Len(heap) + 1, len |-> Len(s)]
      /\ kcs' = [kcs EXCEPT ![Kc].SortRulesIndexMap = indexMap(s)]
      /\ newRuleEntities' = Over([n \in {moving.RuleName} |-> moving], newRuleEntities)
  BY <1>2, <1>3, <1>4 DEF Insert, StoreIndexMap, Entered, Elems, RulesOf
<1>6. /\ Memory /\ Control /\ Private /\ Searched /\ SearchInv /\ spc = "done" /\ spc' = "idle"
      /\ Owed(asked, todo \cup {moving}, newRuleEntities)
  BY <1>1 DEF BuilderInv, Asked, pending, Search!Return
<1>7. /\ moving \in Rule /\ Listing(r, Without(newRuleEntities, {moving.RuleName}))
      /\ re = [k \in 1 .. room.len |-> r[k].Salience] /\ salience = moving.Salience
      /\ heap \in Seq(Seq(Cell)) /\ Len(heap) \in Nat /\ SliceIn(heap, room) /\ Len(r) = room.len
      /\ room.len \in Nat /\ room.arr = newSortRules.arr /\ newSortRules \in SliceHeader
      /\ \A sl \in published : SliceIn(heap, sl) /\ sl.arr # newSortRules.arr
  BY <1>1, <1>2, <1>6, ElemsFacts, LenProperties DEF Searched, Memory, Private, SliceIn, SliceHeader
<1>8. /\ p \in 0 .. Len(r)
      /\ \A i \in 1 .. p : r[i].Salience >= moving.Salience
      /\ \A i \in p + 1 .. Len(r) : r[i].Salience <= moving.Salience
  <2>1. Len(re) = room.len
    BY <1>7
  <2>2. /\ p \in 0 .. room.len
        /\ \A i \in 1 .. p : re[i] >= salience
        /\ \A i \in p + 1 .. room.len : re[i] <= salience
    BY <1>3, <1>6, <2>1, SearchAnswer
  <2>3. \A i \in 1 .. room.len : re[i] = r[i].Salience
    BY <1>7
  <2>4. p \in 0 .. Len(r) /\ Len(r) = room.len
    BY <1>7, <2>2
  <2>5. \A i \in 1 .. p : i \in 1 .. room.len
    BY <1>7, <2>4
  <2>6. \A i \in p + 1 .. Len(r) : i \in 1 .. room.len
    BY <1>7, <2>4
  <2> QED BY <1>7, <2>2, <2>3, <2>4, <2>5, <2>6
<1>9. Listing(s, newRuleEntities') /\ Len(s) = Len(r) + 1
  BY <1>4, <1>5, <1>7, <1>8, ListingWith
<1>10. s \in Seq(Rule) /\ s \in Seq(Cell) /\ Len(s) \in Nat
  BY <1>7, <1>9, SeqMonotonic DEF Listing, Cell
<1>11. Keyed(newRuleEntities')
  BY <1>5, <1>6, <1>7, KeyedEntered DEF Control
<1>12. IndexOf(indexMap(s), s) /\ indexMap(s) \in IndexMaps
  BY <1>9, <1>11, IndexMapOfListing
<1>13. Cap(room) \in Nat /\ room.len <= Cap(room)
  <2>1. heap[room.arr] \in Seq(Cell)
    BY <1>7, ElementOfSeq DEF SliceIn
  <2> QED BY <1>7, <2>1, LenProperties DEF SliceIn, Cap
<1>14. /\ heap' \in Seq(Seq(Cell)) /\ SliceIn(heap', newSortRules') /\ RulesOf(heap', newSortRules') = s
       /\ \A sl : SliceIn(heap, sl) => SliceIn(heap', sl)
       /\ \A sl \in published : RulesOf(heap', sl) = RulesOf(heap, sl) /\ sl.arr # newSortRules'.arr
  <2>1. CASE Len(s) <= Cap(room) /\ heap' = Written(room, s) /\ newSortRules' = [newSortRules EXCEPT !.len = Len(s)]
    <3>1. /\ heap' \in Seq(Seq(Cell)) /\ Len(heap') = Len(heap)
          /\ \A i \in 1 .. Len(heap) : Len(heap'[i]) = Len(heap[i])
          /\ SubSeq(heap'[room.arr], 1, Len(s)) = s
          /\ \A sl : SliceIn(heap, sl) => SliceIn(heap', sl)
          /\ \A sl : SliceIn(heap, sl) /\ sl.arr # room.arr => RulesOf(heap', sl) = RulesOf(heap, sl)
      BY <1>7, <1>10, <2>1, ArrayWritten
    <3>2. newSortRules' \in SliceHeader /\ newSortRules'.arr = room.arr /\ newSortRules'.len = Len(s)
      BY <1>7, <1>10, <2>1 DEF SliceHeader
    <3>3. room.arr \in 1 .. Len(heap) /\ Len(heap'[room.arr]) = Cap(room)
      BY <1>7, <3>1 DEF SliceIn, Cap
    <3>4. SliceIn(heap', newSortRules') /\ RulesOf(heap', newSortRules') = s
      BY <2>1, <3>1, <3>2, <3>3 DEF SliceIn, RulesOf
    <3> QED BY <1>7, <3>1, <3>2, <3>4
  <2>2. CASE /\ Len(s) > Cap(room)
             /\ heap' = Append(heap, Padded(s, IF Len(s) = 1 THEN 1 ELSE 2 * Cap(room)))
             /\ newSortRules' = [arr |-> Len(heap) + 1, len |-> Len(s)]
    <3>1. PICK c : c = IF Len(s) = 1 THEN 1 ELSE 2 * Cap(room)
      OBVIOUS
    <3>2. c \in Nat /\ c >= Len(s)
      BY <1>7, <1>9, <1>13, <2>2, <3>1
    <3>3. PICK a : a = Padded(s, c)
      OBVIOUS
    <3>4. a \in Seq(Cell) /\ Len(a) = c /\ SubSeq(a, 1, Len(s)) = s
      BY <1>10, <3>2, <3>3, PaddedFacts
    <3>5. /\ heap' \in Seq(Seq(Cell)) /\ Len(heap') = Len(heap) + 1 /\ heap'[Len(heap) + 1] = a
          /\ \A t : SliceIn(heap, t) => SliceIn(heap', t) /\ RulesOf(heap', t) = RulesOf(heap, t)
      BY <1>7, <2>2, <3>1, <3>3, <3>4, ArrayAdded
    <3>6. newSortRules' \in SliceHeader /\ newSortRules'.arr = Len(heap) + 1 /\ newSortRules'.len = Len(s)
      BY <1>7, <1>10, <2>2 DEF SliceHeader
    <3>7. SliceIn(heap', newSortRules') /\ RulesOf(heap', newSortRules') = s
      BY <1>7, <3>2, <3>4, <3>5, <3>6 DEF SliceIn, RulesOf
    <3>8. \A sl \in published : sl.arr # Len(heap) + 1
      BY <1>7 DEF SliceIn
    <3> QED BY <1>7, <3>5, <3>6, <3>7, <3>8
  <2> QED BY <1>5, <2>1, <2>2
<1>15. PICK kc : kc = [kcs[Kc] EXCEPT !.SortRulesIndexMap = indexMap(s)]
  OBVIOUS
<1>16. kcs' \in Seq(Context) /\ Kc' \in 1 .. Len(kcs') /\ kcs'[Kc'] = kc /\ kc.SortRulesIndexMap = indexMap(s)
  <2>1. kcs[Kc] \in Context
    BY <1>6, ElementOfSeq DEF Memory
  <2>2. kc \in Context /\ kc.SortRulesIndexMap = indexMap(s)
    BY <1>12, <1>15, <2>1 DEF Context
  <2>3. kcs' = [kcs EXCEPT ![Kc] = kc]
    BY <1>5, <1>15
  <2> QED BY <1>1, <1>6, <2>2, <2>3, ContextStored
<1>17. SliceIn(heap', room')
  <2>1. heap # <<>> /\ 1 \in 1 .. Len(heap)
    BY <1>7 DEF SliceIn
  <2>2. heap[1] \in Seq(Cell)
    BY <1>7, <2>1, ElementOfSeq
  <2>3. SliceIn(heap, Nothing)
    BY <2>1, <2>2, LenProperties DEF SliceIn, Nothing, SliceHeader
  <2> QED BY <1>1, <1>14, <2>3
<1>18. Memory'
  BY <1>1, <1>7, <1>14, <1>16, <1>17 DEF Memory
<1>19. Control'
  BY <1>1, <1>6, <1>11 DEF Control
<1>20. Asked'
  <2>1. Owed(asked, (todo \cup {moving}) \ {moving}, newRuleEntities')
    BY <1>5, <1>6, OwedEntered, ZenonT(30) DEF Control
  <2>2. Owed(asked', todo', newRuleEntities')
    BY <1>1, <1>6, <2>1 DEF Owed, Control, Keyed
  <2>3. pending' = todo'
    BY <1>1 DEF pending
  <2> QED BY <1>1, <2>2, <2>3 DEF Asked
<1>21. Private' /\ Live' /\ Stored' /\ Searched'
  BY <1>1, <1>14 DEF Private, Live, Stored, Searched
<1>22. Copy'
  BY <1>1, <1>9, <1>12, <1>14, <1>16 DEF Copy
<1>23. SearchInv' /\ [Search!Next]_Search!vars
  BY <1>1, <1>6, SearchMoves DEF Search!Next
<1>24. Kept
  BY <1>14 DEF Kept
<1> QED BY <1>18, <1>19, <1>20, <1>21, <1>22, <1>23, <1>24 DEF Promise, BuilderInv

LEMMA PublishEntitiesStep ==
  ASSUME BuilderConstants, BuilderInv, PublishEntities
  PROVE  Promise
<1>1. /\ pc = "update" /\ todo = {} /\ pc' = "publish"
      /\ kcs' = [kcs EXCEPT ![Kc].RuleEntities = newRuleEntities]
      /\ published' = published \cup {newSortRules}
      /\ UNCHANGED <<heap, Kc, todo, newRuleEntities, newSortRules, moving, room, search, calls, asked>>
  BY DEF PublishEntities, copies, place
<1>2. /\ Memory /\ Control /\ SearchInv /\ Owed(asked, {}, newRuleEntities)
      /\ Listing(RulesOf(heap, newSortRules), newRuleEntities)
      /\ IndexOf(kcs[Kc].SortRulesIndexMap, RulesOf(heap, newSortRules))
  <2>1. pending = {}
    BY <1>1 DEF pending
  <2> QED BY <1>1, <2>1 DEF BuilderInv, Asked, Copy
<1>3. PICK kc : kc = [kcs[Kc] EXCEPT !.RuleEntities = newRuleEntities]
  OBVIOUS
<1>4. /\ kcs' \in Seq(Context) /\ Kc' \in 1 .. Len(kcs') /\ kcs'[Kc'] = kc
      /\ kc.RuleEntities = newRuleEntities /\ kc.SortRulesIndexMap = kcs[Kc].SortRulesIndexMap
  <2>1. kcs[Kc] \in Context
    BY <1>2, ElementOfSeq DEF Memory
  <2>2. newRuleEntities \in Entities
    BY <1>2, KeyedEntities DEF Control
  <2>3. /\ kc \in Context /\ kc.RuleEntities = newRuleEntities
        /\ kc.SortRulesIndexMap = kcs[Kc].SortRulesIndexMap
    BY <1>3, <2>1, <2>2 DEF Context
  <2>4. kcs' = [kcs EXCEPT ![Kc] = kc]
    BY <1>1, <1>3
  <2> QED BY <1>1, <1>2, <2>3, <2>4, ContextStored
<1>5. Memory'
  BY <1>1, <1>2, <1>4 DEF Memory
<1>6. Control'
  BY <1>1, <1>2 DEF Control, search
<1>7. Asked'
  <2>1. asked = newRuleEntities
    BY <1>2, OwedFacts DEF Control
  <2> QED BY <1>1, <2>1 DEF Asked
<1>8. Private' /\ Live' /\ Searched' /\ Stored'
  BY <1>1, <1>4 DEF Private, Live, Searched, Stored
<1>9. Copy'
  BY <1>1, <1>2, <1>4 DEF Copy
<1>10. UNCHANGED Search!vars
  BY <1>1 DEF search, Search!vars
<1>11. SearchInv'
  BY <1>2, <1>10, SearchMoves
<1>12. Kept
  BY <1>1 DEF Kept
<1> QED BY <1>5, <1>6, <1>7, <1>8, <1>9, <1>10, <1>11, <1>12 DEF Promise, BuilderInv

LEMMA PublishWordStep ==
  ASSUME BuilderConstants, BuilderInv, NEW w \in {"arr", "len"}, PublishWord(w)
  PROVE  Promise
<1>1. /\ \/ pc = "publish" /\ pc' = OtherWord(w)
         \/ pc = w /\ pc' = "idle"
      /\ kcs' = [kcs EXCEPT ![Kc].SortRules[w] = newSortRules[w]]
      /\ UNCHANGED <<heap, Kc, todo, newRuleEntities, newSortRules, moving, room, search, calls, asked, published>>
  BY DEF PublishWord, copies, place, history
<1>2. /\ Memory /\ Control /\ SearchInv /\ asked = newRuleEntities
      /\ kcs[Kc].RuleEntities = newRuleEntities
      /\ Listing(RulesOf(heap, newSortRules), newRuleEntities)
      /\ IndexOf(kcs[Kc].SortRulesIndexMap, RulesOf(heap, newSortRules))
      /\ SliceIn(heap, newSortRules) /\ newSortRules \in SliceHeader
      /\ pc = "arr" => kcs[Kc].SortRules.len = newSortRules.len
      /\ pc = "len" => kcs[Kc].SortRules.arr = newSortRules.arr
  <2>1. pc \in {"publish", "arr", "len"}
    BY <1>1
  <2>2. Memory /\ Control /\ SearchInv /\ Asked /\ Copy /\ Stored
    BY DEF BuilderInv
  <2> QED BY <2>1, <2>2 DEF Asked, Copy, Stored, Memory, SliceIn
<1>3. PICK h : h = [kcs[Kc].SortRules EXCEPT ![w] = newSortRules[w]]
  OBVIOUS
<1>4. PICK kc : kc = [kcs[Kc] EXCEPT !.SortRules = h]
  OBVIOUS
<1>5. kcs[Kc] \in Context /\ kcs[Kc].SortRules \in SliceHeader
  <2>1. kcs[Kc] \in Context
    BY <1>2, ElementOfSeq DEF Memory
  <2> QED BY <2>1 DEF Context
<1>6. /\ h \in SliceHeader
      /\ w = "arr" => h.arr = newSortRules.arr /\ h.len = kcs[Kc].SortRules.len
      /\ w = "len" => h.len = newSortRules.len /\ h.arr = kcs[Kc].SortRules.arr
  <2>1. CASE w = "arr"
    BY <1>2, <1>3, <1>5, <2>1 DEF SliceHeader
  <2>2. CASE w = "len"
    BY <1>2, <1>3, <1>5, <2>2 DEF SliceHeader
  <2> QED BY <2>1, <2>2
<1>7. /\ kcs' \in Seq(Context) /\ Kc' \in 1 .. Len(kcs') /\ kcs'[Kc'] = kc /\ kc.SortRules = h
      /\ kc.RuleEntities = kcs[Kc].RuleEntities /\ kc.SortRulesIndexMap = kcs[Kc].SortRulesIndexMap
  <2>1. /\ kc \in Context /\ kc.SortRules = h
        /\ kc.RuleEntities = kcs[Kc].RuleEntities /\ kc.SortRulesIndexMap = kcs[Kc].SortRulesIndexMap
    BY <1>4, <1>5, <1>6 DEF Context
  <2>2. kcs' = [kcs EXCEPT ![Kc] = kc]
    BY <1>1, <1>3, <1>4
  <2> QED BY <1>1, <1>2, <2>1, <2>2, ContextStored
<1>8. pc' = "idle" => h = newSortRules
  <2> SUFFICES ASSUME pc' = "idle" PROVE h = newSortRules
    OBVIOUS
  <2>1. pc = w
    BY <1>1 DEF OtherWord
  <2>2. h.arr = newSortRules.arr /\ h.len = newSortRules.len
    BY <1>2, <1>6, <2>1
  <2> QED BY <1>2, <1>6, <2>2 DEF SliceHeader
<1>9. Memory'
  BY <1>1, <1>2, <1>7 DEF Memory
<1>10. Control'
  BY <1>1, <1>2 DEF Control, search, OtherWord
<1>11. Asked' /\ Private' /\ Searched'
  BY <1>1, <1>2, <1>7 DEF Asked, Private, Searched, OtherWord
<1>12. Live' /\ Copy'
  BY <1>1, <1>2, <1>7, <1>8 DEF Live, Copy
<1>13. Stored'
  BY <1>1, <1>2, <1>6, <1>7 DEF Stored, OtherWord
<1>14. UNCHANGED Search!vars
  BY <1>1 DEF search, Search!vars
<1>15. SearchInv'
  BY <1>2, <1>14, SearchMoves
<1>16. Kept
  BY <1>1 DEF Kept
<1> QED BY <1>9, <1>10, <1>11, <1>12, <1>13, <1>14, <1>15, <1>16 DEF Promise, BuilderInv

LEMMA BuilderStep ==
  ASSUME BuilderConstants, BuilderInv, [Next]_vars
  PROVE  Promise
<1>0. Memory /\ Control /\ SearchInv
  BY DEF BuilderInv
<1>1. CASE \E rules \in Texts(calls + 1) : BuildRuleFromString(rules)
  <2>1. PICK rules \in Texts(calls + 1) : BuildRuleFromString(rules)
    BY <1>1
  <2>2. Keyed(rules)
    BY <1>0, KeyedTexts DEF Control
  <2> QED BY <2>1, <2>2, NewKcStep DEF BuildRuleFromString, Called
<1>2. CASE \E rules \in Texts(calls + 1) : Incremental(rules) \/ updateIncremental(rules)
  BY <1>2, IncrementalStep DEF updateIncremental
<1>3. CASE \E names \in SUBSET Names \ {{}} : RemoveRules(names)
  <2>1. PICK names : RemoveRules(names)
    BY <1>3
  <2>2. pc = "idle" /\ asked = kcs[Kc].RuleEntities /\ Keyed(asked)
    BY <1>0, <2>1 DEF RemoveRules, Called, BuilderInv, Asked, Control
  <2>3. Keyed(Without(asked, names))
    BY <2>2, KeyedWithout
  <2> QED BY <2>1, <2>2, <2>3, NewKcStep DEF RemoveRules, Called
<1>4. CASE \E v \in todo : Replace(v) \/ Move(v) \/ Add(v)
  BY <1>4, ReplaceStep, MoveStep, AddStep
<1>5. CASE SearchRound \/ Insert
  BY <1>5, SearchRoundStep, InsertStep
<1>6. CASE PublishEntities \/ \E w \in {"arr", "len"} : PublishWord(w)
  BY <1>6, PublishEntitiesStep, PublishWordStep
<1>7. CASE UNCHANGED vars
  <2>1. /\ UNCHANGED <<heap, kcs, Kc, pc, todo, newRuleEntities, newSortRules, moving, room, search>>
        /\ UNCHANGED <<calls, asked, published>>
    BY <1>7 DEF vars, store, copies, place, history
  <2>2. UNCHANGED Search!vars /\ UNCHANGED <<re, salience, spc>>
    BY <2>1 DEF search, Search!vars
  <2>3. SearchInv'
    BY <1>0, <2>2, SearchMoves
  <2>4. Memory' /\ Control' /\ Private' /\ Asked'
    BY <2>1, <2>2 DEF BuilderInv, Memory, Control, Private, Asked, pending
  <2>5. Live' /\ Copy' /\ Stored' /\ Searched'
    BY <2>1, <2>2 DEF BuilderInv, Live, Copy, Stored, Searched, Known
  <2>6. Kept
    BY <2>1 DEF Kept
  <2> QED BY <2>2, <2>3, <2>4, <2>5, <2>6 DEF Promise, BuilderInv
<1> QED BY <1>1, <1>2, <1>3, <1>4, <1>5, <1>6, <1>7 DEF Next

-----------------------------------------------------------------------------
(* The copy, the live context and the search fit together in every         *)
(* reachable state: the invariant behind the properties below.             *)
THEOREM BuilderInvariant == Spec => []BuilderInv
<1>1. Init => BuilderInv
  BY InitBuilder, BuilderConstants
<1>2. BuilderInv /\ [Next]_vars => BuilderInv'
  BY BuilderStep, BuilderConstants DEF Promise
<1> QED BY <1>1, <1>2, PTL DEF Spec

(* When no call is under way the sorted rules and the rules by name are    *)
(* those the calls so far asked for, each once, in its latest version and  *)
(* by descending salience.                                                 *)
THEOREM BuilderRulesAsAsked == Spec => []RulesAsAsked
<1>1. BuilderInv => RulesAsAsked
  <2> SUFFICES ASSUME BuilderInv, pc = "idle"
               PROVE  /\ kcs[Kc].RuleEntities = asked
                      /\ Len(sortRules) = Cardinality(DOMAIN asked)
                      /\ {sortRules[i] : i \in DOMAIN sortRules} = {asked[n] : n \in DOMAIN asked}
                      /\ SortedDown(sortRules)
    BY DEF RulesAsAsked
  <2>1. kcs[Kc].RuleEntities = asked /\ Keyed(asked) /\ Listing(sortRules, asked)
    BY DEF BuilderInv, Asked, Control, Live, sortRules, Elems, RulesOf
  <2>2. PICK s : s = sortRules /\ Listing(s, asked)
    BY <2>1
  <2>3. PICK f : f = asked /\ Keyed(f) /\ Listing(s, f)
    BY <2>1, <2>2
  <2>4. /\ Len(s) = Cardinality(DOMAIN f)
        /\ {s[i] : i \in DOMAIN s} = {f[n] : n \in DOMAIN f}
    <3> HIDE DEF Keyed, Listing
    <3>1. BuilderConstants
      BY BuilderConstants
    <3> QED BY <2>3, <3>1, ListingCount, SMTT(30)
  <2>5. {sortRules[i] : i \in DOMAIN sortRules} = {asked[n] : n \in DOMAIN asked}
    BY <2>2, <2>3, <2>4, ZenonT(30)
  <2>6. SortedDown(sortRules)
    BY <2>1 DEF Listing
  <2> QED BY <2>1, <2>2, <2>3, <2>4, <2>5, <2>6
<1> QED BY <1>1, BuilderInvariant, PTL

(* The index map an update looks rules up in is the inverse of the list    *)
(* they are in, at rest and before each round of the loop.                 *)
THEOREM BuilderIndexMap == Spec => []IndexMapInverse
<1>1. BuilderInv => IndexMapInverse
  BY DEF BuilderInv, Live, Copy, IndexOf, IndexMapInverse, Elems, RulesOf
<1> QED BY <1>1, BuilderInvariant, PTL

(* What was published as sorted rules is never written again.              *)
THEOREM BuilderKeepsPublished == Spec => PublishedNeverWritten
<1>1. BuilderInv /\ [Next]_vars =>
        [\A sl \in published : SubSeq(heap'[sl.arr], 1, sl.len) = Elems(sl)]_vars
  BY BuilderStep, BuilderConstants DEF Promise, Kept, RulesOf, Elems
<1> QED BY <1>1, BuilderInvariant, PTL DEF Spec, PublishedNeverWritten

(* An update implements the binary search: it starts it on sorted lists    *)
(* and lets it run to its end undisturbed.                                 *)
THEOREM BuilderSearches == Spec => SearchesSortedLists
<1>1. Init => Search!Init
  BY DEF Init
<1>2. BuilderInv /\ [Next]_vars => [Search!Next]_Search!vars
  BY BuilderStep, BuilderConstants DEF Promise
<1> QED BY <1>1, <1>2, BuilderInvariant, PTL DEF Spec, SearchesSortedLists, Search!Spec
=============================================================================
