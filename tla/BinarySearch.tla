---------------------------- MODULE BinarySearch ----------------------------
(***************************************************************************)
(* BinarySearch of internal/tool/tool.go, one loop round per step, with    *)
(* the use its callers make of the two numbers it returns: the position at *)
(* which a rule of the given salience is inserted.  Inside the loop `mid`  *)
(* is a new variable that shadows the outer one, so the second number is 0 *)
(* unless the salience was met; a match at 0 looks the same as no match.   *)
(* Positions are counted from 0, as in the code.                           *)
(***************************************************************************)
EXTENDS Integers, Sequences

CONSTANTS
  Lists,     \* the slices searched, given by their saliences
  Saliences  \* the saliences searched for

SortedDown(s) == \A i, j \in DOMAIN s : i < j => s[i] >= s[j]

(* What a caller owes: slices sorted by descending salience *)
ListsSorted ==
  /\ Saliences \subseteq Int
  /\ \A s \in Lists : s \in Seq(Int) /\ SortedDown(s)

VARIABLES re, salience, low, high, mid, pc
vars == <<re, salience, low, high, mid, pc>>

Init ==
  /\ re = <<>> /\ salience = 0
  /\ low = 0 /\ high = -1 /\ mid = 0
  /\ pc = "idle"

(* BinarySearch(re, salience): low, high, mid := 0, len(re)-1, 0 *)
Start ==
  /\ pc = "idle" /\ pc' = "loop"
  /\ low' = 0 /\ high' = Len(re') - 1 /\ mid' = 0

Call == re' \in Lists /\ salience' \in Saliences /\ Start

middle == (low + high) \div 2

(* An equal salience: the inner mid is returned. *)
Met ==
  /\ pc = "loop" /\ low <= high
  /\ re[middle + 1] = salience
  /\ mid' = middle
  /\ pc' = "done"
  /\ UNCHANGED <<re, salience, low, high>>

(* Mutant: the half that may hold the position is dropped *)
GoLeftRight ==
  /\ pc = "loop" /\ low <= high
  /\ re[middle + 1] < salience
  /\ low' = middle + 1
  /\ UNCHANGED <<re, salience, high, mid, pc>>

GoLeft ==
  /\ pc = "loop" /\ low <= high
  /\ re[middle + 1] < salience
  /\ high' = middle - 1
  /\ UNCHANGED <<re, salience, low, mid, pc>>

GoRight ==
  /\ pc = "loop" /\ low <= high
  /\ re[middle + 1] > salience
  /\ low' = middle + 1
  /\ UNCHANGED <<re, salience, high, mid, pc>>

(* Not met: the outer mid, still 0, is returned. *)
Exhausted ==
  /\ pc = "loop" /\ low > high
  /\ pc' = "done"
  /\ UNCHANGED <<re, salience, low, high, mid>>

(* The caller has used the two numbers; the variables are gone. *)
Return ==
  /\ pc = "done" /\ pc' = "idle"
  /\ re' = <<>> /\ salience' = 0
  /\ low' = 0 /\ high' = -1 /\ mid' = 0

Next == Call \/ Met \/ GoLeft \/ GoRight \/ Exhausted \/ Return

Spec == Init /\ [][Next]_vars

(* if mid == 0 { insert at low } else { insert at mid } *)
position == IF mid = 0 THEN low ELSE mid

-----------------------------------------------------------------------------
(* The places at which a salience can be inserted without disorder *)
InsertionPoints(s, x) ==
  {p \in 0 .. Len(s) : /\ \A i \in 1 .. p : s[i] >= x
                       /\ \A i \in p + 1 .. Len(s) : s[i] <= x}

TypeOK ==
  /\ re \in Lists \cup {<<>>} /\ salience \in Saliences \cup {0}
  /\ low \in Int /\ high \in Int /\ mid \in Nat
  /\ pc \in {"idle", "loop", "done"}

(* re[mid] and the slice expressions re[:p], re[p:] never go out of range. *)
InRange ==
  /\ pc = "loop" /\ low <= high => middle \in 0 .. Len(re) - 1
  /\ pc = "done" => position \in 0 .. Len(re)

(* Inserting at the position computed from the two numbers keeps the list  *)
(* sorted, also where a zero mid does not mean what the callers take it    *)
(* for.                                                                    *)
KeepsOrder == pc = "done" => position \in InsertionPoints(re, salience)
=============================================================================
