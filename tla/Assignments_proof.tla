------------------------- MODULE Assignments_proof -------------------------
(***************************************************************************)
(* What the statements of a rule do to data, whatever the sizes of the     *)
(* kinds, the data and the rule:                                           *)
(*                                                                         *)
(*   - the operations of math.go are exact when the result fits, rounding  *)
(*     keeps the order of numbers, and arithmetic panics on interface      *)
(*     values only;                                                        *)
(*   - injected data keep their declared types (TypedInv);                 *)
(*   - a local variable keeps its value until it is assigned (LocalsInv);  *)
(*   - what was assigned is read back (ReadInv).                           *)
(*                                                                         *)
(* Each invariant builds on the one before it.                             *)
(***************************************************************************)
EXTENDS Assignments, FiniteSets, FiniteSetTheorems, TLAPS

-----------------------------------------------------------------------------
(* Two's complement *)

(* A number and its remainder differ by a multiple of the divisor.         *)
LEMMA Division ==
  ASSUME NEW m \in Int, NEW s \in Nat \ {0}
  PROVE  /\ m \div s \in Int /\ m % s \in Int
         /\ m % s = m + s * (0 - (m \div s))
BY SMT

(* What fits between zero and the divisor is the remainder.                *)
LEMMA Remainder ==
  ASSUME NEW s \in Nat \ {0}, NEW q \in Int, NEW r \in Int, 0 <= r, r < s
  PROVE  (r + s * q) % s = r
BY SMT

(* Sizes are positive numbers.                                             *)
LEMMA Sizes ==
  ASSUME NEW k \in Signed \cup Unsigned
  PROVE  /\ Size[k] \in Nat \ {0} /\ Size[k] \div 2 \in Nat
         /\ 2 * (Size[k] \div 2) = Size[k]
<1>1. Size[k] \in Nat \ {0} /\ Size[k] % 2 = 0
  BY ValueConstants
<1>2. \A n \in Nat : n % 2 = 0 => n \div 2 \in Nat /\ 2 * (n \div 2) = n
  BY SMT
<1> QED BY <1>1, <1>2

(* To wrap a number is to add a multiple of the size.                      *)
LEMMA WrapShifts ==
  ASSUME NEW k \in Signed \cup Unsigned, NEW n \in Int
  PROVE  \E q \in Int : Wrap(k, n) = n + Size[k] * q
<1> DEFINE s == Size[k]
           h == s \div 2
<1>1. s \in Nat \ {0} /\ h \in Nat
  BY Sizes
<1>2. CASE k \in Signed
  <2>1. (n + h) % s = n + h + s * (0 - ((n + h) \div s)) /\ (n + h) \div s \in Int
    <3>1. \A m \in Int : m \div s \in Int /\ m % s = m + s * (0 - (m \div s))
      BY <1>1, Division
    <3> QED BY <3>1, <1>1
  <2>2. Wrap(k, n) = ((n + h) % s) - h
    BY <1>2 DEF Wrap
  <2> DEFINE q == 0 - ((n + h) \div s)
  <2>3. q \in Int /\ Wrap(k, n) = n + s * q
    BY <1>1, <2>1, <2>2
  <2> QED BY <2>3
<1>3. CASE k \notin Signed
  <2>1. n % s = n + s * (0 - (n \div s)) /\ n \div s \in Int
    BY <1>1, Division
  <2>2. Wrap(k, n) = n % s
    BY <1>3 DEF Wrap
  <2>3. 0 - (n \div s) \in Int
    BY <2>1
  <2> QED BY <2>1, <2>2, <2>3
<1> QED BY <1>2, <1>3

(* A number that fits is what any number that differs from it by a         *)
(* multiple of the size is wrapped to.                                     *)
LEMMA WrapReturns ==
  ASSUME NEW k \in Signed \cup Unsigned, NEW n \in Int, NEW q \in Int, Fits(k, n)
  PROVE  Wrap(k, n + Size[k] * q) = n
<1> DEFINE s == Size[k]
           h == s \div 2
<1>1. s \in Nat \ {0} /\ h \in Nat /\ 2 * h = s
  BY Sizes
<1>2. CASE k \in Signed
  <2>1. 0 <= n + h /\ n + h < s
    BY <1>1, <1>2 DEF Fits
  <2>2. ((n + h) + s * q) % s = n + h
    <3>1. \A r \in Int : 0 <= r /\ r < s => (r + s * q) % s = r
      BY <1>1, Remainder
    <3> QED BY <3>1, <2>1, <1>1
  <2>3. (n + s * q) + h = (n + h) + s * q
    BY <1>1
  <2>4. Wrap(k, n + s * q) = (((n + s * q) + h) % s) - h
    BY <1>2 DEF Wrap
  <2> QED BY <1>1, <2>2, <2>3, <2>4
<1>3. CASE k \notin Signed
  <2>1. 0 <= n /\ n < s
    BY <1>3 DEF Fits
  <2>2. (n + s * q) % s = n
    BY <1>1, <2>1, Remainder
  <2> QED BY <1>3, <2>2 DEF Wrap
<1> QED BY <1>2, <1>3

LEMMA WrapFits ==
  ASSUME NEW k \in Signed \cup Unsigned, NEW n \in Int, Fits(k, n)
  PROVE  Wrap(k, n) = n
<1>1. Wrap(k, n + Size[k] * 0) = n
  BY WrapReturns
<1>2. n + Size[k] * 0 = n
  BY Sizes
<1> QED BY <1>1, <1>2

-----------------------------------------------------------------------------
(* Arithmetic *)

LEMMA Classes ==
  ASSUME NEW a, a.kind \in Signed \cup Unsigned
  PROVE  /\ Class(a) = IF a.kind \in Signed THEN "int" ELSE "uint"
         /\ a.kind \notin {"interface", "string"} \cup Floats /\ a.kind \in Numbers
BY DEF Class, Signed, Unsigned, Floats, Numbers

(* Between integers an operation is done on 64 bits, unsigned if both are. *)
LEMMA Integral ==
  ASSUME NEW a, NEW b, a.kind \in Signed \cup Unsigned, b.kind \in Signed \cup Unsigned, NEW op
  PROVE  Numeric(op, a, b) =
           IF {Class(a), Class(b)} = {"uint"} THEN Num("uint64", Wrap("uint64", WholeResult(op, a.n, b.n)))
           ELSE Num("int64", Wrap("int64", WholeResult(op, AsInt(a), AsInt(b))))
<1>1. /\ Class(a) \in {"int", "uint"} /\ Class(b) \in {"int", "uint"}
      /\ a.kind # "interface" /\ b.kind # "interface"
  BY Classes
<1> QED BY <1>1 DEF Numeric

LEMMA Results ==
  ASSUME NEW k, NEW n
  PROVE  Num(k, n).n = n /\ Num(k, n).kind = k
BY DEF Num, Value

(* What is wrapped before a sum, a difference or a product makes no        *)
(* difference to it once it is wrapped.                                    *)
LEMMA Congruent ==
  ASSUME NEW m \in Int, NEW n \in Int, NEW op \in {"+", "-", "*"},
         Fits("int64", WholeResult(op, m, n))
  PROVE  Wrap("int64", WholeResult(op, Wrap("int64", m), Wrap("int64", n))) = WholeResult(op, m, n)
<1> DEFINE s == Size["int64"]
<1>0. s \in Nat \ {0} /\ "int64" \in Signed \cup Unsigned
  BY Sizes DEF Signed
<1>1. PICK p \in Int : Wrap("int64", m) = m + s * p
  BY <1>0, WrapShifts
<1>2. PICK q \in Int : Wrap("int64", n) = n + s * q
  BY <1>0, WrapShifts
<1>3. \A x, y \in Int : Fits("int64", x) => Wrap("int64", x + s * y) = x
  BY <1>0, WrapReturns
<1>4. CASE op = "+"
  <2>1. (m + s * p) + (n + s * q) = (m + n) + s * (p + q)
    BY <1>0
  <2>2. Wrap("int64", (m + n) + s * (p + q)) = m + n
    BY <1>3, <1>4 DEF WholeResult
  <2> QED BY <1>1, <1>2, <1>4, <2>1, <2>2 DEF WholeResult
<1>5. CASE op = "-"
  <2>1. (m + s * p) - (n + s * q) = (m - n) + s * (p - q)
    BY <1>0
  <2>2. Wrap("int64", (m - n) + s * (p - q)) = m - n
    BY <1>3, <1>5 DEF WholeResult
  <2> QED BY <1>1, <1>2, <1>5, <2>1, <2>2 DEF WholeResult
<1>6. CASE op = "*"
  <2> DEFINE t == m * q + n * p + s * p * q
  <2>1. (m + s * p) * (n + s * q) = m * n + s * t /\ t \in Int /\ m * n \in Int
    BY <1>0
  <2>2. Wrap("int64", m * n + s * t) = m * n
    <3> HIDE DEF t
    <3> QED BY <1>3, <1>6, <2>1 DEF WholeResult
  <2> QED BY <1>1, <1>2, <1>6, <2>1, <2>2 DEF WholeResult
<1> QED BY <1>4, <1>5, <1>6

(* A narrower signed kind holds nothing an int64 does not.                 *)
LEMMA Narrower ==
  ASSUME NEW k \in Signed, NEW n \in Int, Fits(k, n)
  PROVE  Fits("int64", n)
<1>1. k \in Signed \cup Unsigned /\ "int64" \in Signed /\ "int64" \in Signed \cup Unsigned
  BY DEF Signed
<1>2. /\ Size[k] \in Nat \ {0} /\ Size["int64"] \in Nat \ {0} /\ Size["int64"] % Size[k] = 0
      /\ 2 * (Size[k] \div 2) = Size[k] /\ 2 * (Size["int64"] \div 2) = Size["int64"]
      /\ Size[k] \div 2 \in Nat /\ Size["int64"] \div 2 \in Nat
  BY <1>1, Sizes, ValueConstants
<1>3. \A s, t \in Nat \ {0} : t % s = 0 => s <= t
  BY SMT
<1>4. Size[k] <= Size["int64"]
  BY <1>2, <1>3
<1> QED BY <1>1, <1>2, <1>4 DEF Fits

(* Quotients of whole numbers are whole numbers.                           *)
LEMMA Quotients ==
  ASSUME NEW p \in Int, NEW q \in Int, q # 0
  PROVE  Quo(p, q) \in Int
<1>1. Abs(p) \in Nat /\ Abs(q) \in Nat \ {0}
  BY DEF Abs
<1>2. Abs(p) \div Abs(q) \in Int
  BY <1>1
<1> QED BY <1>2 DEF Quo

(* The operation between integers that are given, exact if the result fits *)
Represented(op, a, b) ==
  Fits(ResultKind(a, b), WholeResult(op, a.n, b.n)) => Numeric(op, a, b).n = WholeResult(op, a.n, b.n)

Integer(a) == a.kind \in Signed \cup Unsigned /\ a.n \in Int

LEMMA RingOperations ==
  ASSUME NEW a, NEW b, Integer(a), Integer(b), NEW op \in {"+", "-", "*"}
  PROVE  Represented(op, a, b)
<1>1. WholeResult(op, a.n, b.n) \in Int
  BY DEF Integer, WholeResult
<1>2. CASE {Class(a), Class(b)} = {"uint"}
  <2>1. "uint64" \in Signed \cup Unsigned
    BY DEF Unsigned
  <2>2. Numeric(op, a, b).n = Wrap("uint64", WholeResult(op, a.n, b.n))
    BY <1>2, Integral, Results DEF Integer
  <2> QED BY <1>1, <1>2, <2>1, <2>2, WrapFits DEF Represented, ResultKind
<1>3. CASE {Class(a), Class(b)} # {"uint"}
  <2>1. Numeric(op, a, b).n = Wrap("int64", WholeResult(op, AsInt(a), AsInt(b)))
    BY <1>3, Integral, Results DEF Integer
  <2>2. Fits("int64", WholeResult(op, a.n, b.n)) =>
          Wrap("int64", WholeResult(op, Wrap("int64", a.n), Wrap("int64", b.n))) = WholeResult(op, a.n, b.n)
    BY Congruent DEF Integer
  <2> QED BY <1>3, <2>1, <2>2 DEF Represented, ResultKind, AsInt
<1> QED BY <1>2, <1>3

LEMMA Divisions ==
  ASSUME NEW a, NEW b, Integer(a), Integer(b), b.n # 0,
         \/ {Class(a), Class(b)} = {"uint"}
         \/ Fits("int64", a.n) /\ Fits("int64", b.n)
  PROVE  Represented("/", a, b)
<1>1. WholeResult("/", a.n, b.n) = Quo(a.n, b.n) /\ Quo(a.n, b.n) \in Int
  BY Quotients DEF Integer, WholeResult
<1>2. CASE {Class(a), Class(b)} = {"uint"}
  <2>1. "uint64" \in Signed \cup Unsigned
    BY DEF Unsigned
  <2>2. Numeric("/", a, b).n = Wrap("uint64", WholeResult("/", a.n, b.n))
    BY <1>2, Integral, Results DEF Integer
  <2> QED BY <1>1, <1>2, <2>1, <2>2, WrapFits DEF Represented, ResultKind
<1>3. CASE {Class(a), Class(b)} # {"uint"}
  <2>1. "int64" \in Signed \cup Unsigned
    BY DEF Signed
  <2>2. AsInt(a) = a.n /\ AsInt(b) = b.n
    BY <1>3, <2>1, WrapFits DEF AsInt, Integer
  <2>3. Numeric("/", a, b).n = Wrap("int64", WholeResult("/", a.n, b.n))
    BY <1>3, <2>2, Integral, Results DEF Integer
  <2> QED BY <1>1, <1>3, <2>1, <2>3, WrapFits DEF Represented, ResultKind
<1> QED BY <1>2, <1>3

(* Of integers of any kinds and sizes, sums, differences, products and     *)
(* quotients are exact when the result fits (math.go), but for a quotient  *)
(* of an unsigned number beyond int64 and a signed one.                    *)
THEOREM IntegersExact ==
  ASSUME NEW a, NEW b, Integer(a), Integer(b), Fits(a.kind, a.n), Fits(b.kind, b.n)
  PROVE  Exact(a, b)
<1>1. /\ Class(a) = (IF a.kind \in Signed THEN "int" ELSE "uint") /\ ~IsString(a) /\ b.kind \in Numbers
      /\ Class(b) = (IF b.kind \in Signed THEN "int" ELSE "uint") /\ ~IsString(b) /\ b.kind # "interface"
  BY Classes DEF Integer, IsString
<1>2. /\ Add(a, b) = Numeric("+", a, b) /\ Sub(a, b) = Numeric("-", a, b)
      /\ Mul(a, b) = Numeric("*", a, b)
      /\ b.n # 0 => Div(a, b) = Numeric("/", a, b)
  BY <1>1 DEF Add, Sub, Mul, Div, Divided
<1>3. /\ WholeResult("+", a.n, b.n) = a.n + b.n /\ WholeResult("-", a.n, b.n) = a.n - b.n
      /\ WholeResult("*", a.n, b.n) = a.n * b.n /\ WholeResult("/", a.n, b.n) = Quo(a.n, b.n)
  BY DEF WholeResult
<1>4. Represented("+", a, b) /\ Represented("-", a, b) /\ Represented("*", a, b)
  BY RingOperations
<1>5. \/ b.n = 0
      \/ {Class(a), Class(b)} = {"int", "uint"} /\ ~(Fits("int64", a.n) /\ Fits("int64", b.n))
      \/ b.n # 0 /\ Represented("/", a, b)
  <2>1. CASE a.kind \in Signed /\ b.kind \in Signed
    BY <2>1, Narrower, Divisions DEF Integer
  <2>2. CASE a.kind \notin Signed /\ b.kind \notin Signed
    <3>1. {Class(a), Class(b)} = {"uint"}
      BY <1>1, <2>2
    <3> QED BY <3>1, Divisions
  <2>3. CASE {Class(a), Class(b)} = {"int", "uint"}
    BY <2>3, Divisions
  <2> QED BY <1>1, <2>1, <2>2, <2>3
<1> DEFINE k == ResultKind(a, b)
<1>6. /\ Fits(k, a.n + b.n) => Add(a, b).n = a.n + b.n
      /\ Fits(k, a.n - b.n) => Sub(a, b).n = a.n - b.n
      /\ Fits(k, a.n * b.n) => Mul(a, b).n = a.n * b.n
  BY <1>2, <1>3, <1>4 DEF Represented, Integer
<1>7. \/ b.n = 0
      \/ {Class(a), Class(b)} = {"int", "uint"} /\ ~(Fits("int64", a.n) /\ Fits("int64", b.n))
      \/ Fits(k, Quo(a.n, b.n)) => Div(a, b).n = Quo(a.n, b.n)
  BY <1>2, <1>3, <1>5 DEF Represented, Integer
<1> QED BY <1>6, <1>7 DEF Exact

-----------------------------------------------------------------------------
(* Panics *)

LEMMA NumericFails ==
  ASSUME NEW op, NEW a, NEW b, Failed(Numeric(op, a, b))
  PROVE  Numeric(op, a, b) = Error \/ "interface" \in {a.kind, b.kind}
<1>1. \A k \in {"float64", "uint64", "int64"} : \A n : ~Failed(Num(k, n))
  BY Results DEF Failed
<1> QED BY <1>1 DEF Numeric

(* What fails is an error, unless an operand is an interface value: a zero *)
(* divisor of any kind is seen before the division.                        *)
LEMMA ArithmeticFails ==
  ASSUME NEW op \in {"+", "-", "*", "/"}, NEW a, NEW b, Failed(Arithmetic(op, a, b))
  PROVE  Arithmetic(op, a, b) = Error \/ "interface" \in {a.kind, b.kind}
<1>1. CASE op = "+"
  <2>1. Arithmetic(op, a, b) = Add(a, b)
    BY <1>1 DEF Arithmetic
  <2>2. ~Failed(Str(a.s \o b.s))
    BY DEF Failed, Str, Value
  <2> QED BY <2>1, <2>2, NumericFails DEF Add
<1>2. CASE op = "-"
  BY <1>2, NumericFails DEF Arithmetic, Sub
<1>3. CASE op = "*"
  BY <1>3, NumericFails DEF Arithmetic, Mul
<1>4. CASE op = "/"
  <2>1. Arithmetic(op, a, b) = Div(a, b)
    BY <1>4 DEF Arithmetic
  <2>2. SUFFICES ASSUME b.kind # "interface", ~(b.kind \in Numbers /\ b.n = 0)
                 PROVE  Divided(a, b) = Error \/ "interface" \in {a.kind, b.kind}
    BY <2>1 DEF Div
  <2>3. ~(b.n = 0 /\ {Class(a), Class(b)} \subseteq {"int", "uint"})
    BY <2>2 DEF Class, Numbers
  <2>4. Divided(a, b) = Numeric("/", a, b)
    BY <2>3 DEF Divided
  <2>5. Div(a, b) = Numeric("/", a, b)
    BY <2>2, <2>4 DEF Div
  <2> QED BY <2>1, <2>4, <2>5, NumericFails
<1> QED BY <1>1, <1>2, <1>3, <1>4

(* The scope stays what it was, and a rule that failed does no more.       *)
PanicInv == scope \in DOMAIN Scopes /\ ArithmeticNeverPanics

LEMMA Elsewhere ==
  ASSUME NEW v, NEW where, where # "math", PanicInv, Fail(v, where)
  PROVE  PanicInv'
BY DEF PanicInv, ArithmeticNeverPanics, Fail

LEMMA BecomesElsewhere ==
  ASSUME NEW n, NEW r, NEW w, NEW where, where # "math", PanicInv, Running, Becomes(n, r, w, where)
  PROVE  PanicInv'
<1>1. CASE Failed(r.v)
  BY <1>1, Elsewhere DEF Becomes
<1>2. CASE ~Failed(r.v)
  BY <1>2 DEF Becomes, Yields, Running, PanicInv, ArithmeticNeverPanics
<1> QED BY <1>1, <1>2

LEMMA StillRunning ==
  ASSUME PanicInv, scope' = scope, status' # "panic"
  PROVE  PanicInv'
BY DEF PanicInv, ArithmeticNeverPanics

LEMMA PanicStep ==
  ASSUME PanicInv, [Next]_vars
  PROVE  PanicInv'
<1>1. ASSUME NEW st, Begin(st) PROVE PanicInv'
  BY <1>1, StillRunning DEF Begin, Running
<1>2. ASSUME NEW c, Constant(c) PROVE PanicInv'
  BY <1>2, BecomesElsewhere DEF Constant, Atom, Evaluating
<1>3. ASSUME NEW name, Variable(name) PROVE PanicInv'
  BY <1>3, BecomesElsewhere DEF Variable, Atom, Evaluating
<1>4. ASSUME NEW e, Element(e.name, e.key) PROVE PanicInv'
  BY <1>4, BecomesElsewhere DEF Element, Atom, Evaluating
<1>5. ASSUME NEW op \in Rule.math, MathExpression(op) PROVE PanicInv'
  <2>1. op \in {"+", "-", "*", "/"}
    BY Operators DEF Rule, PanicInv
  <2> DEFINE r == Arithmetic(op, below, top)
  <2>2. CASE Failed(r)
    <3>1. Fail(r, "math")
      BY <1>5, <2>2 DEF MathExpression, Becomes, Own
    <3>2. r = Error \/ "interface" \in {top.kind, below.kind}
      BY <2>1, <2>2, ArithmeticFails
    <3>3. top' = top /\ below' = below /\ scope' = scope
      BY <3>1 DEF Fail, top, below, Load, Content, Kind
    <3>4. r = Error => status' = "error"
      BY <3>1 DEF Fail
    <3> QED BY <3>2, <3>3, <3>4 DEF PanicInv, ArithmeticNeverPanics
  <2>3. CASE ~Failed(r)
    <3>1. status' = "running" /\ scope' = scope
      BY <1>5, <2>3 DEF MathExpression, Becomes, Own, Yields, Evaluating, Running
    <3> QED BY <3>1, StillRunning
  <2> QED BY <2>2, <2>3
<1>6. ASSUME NEW op, Comparison(op) PROVE PanicInv'
  BY <1>6, BecomesElsewhere DEF Comparison, Evaluating
<1>7. ASSUME NEW op, Connective(op) PROVE PanicInv'
  BY <1>7, BecomesElsewhere DEF Connective, Evaluating
<1>8. CASE Negation
  BY <1>8, BecomesElsewhere DEF Negation, Evaluating
<1>9. ASSUME NEW name, OpenCall(name) PROVE PanicInv'
  BY <1>9, StillRunning DEF OpenCall, Evaluating, Running
<1>10. CASE CloseCall
  <2>1. Running
    BY <1>10 DEF CloseCall, Evaluating
  <2>2. Fail(Error, "call") \/ \E f, p, r : CallReturns(f, p, r)
    BY <1>10 DEF CloseCall
  <2>3. ASSUME NEW f, NEW p, NEW r, CallReturns(f, p, r) PROVE PanicInv'
    BY <2>1, <2>3, StillRunning DEF CallReturns, Running
  <2> QED BY <2>2, <2>3, Elsewhere
<1>11. CASE Assign
  <2>1. Running
    BY <1>11 DEF Assign, Ready
  <2>2. \E o, r : Fail(o.fail, "assign") \/ Finish(o, r)
    BY <1>11 DEF Assign
  <2>3. ASSUME NEW o, NEW r, Finish(o, r) PROVE PanicInv'
    BY <2>1, <2>3, StillRunning DEF Finish, Running
  <2> QED BY <2>2, <2>3, Elsewhere
<1>12. CASE Condition
  BY <1>12, Elsewhere, StillRunning DEF Condition, Ready, Running
<1>13. CASE CallDone
  BY <1>13, StillRunning DEF CallDone, Ready, Running
<1>14. CASE Return
  BY <1>14, Elsewhere, StillRunning DEF Return
<1>15. CASE UNCHANGED vars
  BY <1>15 DEF vars, evaluation, history, PanicInv, ArithmeticNeverPanics, top, below, Load, Content, Kind
<1> QED BY <1>1, <1>2, <1>3, <1>4, <1>5, <1>6, <1>7, <1>8, <1>9, <1>10, <1>11, <1>12, <1>13, <1>14, <1>15
        DEF Next

(* Whatever a rule computes with, its arithmetic panics on an interface    *)
(* value or not at all; everything else is an error the engine reports.    *)
THEOREM NoPanicInArithmetic == Spec => []ArithmeticNeverPanics
<1>1. Init => PanicInv
  BY DEF Init, PanicInv, ArithmeticNeverPanics
<1>2. PanicInv /\ [Next]_vars => PanicInv'
  BY PanicStep
<1>3. PanicInv => ArithmeticNeverPanics
  BY DEF PanicInv
<1> QED BY <1>1, <1>2, <1>3, PTL DEF Spec

-----------------------------------------------------------------------------
(* Induction *)

(* A set of numbers with 0 and the successor of each of its members is all *)
(* of them: fewer pigeonholes than pigeons otherwise.                      *)
LEMMA Induction ==
  ASSUME NEW A \in SUBSET Nat, 0 \in A, \A n \in A : n + 1 \in A
  PROVE  A = Nat
<1> SUFFICES ASSUME NEW m \in Nat, m \notin A PROVE FALSE
  OBVIOUS
<1> DEFINE T == {i \in A : i <= m}
           next == [i \in T |-> i + 1]
<1>1. IsFiniteSet(T) /\ Cardinality(T) \in Nat
  BY FS_BoundedSetOfNaturals, FS_CardinalityType
<1>2. 0 \in T
  OBVIOUS
<1>3. IsFiniteSet(T \ {0}) /\ Cardinality(T \ {0}) = Cardinality(T) - 1
  <2> HIDE DEF T
  <2> QED BY <1>1, <1>2, FS_RemoveElement
<1>4. next \in [T -> T \ {0}]
  <2>1. ASSUME NEW i \in T PROVE i + 1 \in T \ {0}
    <3>1. i \in Nat /\ i <= m /\ i # m /\ i + 1 \in A
      OBVIOUS
    <3> QED BY <3>1
  <2> HIDE DEF T
  <2> QED BY <2>1
<1>5. PICK i, j \in T : i # j /\ next[i] = next[j]
  <2> HIDE DEF T, next
  <2>1. Cardinality(T \ {0}) < Cardinality(T)
    BY <1>1, <1>3
  <2> QED BY <1>1, <1>3, <1>4, <2>1, FS_PigeonHole
<1>6. i \in Nat /\ j \in Nat /\ i + 1 = j + 1
  BY <1>5
<1> QED BY <1>5, <1>6

(* A set of numbers has a least one. *)
LEMMA Least ==
  ASSUME NEW S \in SUBSET Nat, S # {}
  PROVE  \E n \in S : \A m \in S : n <= m
<1> SUFFICES ASSUME \A n \in S : \E m \in S : m < n PROVE FALSE
  OBVIOUS
<1> DEFINE A == {n \in Nat : \A m \in S : n <= m}
<1>1. 0 \in A /\ \A n \in A : n + 1 \in A
  OBVIOUS
<1>2. A = Nat
  <2> HIDE DEF A
  <2>1. A \in SUBSET Nat
    BY DEF A
  <2> QED BY <1>1, <2>1, Induction
<1>3. PICK n \in S : TRUE
  OBVIOUS
<1>4. n + 1 \in A
  BY <1>2
<1> QED BY <1>3, <1>4

-----------------------------------------------------------------------------
(* Rounding to the nearest whole number *)

(* Multiples of d are at least d apart. *)
LEMMA Products ==
  ASSUME NEW d \in Nat \ {0}, NEW m \in Int, NEW n \in Int, m < n
  PROVE  d * m + d <= d * n
<1>1. n - m - 1 \in Nat /\ d \in Nat
  OBVIOUS
<1>2. d * (n - m - 1) >= 0
  BY <1>1
<1>3. d * (n - m - 1) = d * n - d * m - d
  OBVIOUS
<1>4. d * n \in Int /\ d * m \in Int
  OBVIOUS
<1> QED BY <1>2, <1>3, <1>4

Numerator(p, q) == IF q < 0 THEN -p ELSE p

(* The nearest whole number is at most half the divisor away. *)
LEMMA NearestBounds ==
  ASSUME NEW p \in Int, NEW q \in Int \ {0}
  PROVE  /\ Nearest(p, q) \in Int /\ Abs(q) \in Nat \ {0} /\ Numerator(p, q) \in Int
         /\ 2 * Numerator(p, q) <= 2 * (Abs(q) * Nearest(p, q)) + Abs(q)
         /\ 2 * (Abs(q) * Nearest(p, q)) <= 2 * Numerator(p, q) + Abs(q)
<1>1. PICK d \in Nat \ {0} : d = Abs(q)
  BY DEF Abs
<1>2. PICK m \in Int : m = Numerator(p, q)
  BY DEF Numerator
<1>3. PICK f \in Int : f = m \div d
  BY <1>1
<1>4. PICK r \in Int : r = m % d /\ 0 <= r /\ r < d /\ m = d * f + r
  BY <1>3, SMT
<1>5. Nearest(p, q) = IF 2 * r > d \/ (2 * r = d /\ f % 2 = 1) THEN f + 1 ELSE f
  BY <1>1, <1>2, <1>3, <1>4 DEF Nearest, Numerator
<1>6. PICK e \in Int : e = d * f
  OBVIOUS
<1>7. CASE Nearest(p, q) = f + 1 /\ 2 * r >= d
  <2>1. d * (f + 1) = e + d
    BY <1>6
  <2> QED BY <1>1, <1>2, <1>4, <1>6, <1>7, <2>1
<1>8. CASE Nearest(p, q) = f /\ 2 * r <= d
  BY <1>1, <1>2, <1>4, <1>6, <1>8
<1> QED BY <1>5, <1>7, <1>8, <1>4

(* A larger number is not rounded to a smaller one. *)
LEMMA NearestMonotone ==
  ASSUME NEW x \in Int, NEW y \in Int, NEW t \in Nat \ {0}, x <= y
  PROVE  Nearest(x, t) <= Nearest(y, t)
<1> DEFINE a == Nearest(x, t)
           b == Nearest(y, t)
<1>1. t \in Int \ {0} /\ Abs(t) = t /\ Numerator(x, t) = x /\ Numerator(y, t) = y
  BY DEF Abs, Numerator
<1>2. /\ a \in Int /\ b \in Int
      /\ 2 * (t * a) <= 2 * x + t
      /\ 2 * y <= 2 * (t * b) + t
  BY <1>1, NearestBounds
<1> HIDE DEF a, b
<1> SUFFICES ASSUME b < a PROVE FALSE
  BY <1>2 DEF a, b
<1>3. t * b + t <= t * a
  BY <1>2, Products
<1>4. t * a \in Int /\ t * b \in Int
  BY <1>2
<1>5. x = y
  BY <1>2, <1>3, <1>4
<1> QED BY <1>2, <1>5 DEF a, b

(* A multiple is its own nearest multiple. *)
LEMMA NearestExact ==
  ASSUME NEW m \in Int, NEW t \in Nat \ {0}
  PROVE  Nearest(t * m, t) = m
<1> DEFINE a == Nearest(t * m, t)
<1>1. t \in Int \ {0} /\ Abs(t) = t /\ Numerator(t * m, t) = t * m /\ t * m \in Int
  BY DEF Abs, Numerator
<1>2. a \in Int /\ 2 * (t * a) <= 2 * (t * m) + t /\ 2 * (t * m) <= 2 * (t * a) + t
  BY <1>1, NearestBounds
<1> HIDE DEF a
<1>3. t * a \in Int
  BY <1>2
<1>4. ~(a < m)
  BY <1>1, <1>2, <1>3, Products
<1>5. ~(m < a)
  BY <1>1, <1>2, <1>3, Products
<1> QED BY <1>2, <1>4, <1>5 DEF a

(* A quotient of at most M in size is rounded to one. *)
LEMMA NearestFits ==
  ASSUME NEW p \in Int, NEW q \in Int \ {0}, NEW M \in Nat, Abs(p) <= M * Abs(q)
  PROVE  -M <= Nearest(p, q) /\ Nearest(p, q) <= M
<1>1. PICK d \in Nat \ {0} : d = Abs(q)
  BY DEF Abs
<1>2. PICK n \in Int : n = Numerator(p, q)
  BY DEF Numerator
<1>3. PICK r \in Int : r = Nearest(p, q) /\ 2 * n <= 2 * (d * r) + d /\ 2 * (d * r) <= 2 * n + d
  BY <1>1, <1>2, NearestBounds
<1>4. PICK e \in Int : e = d * M
  OBVIOUS
<1>5. -e <= n /\ n <= e
  <2>1. Abs(p) <= e
    BY <1>1, <1>4
  <2> QED BY <1>2, <2>1 DEF Abs, Numerator
<1>6. d * r \in Int
  OBVIOUS
<1>7. ~(M < r)
  BY <1>3, <1>4, <1>5, <1>6, Products
<1>8. ~(r < -M)
  <2>1. d * (-M) = -e
    BY <1>4
  <2> QED BY <1>3, <1>5, <1>6, <2>1, Products
<1> QED BY <1>3, <1>7, <1>8

-----------------------------------------------------------------------------
(* The spacing of floats *)

(* The spacings floats may have are 1 and doubles of spacings. *)
LEMMA StepFacts ==
  /\ Steps \subseteq Nat \ {0} /\ 1 \in Steps
  /\ \A t \in Steps : t # 1 => \E u \in Steps : t = 2 * u
BY ValueConstants

(* The spacings are powers of two: the smaller divides the larger. *)
LEMMA StepsDivide ==
  ASSUME NEW t \in Steps, NEW u \in Steps, u <= t
  PROVE  \E c \in Nat \ {0} : t = u * c
<1> DEFINE Divides(n) == \A x, y \in Steps : x <= n /\ y <= x => \E c \in Nat \ {0} : x = y * c
           A == {n \in Nat : Divides(n)}
<1>1. 0 \in A
  BY StepFacts
<1>2. ASSUME NEW n \in A PROVE n + 1 \in A
  <2>1. n \in Nat /\ Divides(n)
    OBVIOUS
  <2> HIDE DEF A
  <2> SUFFICES ASSUME NEW x \in Steps, NEW y \in Steps, x <= n + 1, y <= x
               PROVE  \E c \in Nat \ {0} : x = y * c
    BY <2>1 DEF A
  <2>2. x \in Nat \ {0} /\ y \in Nat \ {0}
    BY StepFacts
  <2>3. CASE x <= n
    BY <2>1, <2>3
  <2>4. CASE y = x
    <3>1. x = y * 1
      BY <2>2, <2>4
    <3> QED BY <3>1
  <2>5. CASE x = n + 1 /\ y < x
    <3>1. PICK h \in Steps : x = 2 * h
      BY <2>2, <2>5, StepFacts
    <3>2. h \in Nat \ {0} /\ h <= n
      BY <2>1, <2>5, <3>1, StepFacts
    <3>3. CASE y <= h
      <4>1. PICK c \in Nat \ {0} : h = y * c
        BY <2>1, <3>2, <3>3
      <4>2. x = y * (2 * c)
        BY <2>2, <3>1, <4>1
      <4> QED BY <4>2
    <3>4. CASE h < y
      <4>1. PICK g \in Steps : y = 2 * g
        BY <2>2, <3>2, <3>4, StepFacts
      <4>2. g \in Nat \ {0} /\ g < h
        BY <2>2, <2>5, <3>1, <3>2, <4>1, StepFacts
      <4>3. PICK c \in Nat \ {0} : h = g * c
        BY <2>1, <3>2, <4>2
      <4>4. c # 1
        BY <4>2, <4>3
      <4>5. g * (c - 2) >= 0
        BY <4>2, <4>4
      <4>6. h >= 2 * g
        BY <4>2, <4>3, <4>5
      <4> QED BY <2>2, <3>2, <3>4, <4>1, <4>2, <4>6
    <3> QED BY <2>2, <3>2, <3>3, <3>4
  <2> QED BY <2>1, <2>2, <2>3, <2>4, <2>5
<1>3. A = Nat
  <2>1. A \in SUBSET Nat
    OBVIOUS
  <2> HIDE DEF A
  <2> QED BY <1>1, <1>2, <2>1, Induction
<1>4. t \in Nat /\ t <= t
  BY StepFacts
<1>5. t \in A
  <2> HIDE DEF A
  <2> QED BY <1>3, <1>4
<1>6. Divides(t)
  BY <1>5
<1> QED BY <1>4, <1>6

(* A spacing that suffices for p/q units is wide enough, or the widest. *)
Suffices(k, p, q, t) == Abs(p) <= Mantissa[k] * t * Abs(q) \/ \A u \in Steps : u <= t

(* There is a spacing for every quotient, the least that suffices. *)
LEMMA SpacingExists ==
  ASSUME NEW k \in Floats, NEW p \in Int, NEW q \in Int \ {0}
  PROVE  \E t \in Steps : Suffices(k, p, q, t)
<1> SUFFICES ASSUME \A t \in Steps : ~Suffices(k, p, q, t) PROVE FALSE
  OBVIOUS
<1>0. PICK M \in Nat \ {0} : M = Mantissa[k]
  BY ValueConstants
<1>1. \A t \in Steps : \E u \in Steps : t < u
  BY StepFacts DEF Suffices
<1> DEFINE A == {n \in Nat : \E t \in Steps : n <= t}
<1>2. 0 \in A
  BY StepFacts
<1>3. ASSUME NEW n \in A PROVE n + 1 \in A
  BY <1>1, StepFacts
<1>4. A = Nat
  <2>1. A \in SUBSET Nat
    OBVIOUS
  <2> HIDE DEF A
  <2> QED BY <1>2, <1>3, <2>1, Induction
<1>5. PICK n \in Nat : n = Abs(p)
  BY DEF Abs
<1>6. PICK d \in Nat \ {0} : d = Abs(q)
  BY DEF Abs
<1>7. PICK t \in Steps : n <= t
  BY <1>4
<1>8. t \in Nat /\ M * t * d >= t
  <2>1. t \in Nat \ {0} /\ M - 1 \in Nat /\ d - 1 \in Nat
    BY StepFacts
  <2>2. (M - 1) * t >= 0 /\ M * t = (M - 1) * t + t /\ M * t \in Nat
    BY <2>1
  <2>3. PICK m \in Nat : m = M * t
    BY <2>2
  <2>4. m * (d - 1) >= 0 /\ m * d = m * (d - 1) + m
    BY <2>1
  <2>5. m * (d - 1) \in Int /\ (M - 1) * t \in Int
    BY <2>1
  <2> QED BY <2>1, <2>2, <2>3, <2>4, <2>5
<1>9. M * t * d \in Int
  BY <1>8
<1> QED BY <1>0, <1>5, <1>6, <1>7, <1>8, <1>9 DEF Suffices

(* Spacing chooses the least spacing that suffices. *)
LEMMA SpacingFacts ==
  ASSUME NEW k \in Floats, NEW p \in Int, NEW q \in Int \ {0}
  PROVE  /\ Spacing(k, p, q) \in Steps
         /\ Suffices(k, p, q, Spacing(k, p, q))
         /\ \A u \in Steps : u < Spacing(k, p, q) => Abs(p) > Mantissa[k] * u * Abs(q)
<1> DEFINE S == {t \in Steps : Suffices(k, p, q, t)}
           Smallest(t) == \A u \in Steps : u < t => Abs(p) > Mantissa[k] * u * Abs(q)
<1>1. S \in SUBSET Nat /\ S # {}
  BY SpacingExists, StepFacts
<1>2. PICK t \in S : \A u \in S : t <= u
  <2> HIDE DEF S
  <2> QED BY <1>1, Least
<1>3. ASSUME NEW u \in Steps, u < t PROVE Abs(p) > Mantissa[k] * u * Abs(q)
  <2>1. u \notin S
    BY <1>1, <1>2, <1>3, StepFacts
  <2>2. ~(Abs(p) <= Mantissa[k] * u * Abs(q))
    BY <2>1 DEF Suffices
  <2>3. u \in Int /\ Mantissa[k] \in Int /\ Abs(p) \in Int /\ Abs(q) \in Int
    BY StepFacts, ValueConstants DEF Abs
  <2>4. Mantissa[k] * u * Abs(q) \in Int
    BY <2>3
  <2> QED BY <2>2, <2>3, <2>4
<1>4. t \in Steps /\ Suffices(k, p, q, t) /\ Smallest(t)
  BY <1>2, <1>3
<1>5. Spacing(k, p, q) = CHOOSE x \in Steps : Suffices(k, p, q, x) /\ Smallest(x)
  BY DEF Spacing, Suffices
<1> HIDE DEF Smallest
<1>6. /\ Spacing(k, p, q) \in Steps /\ Suffices(k, p, q, Spacing(k, p, q))
      /\ Smallest(Spacing(k, p, q))
  BY <1>4, <1>5
<1> QED BY <1>6 DEF Smallest

-----------------------------------------------------------------------------
(* Rounding to a float *)

(* The largest of the spacings, if there is one *)
Large(k) == {t \in Steps : \A u \in Steps : u <= t}

(* Rounded: a multiple of a spacing, few enough of it or of the largest. *)
LEMMA RoundFacts ==
  ASSUME NEW k \in Floats, NEW p \in Int, NEW q \in Int \ {0}
  PROVE  \E t \in Steps : \E m \in Int :
           /\ t = Spacing(k, p, q) /\ m = Nearest(p, q * t)
           /\ Round(k, p, q) = t * m /\ Round(k, p, q) \in Int
           /\ q * t \in Int \ {0} /\ Abs(q * t) = Abs(q) * t
           /\ (-Mantissa[k] <= m /\ m <= Mantissa[k]) \/ t \in Large(k)
           /\ Abs(p) <= Mantissa[k] * t * Abs(q) \/ t \in Large(k)
<1> DEFINE t == Spacing(k, p, q)
           m == Nearest(p, q * t)
<1>1. t \in Steps /\ t \in Nat \ {0} /\ (Abs(p) <= Mantissa[k] * t * Abs(q) \/ t \in Large(k))
  BY SpacingFacts, StepFacts DEF Suffices, Large
<1>2. Mantissa[k] \in Nat \ {0}
  BY ValueConstants
<1>3. Round(k, p, q) = t * m
  BY DEF Round
<1> HIDE DEF t
<1>4. q * t \in Int \ {0}
  BY <1>1
<1>5. Abs(q * t) = Abs(q) * t
  <2>1. CASE q < 0
    <3>1. (-q) * t > 0 /\ (-q) * t = -(q * t)
      BY <1>1, <2>1
    <3> QED BY <1>1, <1>4, <2>1, <3>1 DEF Abs
  <2>2. CASE q > 0
    <3>1. q * t > 0
      BY <1>1, <2>2
    <3> QED BY <1>1, <1>4, <2>2, <3>1 DEF Abs
  <2> QED BY <2>1, <2>2
<1>6. m \in Int
  BY <1>4, NearestBounds
<1>7. ASSUME Abs(p) <= Mantissa[k] * t * Abs(q) PROVE -Mantissa[k] <= m /\ m <= Mantissa[k]
  <2>1. Abs(q) \in Int
    BY DEF Abs
  <2>2. Mantissa[k] * t * Abs(q) = Mantissa[k] * (Abs(q) * t)
    BY <1>1, <1>2, <2>1
  <2> QED BY <1>2, <1>4, <1>5, <1>7, <2>2, NearestFits
<1>8. t * m \in Int
  BY <1>1, <1>6
<1> HIDE DEF m
<1>9. (-Mantissa[k] <= m /\ m <= Mantissa[k]) \/ t \in Large(k)
  BY <1>1, <1>7
<1> QED BY <1>1, <1>3, <1>4, <1>5, <1>6, <1>8, <1>9 DEF t, m

(* Sizes of numbers *)
LEMMA AbsOne == Abs(1) = 1 /\ \A p \in Int : Abs(p) \in Nat
BY DEF Abs

(* A multiple of a spacing, with few enough of it, is a float already. *)
LEMMA Representable ==
  ASSUME NEW k \in Floats, NEW t \in Steps, NEW m \in Int,
         (-Mantissa[k] <= m /\ m <= Mantissa[k]) \/ t \in Large(k)
  PROVE  Round(k, t * m, 1) = t * m
<1>1. t \in Nat \ {0} /\ Mantissa[k] \in Nat \ {0}
  BY StepFacts, ValueConstants
<1>2. PICK x \in Int : x = t * m
  BY <1>1
<1>3. PICK u \in Steps : u = Spacing(k, x, 1)
  BY SpacingFacts
<1>4. u \in Nat \ {0}
  BY StepFacts
<1>5. u <= t
  <2>1. CASE t \in Large(k)
    BY <2>1 DEF Large
  <2>2. CASE -Mantissa[k] <= m /\ m <= Mantissa[k]
    <3>1. Abs(x) <= Mantissa[k] * t
      <4>1. t * (Mantissa[k] - m) >= 0 /\ t * (Mantissa[k] + m) >= 0
        BY <1>1, <2>2
      <4>2. t * (Mantissa[k] - m) = Mantissa[k] * t - x /\ t * (Mantissa[k] + m) = Mantissa[k] * t + x
        BY <1>1, <1>2
      <4>3. Mantissa[k] * t \in Int
        BY <1>1
      <4> QED BY <1>2, <4>1, <4>2, <4>3 DEF Abs
    <3>2. ~(t < u)
      <4> SUFFICES ASSUME t < u PROVE FALSE
        OBVIOUS
      <4>1. Abs(x) > Mantissa[k] * t * Abs(1)
        BY <1>3, SpacingFacts
      <4>2. Mantissa[k] * t * Abs(1) = Mantissa[k] * t /\ Mantissa[k] * t \in Int /\ Abs(x) \in Int
        BY <1>1, AbsOne
      <4> QED BY <3>1, <4>1, <4>2
    <3> QED BY <1>1, <1>4, <3>2
  <2> QED BY <2>1, <2>2
<1>6. PICK c \in Nat \ {0} : t = u * c
  BY <1>5, StepsDivide
<1>7. x = u * (c * m) /\ c * m \in Int /\ 1 * u = u
  BY <1>2, <1>4, <1>6
<1>8. Nearest(x, 1 * u) = c * m
  BY <1>4, <1>7, NearestExact
<1> QED BY <1>2, <1>3, <1>7, <1>8 DEF Round

(* To round what is rounded changes nothing. *)
LEMMA RoundIdempotent ==
  ASSUME NEW k \in Floats, NEW p \in Int, NEW q \in Int \ {0}
  PROVE  Round(k, p, q) \in Int /\ Round(k, Round(k, p, q), 1) = Round(k, p, q)
<1>1. PICK t \in Steps, m \in Int :
        /\ Round(k, p, q) = t * m /\ Round(k, p, q) \in Int
        /\ (-Mantissa[k] <= m /\ m <= Mantissa[k]) \/ t \in Large(k)
  BY RoundFacts
<1> QED BY <1>1, Representable

(* No number but 0 is rounded to 0. *)
LEMMA RoundNotZero ==
  ASSUME NEW k \in Floats, NEW p \in Int \ {0}
  PROVE  Round(k, p, 1) # 0
<1> SUFFICES ASSUME Round(k, p, 1) = 0 PROVE FALSE
  OBVIOUS
<1>1. PICK t \in Steps, m \in Int :
        t = Spacing(k, p, 1) /\ m = Nearest(p, 1 * t) /\ t * m = 0
  BY RoundFacts
<1>2. t \in Nat \ {0} /\ 1 * t = t /\ Mantissa[k] \in Nat \ {0}
  BY StepFacts, ValueConstants
<1>3. m = 0
  BY <1>1, <1>2
<1>4. 2 * Abs(p) <= t
  <2>1. Abs(t) = t /\ Numerator(p, t) = p /\ t * 0 = 0
    BY <1>2 DEF Abs, Numerator
  <2>2. /\ 2 * Numerator(p, t) <= 2 * (Abs(t) * Nearest(p, t)) + Abs(t)
        /\ 2 * (Abs(t) * Nearest(p, t)) <= 2 * Numerator(p, t) + Abs(t)
    BY <1>2, NearestBounds
  <2>3. Nearest(p, t) = 0
    BY <1>1, <1>2, <1>3
  <2>4. 2 * p <= t /\ 0 <= 2 * p + t
    BY <1>2, <2>1, <2>2, <2>3
  <2> QED BY <1>2, <2>4 DEF Abs
<1>5. t # 1
  BY <1>4 DEF Abs
<1>6. PICK h \in Steps : t = 2 * h
  BY <1>5, StepFacts
<1>7. h \in Nat \ {0} /\ h < t
  BY <1>2, <1>6, StepFacts
<1>8. Abs(p) > Mantissa[k] * h * Abs(1)
  BY <1>1, <1>7, SpacingFacts
<1>9. (Mantissa[k] - 1) * h >= 0 /\ Mantissa[k] * h * Abs(1) = (Mantissa[k] - 1) * h + h
  BY <1>2, <1>7, AbsOne
<1>10. (Mantissa[k] - 1) * h \in Int /\ Abs(p) \in Int
  BY <1>2, <1>7, AbsOne
<1> QED BY <1>4, <1>6, <1>7, <1>8, <1>9, <1>10

-----------------------------------------------------------------------------
(* Rounding keeps the order *)

(* A float32 is a float64. *)
LEMMA Widened ==
  ASSUME NEW n \in Int, NEW k \in Floats, n = Round(k, n, 1)
  PROVE  Round("float64", n, 1) = n
<1>1. CASE k = "float64"
  BY <1>1
<1>2. CASE k = "float32"
  <2>1. k \in Floats /\ "float64" \in Floats
    BY DEF Floats
  <2>2. PICK t \in Steps, m \in Int :
          /\ n = t * m
          /\ (-Mantissa[k] <= m /\ m <= Mantissa[k]) \/ t \in Large(k)
    BY <2>1, RoundFacts
  <2>3. Mantissa[k] \in Nat /\ Mantissa["float64"] \in Nat /\ Mantissa[k] <= Mantissa["float64"]
    BY <1>2, <2>1, ValueConstants
  <2>4. (-Mantissa["float64"] <= m /\ m <= Mantissa["float64"]) \/ t \in Large("float64")
    BY <2>2, <2>3 DEF Large
  <2> QED BY <2>1, <2>2, <2>4, Representable
<1> QED BY <1>1, <1>2 DEF Floats

(* Rounded to a spacing: half of it off at most, and on a finer grid no    *)
(* further from zero than the mantissa allows.                             *)
Grid(k, x, t, r) ==
  /\ t \in Nat \ {0} /\ r \in Int /\ t \in Steps
  /\ 2 * x <= 2 * r + t /\ 2 * r <= 2 * x + t
  /\ (-(Mantissa[k] * t) <= r /\ r <= Mantissa[k] * t) \/ t \in Large(k)
  /\ \A u \in Steps : u < t => Abs(x) > Mantissa[k] * u
  /\ Abs(x) <= Mantissa[k] * t \/ t \in Large(k)
  /\ r = t * Nearest(x, t)

(* What a number is rounded to lies on the grid of its spacing. *)
LEMMA OnGrid ==
  ASSUME NEW k \in Floats, NEW x \in Int
  PROVE  \E t \in Steps : Grid(k, x, t, Round(k, x, 1))
<1>1. PICK t \in Steps, m \in Int :
        /\ t = Spacing(k, x, 1) /\ m = Nearest(x, 1 * t)
        /\ Round(k, x, 1) = t * m
        /\ (-Mantissa[k] <= m /\ m <= Mantissa[k]) \/ t \in Large(k)
        /\ Abs(x) <= Mantissa[k] * t * Abs(1) \/ t \in Large(k)
  BY RoundFacts
<1>2. t \in Nat \ {0} /\ 1 * t = t /\ Mantissa[k] \in Nat \ {0} /\ Abs(t) = t /\ Numerator(x, t) = x
  BY StepFacts, ValueConstants DEF Abs, Numerator
<1>3. PICK r \in Int : r = t * m
  BY <1>2
<1>4. 2 * x <= 2 * r + t /\ 2 * r <= 2 * x + t
  <2>1. /\ 2 * Numerator(x, t) <= 2 * (Abs(t) * Nearest(x, t)) + Abs(t)
        /\ 2 * (Abs(t) * Nearest(x, t)) <= 2 * Numerator(x, t) + Abs(t)
    BY <1>2, NearestBounds
  <2> QED BY <1>1, <1>2, <1>3, <2>1
<1>5. ASSUME -Mantissa[k] <= m, m <= Mantissa[k] PROVE -(Mantissa[k] * t) <= r /\ r <= Mantissa[k] * t
  <2>1. t * (Mantissa[k] - m) >= 0 /\ t * (Mantissa[k] + m) >= 0
    BY <1>2, <1>5
  <2>2. t * (Mantissa[k] - m) = Mantissa[k] * t - r /\ t * (Mantissa[k] + m) = Mantissa[k] * t + r
    BY <1>2, <1>3
  <2>3. Mantissa[k] * t \in Int
    BY <1>2
  <2> QED BY <2>1, <2>2, <2>3
<1>6. ASSUME NEW u \in Steps, u < t PROVE Abs(x) > Mantissa[k] * u
  <2>1. Abs(x) > Mantissa[k] * u * Abs(1)
    BY <1>1, <1>6, SpacingFacts
  <2>2. u \in Nat
    BY StepFacts
  <2> QED BY <1>2, <2>1, <2>2, AbsOne
<1>7. Abs(x) <= Mantissa[k] * t \/ t \in Large(k)
  BY <1>1, <1>2, AbsOne
<1>8. (-(Mantissa[k] * t) <= r /\ r <= Mantissa[k] * t) \/ t \in Large(k)
  BY <1>1, <1>5
<1> QED BY <1>1, <1>2, <1>3, <1>4, <1>6, <1>7, <1>8 DEF Grid

(* The nearest whole number is a number. *)
LEMMA NearestType ==
  ASSUME NEW p \in Int, NEW t \in Nat \ {0}
  PROVE  Nearest(p, t) \in Int
BY NearestBounds

(* The larger of two numbers is not rounded to the smaller one. *)
LEMMA RoundMonotone ==
  ASSUME NEW k \in Floats, NEW x \in Int, NEW y \in Int, x <= y
  PROVE  Round(k, x, 1) <= Round(k, y, 1)
<1>1. PICK t \in Steps : Grid(k, x, t, Round(k, x, 1))
  BY OnGrid
<1>2. PICK u \in Steps : Grid(k, y, u, Round(k, y, 1))
  BY OnGrid
<1>3. PICK M \in Nat \ {0} : M = Mantissa[k]
  BY ValueConstants
<1>4. PICK r \in Int : r = Round(k, x, 1) /\ Grid(k, x, t, r)
  BY <1>1 DEF Grid
<1>5. PICK s \in Int : s = Round(k, y, 1) /\ Grid(k, y, u, s)
  BY <1>2 DEF Grid
<1> SUFFICES r <= s
  BY <1>4, <1>5
<1>6. t \in Nat \ {0} /\ u \in Nat \ {0}
  BY StepFacts
<1>7. CASE t = u
  <2>1. PICK a, b \in Int : a = Nearest(x, t) /\ b = Nearest(y, t) /\ a <= b
    BY <1>6, NearestMonotone, NearestType
  <2>2. r = t * a /\ s = t * b
    BY <1>4, <1>5, <1>7, <2>1 DEF Grid
  <2>3. t * (b - a) >= 0 /\ t * (b - a) = s - r
    BY <1>6, <2>1, <2>2
  <2> QED BY <2>3
<1>8. CASE t < u
  <2>1. u # 1
    BY <1>6, <1>8
  <2>2. PICK h \in Steps : u = 2 * h
    BY <2>1, StepFacts
  <2>3. h \in Nat \ {0} /\ t <= h /\ h < u
    <3>1. h \in Nat \ {0}
      BY StepFacts
    <3>2. PICK c \in Nat \ {0} : u = t * c
      BY <1>6, <1>8, StepsDivide
    <3>3. c >= 2
      BY <1>6, <1>8, <3>2
    <3>4. t * (c - 2) >= 0 /\ t * (c - 2) = u - 2 * t
      BY <1>6, <3>2, <3>3
    <3> QED BY <1>6, <2>2, <3>1, <3>4
  <2>4. M * t \in Int /\ M * h \in Int /\ M * t <= M * h
    <3>1. M * (h - t) >= 0 /\ M * (h - t) = M * h - M * t
      BY <1>6, <2>3
    <3> QED BY <1>6, <2>3, <3>1
  <2>5. Abs(y) > M * h /\ t \notin Large(k)
    BY <1>3, <1>5, <1>6, <1>8, <2>3 DEF Grid, Large
  <2>6. -(M * t) <= r /\ r <= M * t /\ Abs(x) <= M * t
    BY <1>3, <1>4, <2>5 DEF Grid
  <2>7. y > M * h
    BY <2>4, <2>5, <2>6 DEF Abs
  <2>8. 2 * y <= 2 * s + u
    BY <1>5 DEF Grid
  <2>9. M * h <= s
    <3>1. PICK b \in Int : s = u * b
      BY <1>5, <1>6, NearestType DEF Grid
    <3>2. s = h * (2 * b)
      BY <2>2, <2>3, <3>1
    <3>3. 2 * (M * h) < 2 * s + 2 * h
      BY <2>2, <2>3, <2>4, <2>7, <2>8
    <3>4. ~(2 * b < M)
      <4> SUFFICES ASSUME 2 * b < M PROVE FALSE
        OBVIOUS
      <4>1. h * (2 * b) + h <= h * M
        BY <2>3, Products
      <4> QED BY <2>3, <2>4, <3>2, <3>3, <4>1
    <3>5. h * (2 * b - M) >= 0 /\ h * (2 * b - M) = s - M * h
      BY <2>3, <3>2, <3>4
    <3> QED BY <2>4, <3>5
  <2> QED BY <2>4, <2>6, <2>9
<1>9. CASE u < t
  <2>1. t # 1
    BY <1>6, <1>9
  <2>2. PICK h \in Steps : t = 2 * h
    BY <2>1, StepFacts
  <2>3. h \in Nat \ {0} /\ u <= h /\ h < t
    <3>1. h \in Nat \ {0}
      BY StepFacts
    <3>2. PICK c \in Nat \ {0} : t = u * c
      BY <1>6, <1>9, StepsDivide
    <3>3. c >= 2
      BY <1>6, <1>9, <3>2
    <3>4. u * (c - 2) >= 0 /\ u * (c - 2) = t - 2 * u
      BY <1>6, <3>2, <3>3
    <3> QED BY <1>6, <2>2, <3>1, <3>4
  <2>4. M * u \in Int /\ M * h \in Int /\ M * u <= M * h
    <3>1. M * (h - u) >= 0 /\ M * (h - u) = M * h - M * u
      BY <1>6, <2>3
    <3> QED BY <1>6, <2>3, <3>1
  <2>5. Abs(x) > M * h /\ u \notin Large(k)
    BY <1>3, <1>4, <1>6, <1>9, <2>3 DEF Grid, Large
  <2>6. -(M * u) <= s /\ s <= M * u /\ Abs(y) <= M * u
    BY <1>3, <1>5, <2>5 DEF Grid
  <2>7. x < -(M * h)
    BY <2>4, <2>5, <2>6 DEF Abs
  <2>8. 2 * r <= 2 * x + t
    BY <1>4 DEF Grid
  <2>9. r <= -(M * h)
    <3>1. PICK b \in Int : r = t * b
      BY <1>4, <1>6, NearestType DEF Grid
    <3>2. r = h * (2 * b)
      BY <2>2, <2>3, <3>1
    <3>3. 2 * r < 2 * h - 2 * (M * h)
      BY <2>2, <2>3, <2>4, <2>7, <2>8
    <3>4. ~(-M < 2 * b)
      <4> SUFFICES ASSUME -M < 2 * b PROVE FALSE
        OBVIOUS
      <4>1. h * (-M) + h <= h * (2 * b)
        BY <2>3, Products
      <4>2. h * (-M) = -(M * h)
        BY <2>3
      <4> QED BY <2>3, <2>4, <3>2, <3>3, <4>1, <4>2
    <3>5. h * (-M - 2 * b) >= 0 /\ h * (-M - 2 * b) = -(M * h) - r
      BY <2>3, <3>2, <3>4
    <3> QED BY <2>4, <3>5
  <2> QED BY <2>4, <2>6, <2>9
<1> QED BY <1>6, <1>7, <1>8, <1>9

-----------------------------------------------------------------------------
(* Conversions yield values of the kinds they convert to *)

(* The kinds of integers, and values that are what their kind says *)
Whole == Signed \cup Unsigned
Sound(v) == OfKind(v, v.kind)

(* The kinds of numbers, and what are none *)
LEMMA KindFacts ==
  /\ Numbers = Whole \cup Floats /\ {"int64", "uint64"} \subseteq Whole
  /\ {"float32", "float64"} = Floats /\ Signed \subseteq Whole /\ Unsigned \subseteq Whole
  /\ \A k \in Numbers : k \notin {"string", "bool", "interface", "invalid", "error", "panic"}
  /\ \A k \in Whole : k \notin Floats
  /\ \A k \in Signed : k \notin Unsigned
BY DEF Numbers, Whole, Signed, Unsigned, Floats

(* The unit of floats is a positive number. *)
LEMMA UnitFacts == Unit \in Nat \ {0} /\ Unit \in Int \ {0}
BY ValueConstants

(* What wraps around fits its kind. *)
LEMMA WrapInRange ==
  ASSUME NEW k \in Whole, NEW n \in Int
  PROVE  Wrap(k, n) \in Int /\ Fits(k, Wrap(k, n))
<1>1. PICK s \in Nat \ {0} : s = Size[k]
  BY Sizes DEF Whole
<1>2. PICK h \in Nat : h = Size[k] \div 2 /\ 2 * h = s
  BY <1>1, Sizes DEF Whole
<1>3. \A m \in Int : m % s \in Int /\ 0 <= m % s /\ m % s < s
  BY SMT
<1>4. CASE k \in Signed
  <2>1. (n + h) % s \in Int /\ 0 <= (n + h) % s /\ (n + h) % s < s
    BY <1>3
  <2> QED BY <1>1, <1>2, <1>4, <2>1 DEF Wrap, Fits
<1>5. CASE k \notin Signed
  BY <1>1, <1>3, <1>5 DEF Wrap, Fits
<1> QED BY <1>4, <1>5

(* An integer that wrapped around is one its kind can hold. *)
LEMMA WholeKind ==
  ASSUME NEW k \in Whole, NEW n \in Int
  PROVE  OfKind(Num(k, Wrap(k, n)), k)
BY WrapInRange, KindFacts, Results DEF OfKind, Whole

(* A rounded quotient is a float of its kind. *)
LEMMA FloatKind ==
  ASSUME NEW k \in Floats, NEW p \in Int, NEW q \in Int \ {0}
  PROVE  OfKind(Num(k, Round(k, p, q)), k)
BY RoundIdempotent, KindFacts, Results DEF OfKind, Whole

(* A number as float64, zero if and only if it is. *)
LEMMA AsFloatType ==
  ASSUME NEW v, Sound(v), v.kind \in Numbers
  PROVE  v.n \in Int /\ AsFloat(v) \in Int /\ (v.n # 0 => AsFloat(v) # 0)
<1>1. v.n \in Int
  BY DEF Sound, OfKind
<1>2. CASE v.kind \in Floats
  BY <1>1, <1>2 DEF AsFloat
<1>3. CASE v.kind \notin Floats
  <2>1. AsFloat(v) = Round("float64", v.n * Unit, 1)
    BY <1>3 DEF AsFloat
  <2>2. "float64" \in Floats /\ v.n * Unit \in Int /\ 1 \in Int \ {0}
    BY <1>1, UnitFacts, KindFacts
  <2>3. v.n # 0 => v.n * Unit # 0
    BY <1>1, UnitFacts
  <2> QED BY <1>1, <2>1, <2>2, <2>3, RoundIdempotent, RoundNotZero
<1> QED BY <1>2, <1>3

(* A float is truncated to integers. *)
LEMMA TruncatedType ==
  ASSUME NEW k \in Whole, NEW n \in Int
  PROVE  Truncated(k, n) \subseteq Int
<1>1. Quo(n, Unit) \in Int
  BY UnitFacts, Quotients
<1>2. NumbersFitting(k) \subseteq Int
  <2>1. Size[k] \in Nat /\ Size[k] \div 2 \in Nat
    BY Sizes DEF Whole
  <2> QED BY <2>1 DEF NumbersFitting
<1> QED BY <1>1, <1>2 DEF Truncated

(* Integers of a kind are ones the kind can hold. *)
LEMMA IntsTyped ==
  ASSUME NEW k \in Whole, NEW S \in SUBSET Int, NEW w \in Ints(k, S)
  PROVE  OfKind(w, k)
BY WholeKind DEF Ints

(* A number is converted to ones its new kind can hold. *)
LEMMA NumbersOfTyped ==
  ASSUME NEW k \in Numbers, NEW v, Sound(v), v.kind \in Numbers, NEW w \in NumbersOf(k, v)
  PROVE  OfKind(w, k)
<1>1. CASE k \in Floats
  <2>1. w = Num(k, Round(k, AsFloat(v), 1))
    BY <1>1 DEF NumbersOf
  <2> QED BY <1>1, <2>1, AsFloatType, FloatKind
<1>2. CASE k \in Whole
  <2>1. k \notin Floats
    BY <1>2, KindFacts
  <2>2. v.n \in Int
    BY AsFloatType
  <2>3. CASE v.kind \in Floats
    <3> PICK j \in Whole : w \in Ints(k, Truncated(j, v.n))
      BY <2>1, <2>3, KindFacts DEF NumbersOf
    <3> QED BY <1>2, <2>2, TruncatedType, IntsTyped
  <2>4. CASE v.kind \notin Floats
    <3>1. w \in Ints(k, {v.n})
      BY <2>1, <2>4 DEF NumbersOf
    <3> QED BY <1>2, <2>2, <3>1, IntsTyped
  <2> QED BY <2>3, <2>4
<1> QED BY <1>1, <1>2, KindFacts

(* How a conversion fails *)
Failures == {Error, Panic}

(* What math.go takes for a number, and is no interface value, is one. *)
LEMMA ClassNumber ==
  ASSUME NEW v, Class(v) # "other", v.kind # "interface"
  PROVE  v.kind \in Numbers
BY DEF Class, Numbers

(* SetSingleValue yields values of the kind it stores, or fails. *)
LEMMA SetSingleValueTyped ==
  ASSUME NEW k, NEW v, Sound(v), NEW w \in SetSingleValue(k, v)
  PROVE  OfKind(w, k) \/ w \in Failures
<1>1. CASE v.kind = k
  BY <1>1 DEF SetSingleValue, Sound
<1>2. CASE v.kind # k /\ w \notin Failures
  <2>1. k \in Numbers /\ v.kind \in Numbers /\ w \in NumbersOf(k, v)
    BY <1>2, ClassNumber DEF SetSingleValue, Failures
  <2> QED BY <2>1, NumbersOfTyped
<1> QED BY <1>1, <1>2

(* SetAttributeValue yields values of the kind of the field, or fails. *)
LEMMA SetAttributeValueTyped ==
  ASSUME NEW k \in Scalars \cup Containers, NEW v, Sound(v), NEW w \in SetAttributeValue(k, v)
  PROVE  OfKind(w, k) \/ w \in Failures
<1>1. CASE k \in Numbers
  <2>1. w \in Failures \/ (v.kind \in Numbers /\ w \in NumbersOf(k, v))
    BY <1>1, KindFacts DEF SetAttributeValue, Failures, Numbers, Signed, Unsigned, Floats
  <2> QED BY <1>1, <2>1, NumbersOfTyped
<1>2. CASE k \notin Numbers
  <2>1. w \in Failures \/ w.kind = k
    BY <1>2 DEF SetAttributeValue, Failures, Str, Value
  <2> QED BY <1>2, <2>1 DEF OfKind, Numbers
<1> QED BY <1>1, <1>2

(* A kind of numbers is of its sort. *)
LEMMA SortFacts ==
  ASSUME NEW k \in Numbers
  PROVE  k \in Sort(k) /\ Sort(k) \subseteq Numbers
BY DEF Sort, Numbers

(* GetWantedValue and reflect yield values of the kind of the element, or  *)
(* panic.                                                                  *)
LEMMA WantedTyped ==
  ASSUME NEW k, NEW v, Sound(v), NEW w \in Wanted(v, k)
  PROVE  OfKind(w, k) \/ w = Panic
<1> SUFFICES ASSUME w # Panic PROVE OfKind(w, k)
  OBVIOUS
<1>1. PICK x \in GetWantedValue(v, k) : Assignable(x, k) /\ w = Value(k, x.n, x.s)
  BY DEF Wanted
<1>2. w.kind = k /\ w.n = x.n
  BY <1>1 DEF Value
<1>3. CASE k \notin Numbers
  BY <1>2, <1>3 DEF OfKind, Numbers
<1>4. CASE k \in Numbers
  <2>1. x.kind = k
    BY <1>1, <1>4, KindFacts DEF Assignable
  <2>2. OfKind(x, k)
    <3>1. CASE x = v
      BY <2>1, <3>1 DEF Sound
    <3>2. CASE x # v
      <4>1. v.kind \in Numbers /\ x \in NumbersOf(k, v)
        BY <1>1, <1>4, <2>1, <3>2, SortFacts, KindFacts DEF GetWantedValue, Panic, Num, Value
      <4> QED BY <1>4, <4>1, NumbersOfTyped
    <3> QED BY <3>1, <3>2
  <2> QED BY <1>2, <2>1, <2>2 DEF OfKind
<1> QED BY <1>3, <1>4

(* ParamsTypeChange and reflect yield values of the kind of the parameter, *)
(* or panic.                                                               *)
LEMMA ParamsTypeChangeTyped ==
  ASSUME NEW k, NEW v, Sound(v), NEW w \in ParamsTypeChange(v, k)
  PROVE  OfKind(w, k) \/ w = Panic
<1> SUFFICES ASSUME w # Panic PROVE OfKind(w, k)
  OBVIOUS
<1>1. CASE k \notin Numbers \/ Class(v) = "other"
  <2>1. Assignable(v, k) /\ w = Value(k, v.n, v.s)
    BY <1>1 DEF ParamsTypeChange, getNumType
  <2>2. w.kind = k /\ w.n = v.n
    BY <2>1 DEF Value
  <2>3. CASE k \notin Numbers
    BY <2>2, <2>3 DEF OfKind, Numbers
  <2>4. CASE k \in Numbers
    <3>1. v.kind = k
      BY <2>1, <2>4, KindFacts DEF Assignable
    <3> QED BY <2>2, <3>1 DEF OfKind, Sound
  <2> QED BY <2>3, <2>4
<1>2. CASE k \in Numbers /\ Class(v) # "other"
  <2>1. v.kind \in Numbers
    BY <1>2, ClassNumber DEF ParamsTypeChange, getNumType
  <2>2. CASE w \in NumbersOf(k, v)
    BY <1>2, <2>1, <2>2, NumbersOfTyped
  <2>3. CASE k \notin Floats /\ w \in Ints(k, Truncated(k, v.n))
    <3>1. k \in Whole /\ v.n \in Int
      BY <1>2, <2>1, <2>3, KindFacts, AsFloatType
    <3> QED BY <2>3, <3>1, TruncatedType, IntsTyped
  <2> QED BY <1>2, <2>2, <2>3 DEF ParamsTypeChange, getNumType
<1> QED BY <1>1, <1>2

-----------------------------------------------------------------------------
(* Operations yield values of their kinds *)

(* A divisor that is not 0 is not 0 as an int64. *)
LEMMA QuotientsOfSound ==
  ASSUME NEW a, NEW b, Sound(a), Sound(b), a.kind \in Whole, b.kind \in Whole, b.n # 0
  PROVE  AsInt(b) \in Int /\ AsInt(b) # 0 /\ AsInt(a) \in Int
<1>0. a.n \in Int /\ b.n \in Int /\ Fits(b.kind, b.n)
  BY KindFacts DEF Sound, OfKind, Whole
<1>1. "int64" \in Whole /\ "int64" \in Signed
  BY DEF Whole, Signed
<1>2. PICK s \in Nat \ {0} : s = Size["int64"]
  BY <1>1, Sizes DEF Whole
<1>3. PICK q \in Int : Wrap("int64", b.n) = b.n + s * q
  BY <1>0, <1>1, <1>2, WrapShifts DEF Whole
<1>4. -s < b.n /\ b.n < s
  <2>1. PICK z \in Nat \ {0} : z = Size[b.kind]
    BY Sizes DEF Whole
  <2>2. PICK h \in Nat : h = Size[b.kind] \div 2 /\ 2 * h = z
    BY <2>1, Sizes DEF Whole
  <2>3. z <= s
    <3>1. \A x, y \in Nat \ {0} : y % x = 0 => x <= y
      BY SMT
    <3>2. Size["int64"] % Size[b.kind] = 0
      BY ValueConstants DEF Whole
    <3> QED BY <1>2, <2>1, <3>1, <3>2
  <2>4. -z < b.n /\ b.n < z
    BY <1>0, <2>1, <2>2 DEF Fits
  <2> QED BY <1>0, <2>1, <2>3, <2>4
<1>5. b.n + s * q # 0
  <2>1. CASE q = 0
    BY <1>0, <2>1
  <2>2. CASE q > 0
    <3>1. s * (q - 1) >= 0 /\ s * (q - 1) = s * q - s /\ s * q \in Int
      BY <2>2
    <3> QED BY <1>0, <1>4, <3>1
  <2>3. CASE q < 0
    <3>1. s * (-q - 1) >= 0 /\ s * (-q - 1) = -(s * q) - s /\ s * q \in Int
      BY <2>3
    <3> QED BY <1>0, <1>4, <3>1
  <2> QED BY <2>1, <2>2, <2>3
<1> QED BY <1>0, <1>1, <1>3, <1>5, WrapInRange DEF AsInt

(* The operands of an operation, and its result *)
LEMMA NumericSound ==
  ASSUME NEW op \in {"+", "-", "*", "/"}, NEW a, NEW b, Sound(a), Sound(b),
         op = "/" => b.kind \in Numbers /\ b.n # 0
  PROVE  /\ Sound(Numeric(op, a, b))
         /\ Numeric(op, a, b).kind \in Numbers \cup {"error", "panic"}
<1>0. Sound(Error) /\ Sound(Panic) /\ {Error.kind, Panic.kind} \subseteq {"error", "panic"}
  BY DEF Sound, OfKind, Error, Panic, Num, Value, Numbers, Signed, Unsigned, Floats
<1> SUFFICES ASSUME a.kind \in Numbers, b.kind \in Numbers PROVE
         /\ Sound(Numeric(op, a, b))
         /\ Numeric(op, a, b).kind \in Numbers \cup {"error", "panic"}
  <2>1. CASE "other" \in {Class(a), Class(b)}
    BY <1>0, <2>1 DEF Numeric
  <2>2. CASE "other" \notin {Class(a), Class(b)} /\ "interface" \in {a.kind, b.kind}
    BY <1>0, <2>2 DEF Numeric
  <2>3. CASE "other" \notin {Class(a), Class(b)} /\ "interface" \notin {a.kind, b.kind}
    BY <2>3, ClassNumber
  <2> QED BY <2>1, <2>2, <2>3
<1>1. "other" \notin {Class(a), Class(b)} /\ "interface" \notin {a.kind, b.kind}
  BY KindFacts DEF Class, Numbers
<1>2. /\ AsFloat(a) \in Int /\ AsFloat(b) \in Int /\ (op = "/" => AsFloat(b) \in Int \ {0})
      /\ a.n \in Int /\ b.n \in Int
  BY AsFloatType
<1> DEFINE r == Numeric(op, a, b)
<1>3. CASE "float" \in {Class(a), Class(b)}
  <2>1. r = Num("float64", FloatResult(op, AsFloat(a), AsFloat(b)))
    BY <1>1, <1>3 DEF Numeric
  <2>2. PICK x \in Int : x = AsFloat(a)
    BY <1>2
  <2>3. PICK y \in Int : y = AsFloat(b) /\ (op = "/" => y \in Int \ {0})
    BY <1>2
  <2>4. \E p \in Int : \E q \in Int \ {0} : FloatResult(op, x, y) = Round("float64", p, q)
    <3>1. op = "+" => FloatResult(op, x, y) = Round("float64", x + y, 1)
      BY DEF FloatResult
    <3>2. op = "-" => FloatResult(op, x, y) = Round("float64", x - y, 1)
      BY DEF FloatResult
    <3>3. op = "*" => FloatResult(op, x, y) = Round("float64", x * y, Unit)
      BY DEF FloatResult
    <3>4. op = "/" => FloatResult(op, x, y) = Round("float64", x * Unit, y)
      BY DEF FloatResult
    <3>5. x + y \in Int /\ x - y \in Int /\ x * y \in Int /\ x * Unit \in Int /\ 1 \in Int \ {0}
      BY UnitFacts
    <3>6. CASE op = "+"
      BY <3>1, <3>5, <3>6
    <3>7. CASE op = "-"
      BY <3>2, <3>5, <3>7
    <3>8. CASE op = "*"
      BY <3>3, <3>5, <3>8, UnitFacts
    <3>9. CASE op = "/"
      BY <2>3, <3>4, <3>5, <3>9
    <3> QED BY <3>6, <3>7, <3>8, <3>9
  <2>5. OfKind(r, "float64")
    BY <2>1, <2>2, <2>3, <2>4, FloatKind, KindFacts
  <2> QED BY <2>5, KindFacts DEF OfKind, Sound
<1>4. CASE "float" \notin {Class(a), Class(b)}
  <2>1. a.kind \in Whole /\ b.kind \in Whole
    BY <1>4, KindFacts DEF Class
  <2>2. CASE {Class(a), Class(b)} = {"uint"}
    <3>1. r = Num("uint64", Wrap("uint64", WholeResult(op, a.n, b.n)))
      BY <1>1, <1>4, <2>2 DEF Numeric
    <3>2. WholeResult(op, a.n, b.n) \in Int
      BY <1>2, Quotients DEF WholeResult
    <3>3. OfKind(r, "uint64")
      BY <3>1, <3>2, WholeKind, KindFacts
    <3> QED BY <3>3, KindFacts DEF OfKind, Sound
  <2>3. CASE {Class(a), Class(b)} # {"uint"}
    <3>1. r = Num("int64", Wrap("int64", WholeResult(op, AsInt(a), AsInt(b))))
      BY <1>1, <1>4, <2>3 DEF Numeric
    <3>2. PICK x \in Int : x = AsInt(a)
      BY <1>2, WrapInRange, KindFacts DEF AsInt
    <3>3. PICK y \in Int : y = AsInt(b) /\ (op = "/" => y # 0)
      BY <1>2, <2>1, WrapInRange, KindFacts, QuotientsOfSound DEF AsInt
    <3>4. WholeResult(op, x, y) \in Int
      BY <3>3, Quotients DEF WholeResult
    <3>5. OfKind(r, "int64")
      BY <3>1, <3>2, <3>3, <3>4, WholeKind, KindFacts
    <3> QED BY <3>5, KindFacts DEF OfKind, Sound
  <2> QED BY <2>2, <2>3
<1> QED BY <1>3, <1>4

(* What is no number is sound. *)
LEMMA OtherSound ==
  ASSUME NEW v, v.kind \notin Numbers
  PROVE  Sound(v)
BY DEF Sound, OfKind, Numbers

(* The operators of expressions and of assignments, and the kinds of their *)
(* results                                                                 *)
MathOps == {"+", "-", "*", "/"}
AssignOps == {"+=", "-=", "*=", "/="}
ResultKinds == Numbers \cup {"string", "bool", "invalid", "error", "panic"}

(* Texts, truth values and failures are sound. *)
LEMMA NotNumbers ==
  /\ \A s : Str(s).kind = "string" /\ Sound(Str(s))
  /\ \A x : Bool(x).kind = "bool" /\ Sound(Bool(x))
  /\ Invalid.kind = "invalid" /\ Sound(Invalid)
  /\ Error.kind = "error" /\ Sound(Error)
  /\ Panic.kind = "panic" /\ Sound(Panic)
<1>1. /\ \A s : Str(s).kind = "string"
      /\ \A x : Bool(x).kind = "bool"
      /\ Invalid.kind = "invalid" /\ Error.kind = "error" /\ Panic.kind = "panic"
  BY DEF Str, Bool, Invalid, Error, Panic, Num, Value
<1> QED BY <1>1, OtherSound, KindFacts

(* Arithmetic on sound values has a sound result, or fails. *)
LEMMA ArithmeticSound ==
  ASSUME NEW op \in MathOps \cup AssignOps, NEW a, NEW b, Sound(a), Sound(b)
  PROVE  Sound(Arithmetic(op, a, b)) /\ Arithmetic(op, a, b).kind \in ResultKinds
<1> DEFINE Good(v) == Sound(v) /\ v.kind \in ResultKinds
<1>0. Good(Error) /\ Good(Panic) /\ \A s : Good(Str(s))
  BY NotNumbers DEF ResultKinds
<1>1. \A p \in {"+", "-", "*"} : Good(Numeric(p, a, b))
  BY NumericSound DEF ResultKinds
<1>2. Good(Add(a, b)) /\ Good(Sub(a, b)) /\ Good(Mul(a, b))
  BY <1>0, <1>1 DEF Add, Sub, Mul
<1>3. Good(Div(a, b))
  <2>1. CASE b.kind = "interface" \/ (b.kind \in Numbers /\ b.n = 0)
    BY <1>0, <2>1 DEF Div
  <2>2. CASE ~(b.kind = "interface" \/ (b.kind \in Numbers /\ b.n = 0))
    <3>1. Div(a, b) = Divided(a, b)
      BY <2>2 DEF Div
    <3>2. CASE b.kind \in Numbers
      <4>1. b.n # 0
        BY <2>2, <3>2
      <4>2. Divided(a, b) = Numeric("/", a, b)
        BY <4>1 DEF Divided
      <4> QED BY <3>1, <3>2, <4>1, <4>2, NumericSound DEF ResultKinds
    <3>3. CASE b.kind \notin Numbers
      <4>1. Class(b) = "other"
        BY <2>2, <3>3, KindFacts DEF Class, Whole
      <4>2. Numeric("/", a, b) = Error
        BY <4>1 DEF Numeric
      <4>3. Divided(a, b) = Error
        BY <4>1, <4>2 DEF Divided
      <4> QED BY <1>0, <3>1, <4>3
    <3> QED BY <3>2, <3>3
  <2> QED BY <2>1, <2>2
<1>4. Arithmetic(op, a, b) \in {Add(a, b), Sub(a, b), Mul(a, b), Div(a, b)}
  BY DEF Arithmetic, MathOps, AssignOps
<1> QED BY <1>2, <1>3, <1>4

(* So have comparisons and connectives. *)
LEMMA OthersSound ==
  ASSUME NEW a, NEW b
  PROVE  /\ \A op : Compare(op, a, b).kind \in ResultKinds /\ Sound(Compare(op, a, b))
         /\ \A op : Logical(op, a, b).kind \in ResultKinds /\ Sound(Logical(op, a, b))
         /\ Not(a).kind \in ResultKinds /\ Sound(Not(a))
<1> DEFINE Good(v) == v.kind \in ResultKinds /\ Sound(v)
<1>1. Good(Error) /\ Good(Panic) /\ \A x : Good(Bool(x))
  BY NotNumbers DEF ResultKinds
<1>2. \A op : Good(Compare(op, a, b))
  <2> HIDE DEF Good
  <2> QED BY <1>1 DEF Compare
<1>3. \A op : Good(Logical(op, a, b))
  <2> HIDE DEF Good
  <2> QED BY <1>1 DEF Logical
<1>4. Good(Not(a))
  <2> HIDE DEF Good
  <2> QED BY <1>1 DEF Not
<1> QED BY <1>2, <1>3, <1>4

-----------------------------------------------------------------------------
(* reflect.Values: what reading yields *)

(* What a node may yield, where the data are m: a value of its own, an     *)
(* object, or a window onto an element                                     *)
IsOwn(r) == r = Own(r.v) /\ r.v.kind \notin Containers /\ Sound(r.v)
IsObject(r) == \E p \in DOMAIN Objects : r = Object(p)
Sequential(p) == Objects[p].kind \in {"slice", "array"}
IsWindow(m, r) ==
  \E p \in Cells : \E i \in DOMAIN m[p] :
    Sequential(p) /\ r = [v |-> Num(Objects[p].elem, 0), at |-> <<p, i>>]
Ref(m, r) == IsOwn(r) \/ IsObject(r) \/ IsWindow(m, r)

(* Data of their declared types, and local variables that hold what a node *)
(* may yield                                                               *)
MemOK(m) == DOMAIN m = Cells /\ \A c \in Cells : Holding(m, c)
DataOK == MemOK(mem) /\ \A x \in DOMAIN Vars : Ref(mem, Vars[x])

(* The kinds of scalars are none of containers. *)
LEMMA Kinds ==
  /\ \A k \in Scalars : k \notin Containers /\ k \notin {"ptr", "struct", "func", "map", "slice", "array", "error", "panic", "invalid"}
  /\ \A k \in ResultKinds : k \notin Containers
  /\ Numbers \subseteq Scalars
BY DEF Scalars, Containers, ResultKinds, Numbers, Signed, Unsigned, Floats

(* An object is of its declared kind, and holds a value unless it is a     *)
(* pointer, a struct or a function.                                        *)
LEMMA ObjectFacts ==
  ASSUME NEW p \in DOMAIN Objects
  PROVE  /\ Objects[p].kind \in Scalars \cup Containers
         /\ Object(p).v.kind = Objects[p].kind /\ Object(p).at = <<p>> /\ Of(Object(p)) = Objects[p]
         /\ Kind(Object(p)) = Objects[p].kind
         /\ Objects[p].kind \notin {"error", "panic", "invalid"}
         /\ ~Failed(Object(p).v) /\ Object(p).v # Invalid
         /\ p \in Cells <=> Objects[p].kind \notin {"ptr", "struct", "func"}
         /\ Objects[p].kind \in {"map", "slice", "array"} => Objects[p].elem \in Scalars
         /\ Objects[p].kind = "map" => Objects[p].key \in Scalars
<1>1. /\ Objects[p].kind \in Scalars \cup Containers
      /\ p \in Cells <=> Objects[p].kind \notin {"ptr", "struct", "func"}
      /\ Objects[p].kind \in {"map", "slice", "array"} => Objects[p].elem \in Scalars
      /\ Objects[p].kind = "map" => Objects[p].key \in Scalars
  BY Declared
<1>2. Object(p).v.kind = Objects[p].kind /\ Object(p).at = <<p>> /\ Of(Object(p)) = Objects[p]
  BY DEF Object, Num, Value, Of
<1>3. Objects[p].kind \notin {"error", "panic", "invalid"}
  BY <1>1, Kinds DEF Containers
<1> QED BY <1>1, <1>2, <1>3, NotNumbers DEF Kind, Failed

(* The cells are objects. *)
LEMMA CellsAreObjects == Cells \subseteq DOMAIN Objects
BY Declared

(* A sound value of its own is what a node may yield. *)
LEMMA OwnRef ==
  ASSUME NEW v, Sound(v), v.kind \notin Containers, NEW m
  PROVE  Ref(m, Own(v)) /\ IsOwn(Own(v)) /\ Own(v).v = v /\ Own(v).at = <<>>
BY DEF Ref, IsOwn, Own

(* So are failures. *)
LEMMA FailureRefs ==
  ASSUME NEW m
  PROVE  Ref(m, Own(Error)) /\ Ref(m, Own(Panic)) /\ Ref(m, Own(Invalid))
<1>1. {"error", "panic", "invalid"} \cap Containers = {}
  BY DEF Containers
<1> QED BY <1>1, NotNumbers, OwnRef

(* So are objects. *)
LEMMA ObjectRef ==
  ASSUME NEW p \in DOMAIN Objects, NEW m
  PROVE  Ref(m, Object(p))
BY DEF Ref, IsObject

(* The zero value of every kind is sound. *)
LEMMA Zeros ==
  ASSUME NEW k \in Scalars
  PROVE  Sound(Num(k, 0)) /\ Num(k, 0).kind = k
<1>1. Num(k, 0).kind = k /\ Num(k, 0).n = 0
  BY Results
<1>2. CASE k \notin Numbers
  BY <1>1, <1>2, OtherSound
<1>3. CASE k \in Whole
  <2>1. k \notin Floats
    BY <1>3, KindFacts
  <2>2. Fits(k, 0)
    <3>1. Size[k] \in Nat \ {0} /\ Size[k] \div 2 \in Nat /\ 2 * (Size[k] \div 2) = Size[k]
      BY <1>3, Sizes DEF Whole
    <3> QED BY <3>1 DEF Fits
  <2> QED BY <1>1, <2>1, <2>2 DEF Sound, OfKind
<1>4. CASE k \in Floats
  <2>1. 0 = Round(k, 0, 1)
    <3>1. PICK t \in Steps : t = 1
      BY StepFacts
    <3>2. Round(k, t * 0, 1) = t * 0
      <4>1. Mantissa[k] \in Nat
        BY <1>4, ValueConstants
      <4>2. -Mantissa[k] <= 0 /\ 0 <= Mantissa[k]
        BY <4>1
      <4> QED BY <1>4, <4>2, Representable
    <3>3. t * 0 = 0
      BY <3>1
    <3> QED BY <3>2, <3>3
  <2> QED BY <1>1, <1>4, <2>1, KindFacts DEF Sound, OfKind, Whole
<1> QED BY <1>2, <1>3, <1>4, KindFacts

(* A window onto an element has the declared kind of the elements. *)
LEMMA Windows ==
  ASSUME NEW m, NEW p \in Cells, NEW i \in DOMAIN m[p], Sequential(p), MemOK(m),
         NEW r, r = [v |-> Num(Objects[p].elem, 0), at |-> <<p, i>>]
  PROVE  /\ Kind(r) = Objects[p].elem /\ Kind(r) \in Scalars /\ Kind(r) \notin Containers
         /\ Sound(r.v) /\ r.at = <<p, i>> /\ r.at # <<>>
         /\ Sound(m[p][i]) /\ m[p][i].kind = Objects[p].elem
<1>1. Objects[p].elem \in Scalars /\ Objects[p].kind \in Containers
  BY ObjectFacts, CellsAreObjects DEF Sequential, Containers
<1>2. OfKind(m[p][i], Objects[p].elem)
  BY <1>1 DEF MemOK, Holding
<1>3. Sound(m[p][i]) /\ m[p][i].kind = Objects[p].elem
  BY <1>2 DEF OfKind, Sound
<1> QED BY <1>1, <1>3, Zeros, Kinds DEF Kind

(* What is read through a window or of an object is sound and of the kind  *)
(* it is declared to be.                                                   *)
LEMMA LoadSound ==
  ASSUME MemOK(mem), NEW r, Ref(mem, r)
  PROVE  Sound(Load(r)) /\ Load(r).kind = Kind(r)
<1>1. CASE IsOwn(r)
  BY <1>1 DEF IsOwn, Own, Load, Kind
<1>2. CASE IsObject(r)
  <2>1. PICK p \in DOMAIN Objects : r = Object(p)
    BY <1>2 DEF IsObject
  <2>2. Kind(r) = Objects[p].kind /\ r.at = <<p>> /\ r.at # <<>>
    BY <2>1, ObjectFacts
  <2>3. CASE Kind(r) \in Containers
    <3>1. Load(r) = r.v
      BY <2>3 DEF Load
    <3>2. r.v.kind \notin Numbers
      BY <2>3, Kinds DEF Kind
    <3> QED BY <3>1, <3>2, OtherSound DEF Kind
  <2>4. CASE Kind(r) \notin Containers
    <3>1. p \in Cells
      BY <2>2, <2>4, ObjectFacts DEF Containers
    <3>2. Load(r) = mem[p]
      BY <2>2, <2>4 DEF Load, Content
    <3>3. OfKind(mem[p], Objects[p].kind)
      BY <2>2, <2>4, <3>1 DEF MemOK, Holding
    <3> QED BY <2>2, <3>2, <3>3 DEF OfKind, Sound
  <2> QED BY <2>3, <2>4
<1>3. CASE IsWindow(mem, r)
  <2>1. PICK p \in Cells : \E i \in DOMAIN mem[p] :
          Sequential(p) /\ r = [v |-> Num(Objects[p].elem, 0), at |-> <<p, i>>]
    BY <1>3 DEF IsWindow
  <2>2. PICK i \in DOMAIN mem[p] :
          Sequential(p) /\ r = [v |-> Num(Objects[p].elem, 0), at |-> <<p, i>>]
    BY <2>1
  <2>3. /\ Kind(r) = Objects[p].elem /\ Kind(r) \notin Containers /\ r.at = <<p, i>> /\ r.at # <<>>
        /\ Sound(mem[p][i]) /\ mem[p][i].kind = Objects[p].elem
    BY <2>2, Windows
  <2>4. Load(r) = mem[p][i]
    BY <2>3 DEF Load, Content
  <2> QED BY <2>3, <2>4
<1> QED BY <1>1, <1>2, <1>3 DEF Ref

(* A pointer, a struct, a container on its own is an object. *)
LEMMA ContainersAreObjects ==
  ASSUME MemOK(mem), NEW r, Ref(mem, r), Kind(r) \in Containers
  PROVE  \E p \in DOMAIN Objects : r = Object(p) /\ Objects[p].kind = Kind(r) /\ Of(r) = Objects[p] /\ r.at[1] = p
<1>1. ~IsOwn(r)
  BY DEF IsOwn, Kind
<1>2. ~IsWindow(mem, r)
  BY Windows DEF IsWindow
<1>3. IsObject(r)
  BY <1>1, <1>2 DEF Ref
<1> QED BY <1>3, ObjectFacts DEF IsObject

(* A pointer leads to an object. *)
LEMMA DerefRef ==
  ASSUME MemOK(mem), NEW r, Ref(mem, r)
  PROVE  Ref(mem, Deref(r)) /\ (Kind(r) # "ptr" => Deref(r) = r)
<1>1. CASE Kind(r) = "ptr"
  <2>1. PICK p \in DOMAIN Objects : Objects[p].kind = "ptr" /\ Of(r) = Objects[p]
    BY <1>1, ContainersAreObjects DEF Containers
  <2>2. Objects[p].elem \in DOMAIN Objects
    BY <2>1, Declared DEF LeadsTo
  <2> QED BY <1>1, <2>1, <2>2, ObjectRef DEF Deref
<1> QED BY <1>1 DEF Deref

(* A field is an object, if there is one. *)
LEMMA FieldByNameRef ==
  ASSUME MemOK(mem), NEW s, Ref(mem, s), NEW f
  PROVE  /\ Ref(mem, FieldByName(s, f))
         /\ Kind(s) = "struct" =>
              FieldByName(s, f) = Own(Invalid) \/ \E p \in DOMAIN Objects : FieldByName(s, f) = Object(p)
<1>1. CASE Kind(s) # "struct"
  BY <1>1, FailureRefs DEF FieldByName
<1>2. CASE Kind(s) = "struct" /\ f \notin DOMAIN Of(s).fields
  BY <1>2, FailureRefs DEF FieldByName
<1>3. CASE Kind(s) = "struct" /\ f \in DOMAIN Of(s).fields
  <2>1. PICK p \in DOMAIN Objects : Objects[p].kind = "struct" /\ Of(s) = Objects[p]
    BY <1>3, ContainersAreObjects DEF Containers
  <2>2. Objects[p].fields[f] \in DOMAIN Objects
    BY <1>3, <2>1, Declared DEF LeadsTo, Range
  <2> QED BY <1>3, <2>1, <2>2, ObjectRef DEF FieldByName
<1> QED BY <1>1, <1>2, <1>3

(* GetStructAttributeValue yields what a node may yield. *)
LEMMA AttributeRef ==
  ASSUME MemOK(mem), NEW r, Ref(mem, r), NEW f
  PROVE  Ref(mem, GetStructAttributeValue(r, f))
BY DerefRef, FieldByNameRef DEF GetStructAttributeValue

(* So does the first part of a name. *)
LEMMA RootRef ==
  ASSUME DataOK, NEW a
  PROVE  Ref(mem, Root(a))
<1>1. CASE a \in DOMAIN Base
  BY <1>1, Declared, ObjectRef DEF Root
<1>2. CASE a \notin DOMAIN Base
  BY <1>2, FailureRefs DEF Root, DataOK
<1> QED BY <1>1, <1>2

(* So does GetValue. *)
LEMMA GetValueRef ==
  ASSUME DataOK, NEW name
  PROVE  Ref(mem, GetValue(name))
<1>1. CASE Len(name) = 1
  BY <1>1, RootRef DEF GetValue
<1>2. CASE Len(name) = 2
  BY <1>2, RootRef, AttributeRef DEF GetValue, DataOK
<1>3. CASE Len(name) = 3
  <2>1. GetValue(name) = GetStructAttributeValue(GetStructAttributeValue(Root(name[1]), name[2]), name[3])
    BY <1>3 DEF GetValue
  <2> QED BY <2>1, RootRef, AttributeRef DEF DataOK
<1>4. CASE Len(name) \notin {1, 2, 3}
  BY <1>4, FailureRefs DEF GetValue
<1> QED BY <1>1, <1>2, <1>3, <1>4

(* The key of an element is sound. *)
LEMMA GivenKeySound ==
  ASSUME DataOK, NEW key, Legal(key)
  PROVE  Sound(GivenKey(key))
<1>1. CASE key.form = "var"
  <2>1. GivenKey(key) = Load(GetValue(key.name))
    BY <1>1 DEF GivenKey
  <2> QED BY <2>1, GetValueRef, LoadSound DEF DataOK
<1>2. CASE key.form = "str"
  <2>1. GivenKey(key) \in {Num("int64", 0), Str(key.s)}
    BY <1>2 DEF GivenKey
  <2>2. "int64" \in Scalars
    BY DEF Scalars, Numbers, Signed
  <2> QED BY <2>1, <2>2, Zeros, NotNumbers
<1>3. CASE key.form = "int"
  <2>1. OfKind(Num("int64", key.n), "int64") /\ Num("int64", key.n).kind = "int64"
    BY <1>3, Results DEF Legal
  <2> QED BY <1>3, <2>1 DEF GivenKey, Sound
<1> QED BY <1>1, <1>2, <1>3 DEF Legal

(* A conversion of numbers has an outcome. *)
LEMMA NumbersOfSome ==
  ASSUME NEW k \in Numbers, NEW v, Sound(v), v.kind \in Numbers
  PROVE  NumbersOf(k, v) # {}
<1>1. CASE k \in Floats
  BY <1>1 DEF NumbersOf
<1>2. CASE k \notin Floats
  <2>1. \A j \in Whole : Truncated(j, v.n) # {}
    <3> TAKE j \in Whole
    <3>1. PICK s \in Nat \ {0} : s = Size[j]
      BY Sizes DEF Whole
    <3>2. PICK h \in Nat : h = Size[j] \div 2 /\ 2 * h = s
      BY <3>1, Sizes DEF Whole
    <3>3. 0 \in NumbersFitting(j)
      BY <3>1, <3>2 DEF NumbersFitting
    <3> QED BY <3>3 DEF Truncated
  <2>2. "int64" \in Whole /\ "uint64" \in Whole
    BY KindFacts
  <2> QED BY <1>2, <2>1, <2>2 DEF NumbersOf, Ints
<1> QED BY <1>1, <1>2

(* Storing in an element has an outcome. *)
LEMMA WantedSome ==
  ASSUME NEW k, NEW v, Sound(v)
  PROVE  Wanted(v, k) # {}
<1>1. GetWantedValue(v, k) # {}
  <2>1. CASE v.kind = k \/ k \notin Numbers \ {"int64", "uint64", "float64"}
    BY <2>1 DEF GetWantedValue
  <2>2. CASE ~(v.kind = k \/ k \notin Numbers \ {"int64", "uint64", "float64"})
    <3>1. CASE v.kind \in Sort(k)
      BY <2>2, <3>1, SortFacts, NumbersOfSome DEF GetWantedValue
    <3>2. CASE v.kind \notin Sort(k)
      BY <2>2, <3>2 DEF GetWantedValue
    <3> QED BY <3>1, <3>2
  <2> QED BY <2>1, <2>2
<1> QED BY <1>1 DEF Wanted

(* An entry is found by a key of the declared kind, or not at all. *)
LEMMA MapKeyFacts ==
  ASSUME NEW p \in Cells, Objects[p].kind = "map", NEW k, Sound(k), NEW e, e = MapKey(p, k)
  PROVE  \/ Failed(e.v) /\ e = Own(e.v)
         \/ \E w : OfKind(w, Objects[p].key) /\ e.at = <<p, w>> /\ e.v = Num(Objects[p].elem, 0)
<1> DEFINE wanted == Wanted(k, Objects[p].key)
<1>1. CASE Failed(k)
  BY <1>1 DEF MapKey, EntryOf, Own
<1>2. CASE ~Failed(k) /\ Panic \in wanted
  <2>1. e = Own(Panic)
    BY <1>2 DEF MapKey, EntryOf
  <2> QED BY <2>1, NotNumbers DEF Own, Failed
<1>3. CASE ~Failed(k) /\ Panic \notin wanted
  <2>1. PICK w : w = CHOOSE x \in wanted : TRUE
    OBVIOUS
  <2>2. w \in wanted
    BY <2>1, WantedSome
  <2>3. OfKind(w, Objects[p].key)
    BY <1>3, <2>2, WantedTyped
  <2>4. e = [v |-> Num(Objects[p].elem, 0), at |-> <<p, w>>]
    BY <1>3, <2>1 DEF MapKey, EntryOf
  <2> QED BY <2>3, <2>4
<1> QED BY <1>1, <1>2, <1>3

(* An index yields a window onto an element that is there, or fails. *)
LEMMA IndexFacts ==
  ASSUME NEW p \in Cells, Sequential(p), NEW k, Sound(k), NEW literal, MemOK(mem), NEW e, e = Index(p, k, literal)
  PROVE  /\ Ref(mem, e)
         /\ \/ Failed(e.v) /\ e = Own(e.v)
            \/ /\ ~Failed(e.v)
               /\ \E i \in DOMAIN mem[p] : e = [v |-> Num(Objects[p].elem, 0), at |-> <<p, i>>]
<1>0. /\ Failed(Error) /\ Failed(Panic) /\ Own(Error).v = Error /\ Own(Panic).v = Panic
      /\ "error" \notin Containers /\ "panic" \notin Containers
  BY NotNumbers DEF Own, Failed, Containers
<1>1. CASE Failed(k)
  <2>1. e = Own(k) /\ e.v = k
    BY <1>1 DEF Index, Own
  <2> QED BY <1>0, <1>1, <2>1, OwnRef DEF Failed
<1>2. CASE e \in {Own(Error), Own(Panic)}
  BY <1>0, <1>2, FailureRefs
<1>3. CASE ~Failed(k) /\ e \notin {Own(Error), Own(Panic)}
  <2>1. k.n \in DOMAIN mem[p] /\ e = [v |-> Num(Objects[p].elem, 0), at |-> <<p, k.n>>]
    BY <1>3 DEF Index
  <2>2. Ref(mem, e)
    BY <2>1 DEF Ref, IsWindow
  <2>3. Kind(e) \in Scalars
    BY <2>1, Windows
  <2> QED BY <2>1, <2>2, <2>3, Kinds DEF Failed, Kind
<1> QED BY <1>1, <1>2, <1>3

(* Reading an element yields what a node may yield. *)
LEMMA ElementOfRef ==
  ASSUME DataOK, NEW c, Ref(mem, c), NEW key, Legal(key)
  PROVE  Ref(mem, ElementOf(c, key))
<1> DEFINE k == GivenKey(key)
<1>0. MemOK(mem) /\ Sound(k)
  BY GivenKeySound DEF DataOK
<1> HIDE DEF k
<1>1. CASE Failed(c.v)
  BY <1>1 DEF ElementOf, Failed, Kind
<1>2. CASE ~Failed(c.v) /\ Kind(c) = "map"
  <2>1. PICK p \in DOMAIN Objects : Objects[p].kind = "map" /\ c.at[1] = p
    BY <1>0, <1>2, ContainersAreObjects DEF Containers
  <2>2. p \in Cells /\ Objects[p].elem \in Scalars
    BY <2>1, ObjectFacts
  <2>3. PICK e : e = MapKey(p, k)
    OBVIOUS
  <2>4. ElementOf(c, key) = EntryCopied(e)
    BY <1>2, <2>1, <2>3 DEF ElementOf, k
  <2>5. CASE Failed(e.v)
    <3>1. EntryCopied(e) = Own(e.v)
      BY <2>5 DEF EntryCopied
    <3>2. e.v.kind \notin Containers /\ e.v.kind \notin Numbers
      BY <2>5, KindFacts DEF Failed, Containers
    <3> QED BY <2>4, <3>1, <3>2, OtherSound, OwnRef
  <2>6. CASE ~Failed(e.v)
    <3>1. PICK w : e.at = <<p, w>> /\ e.v = Num(Objects[p].elem, 0)
      BY <1>0, <2>1, <2>2, <2>3, <2>6, MapKeyFacts
    <3>2. CASE w \in DOMAIN mem[p]
      <4>1. EntryCopied(e) = Own(mem[p][w])
        BY <2>6, <3>1, <3>2 DEF EntryCopied, Content
      <4>2. OfKind(mem[p][w], Objects[p].elem)
        BY <1>0, <2>1, <2>2, <3>2 DEF MemOK, Holding, Containers
      <4> QED BY <2>2, <2>4, <4>1, <4>2, OwnRef, Kinds DEF OfKind, Sound
    <3>3. CASE w \notin DOMAIN mem[p]
      <4>1. EntryCopied(e) = Own(Num(Objects[p].elem, 0))
        BY <3>1, <3>3 DEF EntryCopied
      <4> QED BY <2>2, <2>4, <4>1, Zeros, OwnRef, Kinds
    <3> QED BY <3>2, <3>3
  <2> QED BY <2>5, <2>6
<1>3. CASE ~Failed(c.v) /\ Kind(c) \in {"slice", "array"}
  <2>1. PICK p \in DOMAIN Objects : Objects[p].kind = Kind(c) /\ c.at[1] = p
    BY <1>0, <1>3, ContainersAreObjects DEF Containers
  <2>2. p \in Cells /\ Sequential(p)
    BY <1>3, <2>1, ObjectFacts DEF Sequential
  <2>3. ElementOf(c, key) = Index(p, k, Literal(key))
    BY <1>3, <2>1 DEF ElementOf, k
  <2> QED BY <1>0, <2>2, <2>3, IndexFacts
<1>4. CASE ~Failed(c.v) /\ Kind(c) \notin {"map", "slice", "array"}
  <2>1. ElementOf(c, key) = Own(Error)
    BY <1>4 DEF ElementOf
  <2> QED BY <2>1, FailureRefs
<1> QED BY <1>1, <1>2, <1>3, <1>4

(* So does reading the target of an assignment. *)
LEMMA ReadRef ==
  ASSUME DataOK, NEW t, t.key = NoKey \/ Legal(t.key)
  PROVE  Ref(mem, Read(t))
<1>1. CASE t.key = NoKey
  BY <1>1, GetValueRef DEF Read
<1>2. CASE t.key # NoKey
  <2>1. Ref(mem, Container(t.name))
    BY GetValueRef, DerefRef DEF Container, DataOK
  <2> QED BY <1>2, <2>1, ElementOfRef DEF Read, MapVarEvaluate
<1> QED BY <1>1, <1>2

-----------------------------------------------------------------------------
(* Stores keep data typed *)

(* What is injected by value: a copy, to which nothing else leads *)
Copied(p) == Objects[p].kind \in Scalars /\ \E a \in DOMAIN Base : Base[a] = p

(* From m to n, slices and arrays keep their lengths and what is injected  *)
(* by value keeps its value.                                               *)
Shaped(m, n) ==
  \A p \in Cells : (Sequential(p) => DOMAIN n[p] = DOMAIN m[p]) /\ (Copied(p) => n[p] = m[p])

(* Stores leave no window dangling. *)
LEMMA RefKept ==
  ASSUME NEW m, NEW n, Shaped(m, n), NEW r, Ref(m, r)
  PROVE  Ref(n, r)
BY DEF Shaped, Ref, IsWindow

(* A store fails, or keeps data typed and windows whole. *)
OutcomeOK(o) ==
  MemOK(o.mem) /\ Shaped(mem, o.mem) /\ \A x \in DOMAIN o.Vars : Ref(mem, o.Vars[x])

(* A failed store has changed nothing. *)
LEMMA FailsOK ==
  ASSUME DataOK, NEW v, NEW o \in Fails(v)
  PROVE  OutcomeOK(o)
BY DEF Fails, OutcomeOK, DataOK, Shaped

(* A store of what did not fail is sound if what it changes is. *)
LEMMA OutcomeIsOK ==
  ASSUME DataOK, NEW w, NEW m, ~Failed(w) => MemOK(m) /\ Shaped(mem, m)
  PROVE  OutcomeOK(Outcome(w, m))
BY DEF Outcome, Stored, OutcomeOK, DataOK, Shaped

(* A cell may be given a value of its kind. *)
LEMMA CellWritten ==
  ASSUME MemOK(mem), NEW p \in Cells, Objects[p].kind \notin Containers, ~Copied(p), NEW w, OfKind(w, Objects[p].kind)
  PROVE  MemOK([mem EXCEPT ![p] = w]) /\ Shaped(mem, [mem EXCEPT ![p] = w])
<1> DEFINE m == [mem EXCEPT ![p] = w]
<1>1. DOMAIN m = Cells /\ m[p] = w /\ \A c \in Cells : c # p => m[c] = mem[c]
  BY DEF MemOK
<1>2. \A c \in Cells : c # p => Holding(m, c)
  BY <1>1 DEF MemOK, Holding
<1>3. Holding(m, p)
  BY <1>1 DEF Holding
<1>4. ~Sequential(p)
  BY DEF Sequential, Containers
<1> HIDE DEF m
<1>5. MemOK(m)
  BY <1>1, <1>2, <1>3 DEF MemOK
<1>6. Shaped(mem, m)
  BY <1>1, <1>4 DEF Shaped
<1> QED BY <1>5, <1>6 DEF m

(* An element may be given a value of its kind. *)
LEMMA ElementWritten ==
  ASSUME MemOK(mem), NEW p \in Cells, Sequential(p), NEW i \in DOMAIN mem[p], NEW w, OfKind(w, Objects[p].elem)
  PROVE  MemOK([mem EXCEPT ![p][i] = w]) /\ Shaped(mem, [mem EXCEPT ![p][i] = w])
<1> DEFINE m == [mem EXCEPT ![p][i] = w]
<1>1. /\ DOMAIN m = Cells /\ DOMAIN m[p] = DOMAIN mem[p] /\ \A c \in Cells : c # p => m[c] = mem[c]
      /\ m[p][i] = w /\ \A j \in DOMAIN mem[p] : j # i => m[p][j] = mem[p][j]
  BY DEF MemOK
<1>2. \A c \in Cells : c # p => Holding(m, c)
  BY <1>1 DEF MemOK, Holding
<1>3. Objects[p].kind \in Containers /\ Objects[p].kind # "map"
  BY DEF Sequential, Containers
<1>4. \A j \in DOMAIN mem[p] : OfKind(mem[p][j], Objects[p].elem)
  BY <1>3 DEF MemOK, Holding
<1> HIDE DEF m
<1>5. Holding(m, p)
  BY <1>1, <1>3, <1>4 DEF Holding
<1>6. MemOK(m)
  BY <1>1, <1>2, <1>5 DEF MemOK
<1>7. Shaped(mem, m)
  BY <1>1, <1>3, Kinds DEF Shaped, Copied
<1> QED BY <1>6, <1>7 DEF m

(* A map may be given entries of its kinds. *)
LEMMA MapWritten ==
  ASSUME MemOK(mem), NEW p \in Cells, Objects[p].kind = "map", NEW e,
         \A i \in DOMAIN e : OfKind(e[i], Objects[p].elem) /\ OfKind(i, Objects[p].key)
  PROVE  MemOK([mem EXCEPT ![p] = e]) /\ Shaped(mem, [mem EXCEPT ![p] = e])
<1> DEFINE m == [mem EXCEPT ![p] = e]
<1>1. DOMAIN m = Cells /\ m[p] = e /\ \A c \in Cells : c # p => m[c] = mem[c]
  BY DEF MemOK
<1>2. \A c \in Cells : c # p => Holding(m, c)
  BY <1>1 DEF MemOK, Holding
<1>3. Objects[p].kind \in Containers /\ ~Sequential(p)
  BY DEF Sequential, Containers
<1>4. Holding(m, p)
  BY <1>1, <1>3 DEF Holding
<1> HIDE DEF m
<1>5. MemOK(m)
  BY <1>1, <1>2, <1>4 DEF MemOK
<1>6. Shaped(mem, m)
  BY <1>1, <1>3, Kinds DEF Shaped, Copied
<1> QED BY <1>5, <1>6 DEF m

(* Storing converted values in a cell is sound. *)
LEMMA IntoCell ==
  ASSUME DataOK, NEW p \in DOMAIN Objects, NEW outcomes,
         ~Copied(p), \A w \in outcomes : Failed(w) \/ (Objects[p].kind \notin Containers /\ OfKind(w, Objects[p].kind)),
         NEW o \in Into(<<p>>, outcomes)
  PROVE  OutcomeOK(o)
<1>1. PICK w \in outcomes : o = Outcome(w, [mem EXCEPT ![p] = w])
  BY DEF Into
<1>2. ASSUME ~Failed(w) PROVE p \in Cells /\ Objects[p].kind \notin Containers /\ OfKind(w, Objects[p].kind)
  BY <1>2, ObjectFacts DEF Containers
<1>3. MemOK(mem)
  BY DEF DataOK
<1>4. ~Failed(w) => MemOK([mem EXCEPT ![p] = w]) /\ Shaped(mem, [mem EXCEPT ![p] = w])
  BY <1>2, <1>3, CellWritten
<1> QED BY <1>1, <1>4, OutcomeIsOK

(* Storing converted values in an element is sound. *)
LEMMA IntoElement ==
  ASSUME DataOK, NEW p \in Cells, Sequential(p), NEW i \in DOMAIN mem[p], NEW outcomes,
         \A w \in outcomes : Failed(w) \/ OfKind(w, Objects[p].elem),
         NEW o \in Into(<<p, i>>, outcomes)
  PROVE  OutcomeOK(o)
<1>1. PICK w \in outcomes : o = Outcome(w, [mem EXCEPT ![p][i] = w])
  BY DEF Into
<1>2. MemOK(mem)
  BY DEF DataOK
<1>3. ~Failed(w) => MemOK([mem EXCEPT ![p][i] = w]) /\ Shaped(mem, [mem EXCEPT ![p][i] = w])
  BY <1>2, ElementWritten
<1> QED BY <1>1, <1>3, OutcomeIsOK

(* Nothing leads to what is injected by value. *)
LEMMA NotCopied ==
  ASSUME NEW p \in DOMAIN Objects, NEW x \in LeadsTo(p)
  PROVE  ~Copied(x)
BY Declared DEF Copied

(* Errors and panics are failures. *)
LEMMA Failing == \A w : w \in Failures \/ w = Panic \/ w = Error => Failed(w)
BY NotNumbers DEF Failures, Failed

(* A container takes no field's value. *)
LEMMA AttributeOfContainer ==
  ASSUME NEW k \in Containers, NEW v, NEW w \in SetAttributeValue(k, v)
  PROVE  Failed(w)
<1>1. k \notin {"string", "interface", "bool"} /\ k \notin Numbers
  BY DEF Containers, Numbers, Signed, Unsigned, Floats
<1>2. ~({k, v.kind} \subseteq Numbers)
  BY <1>1
<1>3. w \in {Panic, Error}
  BY <1>1, <1>2 DEF SetAttributeValue
<1> QED BY <1>3, Failing

(* SetSingleValue stores no value in a container. *)
LEMMA SingleOfContainer ==
  ASSUME NEW k \in Containers, NEW v, v.kind \notin Containers, NEW w \in SetSingleValue(k, v)
  PROVE  Failed(w)
<1>1. k \notin Numbers /\ v.kind # k
  BY DEF Containers, Numbers, Signed, Unsigned, Floats
<1>2. w = Error
  BY <1>1 DEF SetSingleValue
<1> QED BY <1>2, Failing

(* The field a.b or a.b.c stands for, when what it is a field of is there *)
LEMMA Names ==
  ASSUME NEW name \in Seq(STRING) \ {<<>>}, Len(name) \in {2, 3}
  PROVE  GetValue(name) = GetStructAttributeValue(GetValue(Front(name)), name[Len(name)])
<1>1. CASE Len(name) = 2
  <2>1. Len(Front(name)) = 1 /\ Front(name)[1] = name[1]
    BY <1>1 DEF Front
  <2> QED BY <1>1, <2>1 DEF GetValue
<1>2. CASE Len(name) = 3
  <2>1. Len(Front(name)) = 2 /\ Front(name)[1] = name[1] /\ Front(name)[2] = name[2]
    BY <1>2 DEF Front
  <2> QED BY <1>2, <2>1 DEF GetValue
<1> QED BY <1>1, <1>2

(* SetAttributeValue of a field keeps data typed. *)
LEMMA SetFieldOK ==
  ASSUME DataOK, NEW obj, Ref(mem, obj), NEW f, NEW v, Sound(v),
         NEW o \in SetField(obj, GetStructAttributeValue(obj, f), v)
  PROVE  OutcomeOK(o)
<1> DEFINE field == GetStructAttributeValue(obj, f)
<1>1. CASE o \in Fails(Panic) \cup Fails(obj.v) \cup Fails(Error)
  BY <1>1, FailsOK
<1>2. CASE o \notin Fails(Panic) \cup Fails(obj.v) \cup Fails(Error)
  <2>1. ~Failed(obj.v) /\ Kind(Deref(obj)) = "struct"
    BY <1>2 DEF SetField
  <2>2. o \in Into(field.at, SetAttributeValue(Kind(field), v)) /\ field.v # Invalid
    BY <1>2 DEF SetField
  <2>3. field = FieldByName(Deref(obj), f)
    BY <2>1 DEF GetStructAttributeValue
  <2>4. Ref(mem, Deref(obj))
    BY DerefRef DEF DataOK
  <2>5. PICK p \in DOMAIN Objects : field = Object(p)
    BY <2>1, <2>2, <2>3, <2>4, FieldByNameRef DEF DataOK, Own
  <2>6. field.at = <<p>> /\ Kind(field) = Objects[p].kind /\ Objects[p].kind \in Scalars \cup Containers
    BY <2>5, ObjectFacts
  <2>7. ASSUME NEW w \in SetAttributeValue(Objects[p].kind, v)
        PROVE  Failed(w) \/ (Objects[p].kind \notin Containers /\ OfKind(w, Objects[p].kind))
    BY <2>6, SetAttributeValueTyped, AttributeOfContainer, Failing
  <2>8. o \in Into(<<p>>, SetAttributeValue(Objects[p].kind, v))
    BY <2>2, <2>6
  <2>9. ~Copied(p)
    <3>1. PICK x \in DOMAIN Objects : Objects[x].kind = "struct" /\ Of(Deref(obj)) = Objects[x]
      BY <2>1, <2>4, ContainersAreObjects DEF Containers, DataOK
    <3>2. Own(Invalid) # Object(p)
      BY ObjectFacts DEF Own
    <3>3. f \in DOMAIN Objects[x].fields /\ Object(p) = Object(Objects[x].fields[f])
      BY <2>1, <2>3, <2>5, <3>1, <3>2 DEF FieldByName
    <3>4. p = Objects[x].fields[f]
      BY <3>3 DEF Object
    <3>5. p \in LeadsTo(x)
      BY <3>1, <3>3, <3>4 DEF LeadsTo, Range
    <3> QED BY <3>5, NotCopied
  <2> HIDE DEF field
  <2> QED BY <2>7, <2>8, <2>9, IntoCell
<1> QED BY <1>1, <1>2

(* SetSingleValue through a pointer keeps data typed. *)
LEMMA SetPointerOK ==
  ASSUME DataOK, NEW p, Ref(mem, p), NEW v, Sound(v), v.kind \notin Containers, NEW o \in SetPointer(p, v)
  PROVE  OutcomeOK(o)
<1>1. CASE Kind(p) # "ptr"
  BY <1>1, FailsOK DEF SetPointer
<1>2. CASE Kind(p) = "ptr"
  <2>1. PICK x \in DOMAIN Objects : Objects[x].kind = "ptr" /\ Of(p) = Objects[x]
    BY <1>2, ContainersAreObjects DEF Containers, DataOK
  <2>2. PICK y \in DOMAIN Objects : y = Of(p).elem /\ ~Copied(y)
    <3>1. Objects[x].elem \in LeadsTo(x) /\ LeadsTo(x) \subseteq DOMAIN Objects
      BY <2>1, Declared DEF LeadsTo
    <3> QED BY <2>1, <3>1, NotCopied
  <2>3. o \in Into(<<y>>, SetSingleValue(Objects[y].kind, v))
    BY <1>2, <2>2 DEF SetPointer
  <2>4. ASSUME NEW w \in SetSingleValue(Objects[y].kind, v)
        PROVE  Failed(w) \/ (Objects[y].kind \notin Containers /\ OfKind(w, Objects[y].kind))
    BY SetSingleValueTyped, SingleOfContainer, Failing
  <2> QED BY <2>2, <2>3, <2>4, IntoCell
<1> QED BY <1>1, <1>2

(* SetValue by the length of the name *)
LEMMA SetValueIs ==
  ASSUME NEW name, NEW r
  PROVE  /\ Len(name) > 3 => SetValue(name, r) = Fails(Error)
         /\ Len(name) = 1 /\ name[1] \in DOMAIN Base =>
              SetValue(name, r) = SetPointer(Root(name[1]), Load(Deref(r)))
         /\ Len(name) = 1 /\ name[1] \notin DOMAIN Base =>
              SetValue(name, r) = {Stored(mem, Entered(Vars, name[1], r))}
<1>1. ASSUME Len(name) > 3 PROVE Len(name) \notin {2, 3}
  <2>1. \A n : n > 3 => n # 2 /\ n # 3
    BY Z3
  <2> QED BY <1>1, <2>1, Zenon
<1>2. ASSUME Len(name) = 1 PROVE ~(Len(name) > 3) /\ Len(name) \notin {2, 3}
  <2>1. ~(1 > 3) /\ 1 # 2 /\ 1 # 3
    OBVIOUS
  <2> QED BY <1>2, <2>1, Zenon
<1>3. ASSUME Len(name) > 3 PROVE SetValue(name, r) = Fails(Error)
  BY <1>1, <1>3, Zenon DEF SetValue
<1>4. ASSUME Len(name) = 1, name[1] \in DOMAIN Base
      PROVE  SetValue(name, r) = SetPointer(Root(name[1]), Load(Deref(r)))
  BY <1>2, <1>4, Zenon DEF SetValue
<1>5. ASSUME Len(name) = 1, name[1] \notin DOMAIN Base
      PROVE  SetValue(name, r) = {Stored(mem, Entered(Vars, name[1], r))}
  BY <1>2, <1>5, Zenon DEF SetValue
<1> QED BY <1>3, <1>4, <1>5, Zenon

(* SetValue keeps data typed. *)
LEMMA SetValueOK ==
  ASSUME DataOK, NEW name \in Seq(STRING) \ {<<>>}, NEW r, Ref(mem, r),
         Kind(r) \in Containers => Len(name) = 1 /\ name[1] \notin DOMAIN Base,
         NEW o \in SetValue(name, r)
  PROVE  OutcomeOK(o)
<1>0. Len(name) > 3 \/ Len(name) \in {2, 3} \/ Len(name) = 1
  <2>1. Len(name) \in Nat /\ Len(name) # 0
    OBVIOUS
  <2>2. PICK n \in Nat \ {0} : n = Len(name)
    BY <2>1
  <2>3. n > 3 \/ n \in {2, 3} \/ n = 1
    BY Z3
  <2> QED BY <2>2, <2>3, Zenon
<1>1. CASE Len(name) > 3
  <2>1. SetValue(name, r) = Fails(Error)
    BY <1>1, SetValueIs
  <2>2. o \in Fails(Error)
    BY <2>1
  <2> QED BY <2>2, FailsOK
<1>2. CASE Len(name) \in {2, 3}
  <2>1. o \in SetField(GetValue(Front(name)), GetStructAttributeValue(GetValue(Front(name)), name[Len(name)]), Load(r))
    BY <1>2, Names DEF SetValue
  <2>2. Sound(Load(r)) /\ Ref(mem, GetValue(Front(name)))
    BY LoadSound, GetValueRef DEF DataOK
  <2> QED BY <2>1, <2>2, SetFieldOK
<1>3. CASE Len(name) = 1 /\ name[1] \in DOMAIN Base
  <2>1. o \in SetPointer(Root(name[1]), Load(Deref(r)))
    BY <1>3, SetValueIs
  <2>2. Kind(r) \notin Containers
    BY <1>3
  <2>3. Deref(r) = r
    BY <2>2 DEF Deref, Containers
  <2>4. Sound(Load(r)) /\ Load(r).kind \notin Containers
    BY <2>2, LoadSound DEF DataOK
  <2> QED BY <2>1, <2>3, <2>4, RootRef, SetPointerOK
<1>4. CASE Len(name) = 1 /\ name[1] \notin DOMAIN Base
  <2>1. PICK V : V = Entered(Vars, name[1], r)
    OBVIOUS
  <2>2. o = Stored(mem, V)
    BY <1>4, <2>1, SetValueIs
  <2>3. \A x \in DOMAIN V : Ref(mem, V[x])
    BY <2>1 DEF Entered, DataOK
  <2>4. o.mem = mem /\ o.Vars = V
    BY <2>2 DEF Stored
  <2>5. MemOK(mem) /\ Shaped(mem, mem)
    BY DEF DataOK, Shaped
  <2>6. MemOK(o.mem) /\ Shaped(mem, o.mem)
    BY <2>4, <2>5
  <2>7. \A x \in DOMAIN o.Vars : Ref(mem, o.Vars[x])
    BY <2>3, <2>4
  <2> QED BY <2>6, <2>7 DEF OutcomeOK
<1> QED BY <1>0, <1>1, <1>2, <1>3, <1>4

(* Writing or deleting an entry keeps data typed. *)
LEMMA SetMapIndexOK ==
  ASSUME DataOK, NEW p \in Cells, Objects[p].kind = "map", NEW key, Sound(key), NEW v, Sound(v),
         NEW o \in SetMapIndex(p, MapKey(p, key), v)
  PROVE  OutcomeOK(o)
<1>0. MemOK(mem)
  BY DEF DataOK
<1>1. PICK e : e = MapKey(p, key)
  OBVIOUS
<1>2. CASE Failed(e.v)
  BY <1>1, <1>2, FailsOK DEF SetMapIndex
<1>3. CASE ~Failed(e.v)
  <2>1. PICK k : OfKind(k, Objects[p].key) /\ e.at = <<p, k>>
    BY <1>1, <1>3, MapKeyFacts
  <2>2. \A i \in DOMAIN mem[p] : OfKind(mem[p][i], Objects[p].elem) /\ OfKind(i, Objects[p].key)
    BY <1>0 DEF MemOK, Holding, Containers
  <2>3. CASE v = Invalid /\ Objects[p].elem \notin Numbers \ {"int64", "uint64", "float64"}
    <3>1. o = Stored([mem EXCEPT ![p] = Removed(mem[p], k)], Vars)
      <4>1. [mem EXCEPT ![p] = Removed(@, k)] = [mem EXCEPT ![p] = Removed(mem[p], k)]
        OBVIOUS
      <4> QED BY <1>1, <1>3, <2>1, <2>3, <4>1 DEF SetMapIndex
    <3>2. \A i \in DOMAIN Removed(mem[p], k) : OfKind(Removed(mem[p], k)[i], Objects[p].elem) /\ OfKind(i, Objects[p].key)
      BY <2>2 DEF Removed
    <3>3. MemOK([mem EXCEPT ![p] = Removed(mem[p], k)]) /\ Shaped(mem, [mem EXCEPT ![p] = Removed(mem[p], k)])
      BY <1>0, <3>2, MapWritten
    <3> QED BY <3>1, <3>3 DEF Stored, OutcomeOK, DataOK
  <2>4. CASE ~(v = Invalid /\ Objects[p].elem \notin Numbers \ {"int64", "uint64", "float64"})
    <3>1. PICK w \in Wanted(v, Objects[p].elem) : o = Outcome(w, [mem EXCEPT ![p] = Entered(mem[p], k, w)])
      BY <1>1, <1>3, <2>1, <2>4 DEF SetMapIndex
    <3>2. CASE Failed(w)
      BY <3>1, <3>2, OutcomeIsOK
    <3>3. CASE ~Failed(w)
      <4>1. OfKind(w, Objects[p].elem)
        BY <3>1, <3>3, WantedTyped, Failing
      <4>2. \A i \in DOMAIN Entered(mem[p], k, w) :
              OfKind(Entered(mem[p], k, w)[i], Objects[p].elem) /\ OfKind(i, Objects[p].key)
        BY <2>1, <2>2, <4>1 DEF Entered
      <4>3. MemOK([mem EXCEPT ![p] = Entered(mem[p], k, w)]) /\ Shaped(mem, [mem EXCEPT ![p] = Entered(mem[p], k, w)])
        BY <1>0, <4>2, MapWritten
      <4> QED BY <3>1, <4>3, OutcomeIsOK
    <3> QED BY <3>2, <3>3
  <2> QED BY <2>3, <2>4
<1> QED BY <1>2, <1>3

(* Writing an element keeps data typed. *)
LEMMA SetIndexOK ==
  ASSUME DataOK, NEW p \in Cells, Sequential(p), NEW c, c = Object(p), NEW key, Sound(key), NEW literal,
         NEW v, Sound(v), NEW o \in SetIndex(c, Index(p, key, literal), v)
  PROVE  OutcomeOK(o)
<1>1. PICK e : e = Index(p, key, literal)
  OBVIOUS
<1>2. CASE o \in Fails(e.v) \cup Fails(Panic)
  BY <1>2, FailsOK
<1>3. CASE o \notin Fails(e.v) \cup Fails(Panic)
  <2>1. ~Failed(e.v) /\ o \in Into(e.at, Wanted(v, Objects[p].elem))
    <3>1. Of(c) = Objects[p]
      BY CellsAreObjects, ObjectFacts
    <3> QED BY <1>1, <1>3, <3>1 DEF SetIndex
  <2>2. PICK i \in DOMAIN mem[p] : e = [v |-> Num(Objects[p].elem, 0), at |-> <<p, i>>]
    BY <1>1, <2>1, IndexFacts DEF DataOK
  <2>3. e.at = <<p, i>>
    BY <2>2
  <2>4. \A w \in Wanted(v, Objects[p].elem) : Failed(w) \/ OfKind(w, Objects[p].elem)
    BY WantedTyped, Failing
  <2> QED BY <2>1, <2>3, <2>4, IntoElement
<1> QED BY <1>2, <1>3

(* SetMapVarValue keeps data typed, whatever its target is. *)
LEMMA SetElementOfOK ==
  ASSUME DataOK, NEW c, Ref(mem, c), NEW key, Legal(key), NEW v, Sound(v), NEW o \in SetElementOf(c, key, v)
  PROVE  OutcomeOK(o)
<1> DEFINE k == GivenKey(key)
<1>0. MemOK(mem) /\ Sound(k)
  BY GivenKeySound DEF DataOK
<1> HIDE DEF k
<1>1. CASE Failed(c.v)
  BY <1>1, FailsOK DEF SetElementOf, Failed, Kind
<1>2. CASE ~Failed(c.v) /\ Kind(c) = "map"
  <2>1. PICK p \in DOMAIN Objects : Objects[p].kind = "map" /\ c.at[1] = p
    BY <1>0, <1>2, ContainersAreObjects DEF Containers
  <2>2. p \in Cells
    BY <2>1, ObjectFacts
  <2>3. o \in SetMapIndex(p, MapKey(p, k), v)
    BY <1>2, <2>1 DEF SetElementOf, k
  <2> QED BY <1>0, <2>1, <2>2, <2>3, SetMapIndexOK
<1>3. CASE ~Failed(c.v) /\ Kind(c) \in {"slice", "array"}
  <2>1. PICK p \in DOMAIN Objects : Objects[p].kind = Kind(c) /\ c.at[1] = p /\ c = Object(p)
    BY <1>0, <1>3, ContainersAreObjects DEF Containers
  <2>2. p \in Cells /\ Sequential(p)
    BY <1>3, <2>1, ObjectFacts DEF Sequential
  <2>3. o \in SetIndex(c, Index(p, k, Literal(key)), v)
    BY <1>3, <2>1 DEF SetElementOf, k
  <2> QED BY <1>0, <2>1, <2>2, <2>3, SetIndexOK
<1>4. CASE ~Failed(c.v) /\ Kind(c) \notin {"map", "slice", "array"}
  BY <1>4, FailsOK DEF SetElementOf
<1> QED BY <1>1, <1>2, <1>3, <1>4

(* Every store keeps data typed. *)
LEMMA StoreOK ==
  ASSUME DataOK, NEW t, t.name \in Seq(STRING) \ {<<>>}, t.key = NoKey \/ Legal(t.key),
         NEW r, Ref(mem, r), Kind(r) \in Containers => Local(t), NEW o \in Store(t, r)
  PROVE  OutcomeOK(o)
<1>1. CASE t.key = NoKey
  BY <1>1, SetValueOK DEF Store, Local
<1>2. CASE t.key # NoKey
  <2>1. o \in SetElementOf(Container(t.name), t.key, Load(r))
    BY <1>2 DEF Store, SetMapVarValue
  <2>2. Ref(mem, Container(t.name)) /\ Sound(Load(r))
    BY GetValueRef, DerefRef, LoadSound DEF Container, DataOK
  <2> QED BY <1>2, <2>1, <2>2, SetElementOfOK
<1> QED BY <1>1, <1>2

-----------------------------------------------------------------------------
(* The inductive invariant, and the nodes of expressions *)

(* A stack is a sequence of something. *)
IsSeq(s) == \E S : s \in Seq(S)

(* Sequences, their prefixes and what is appended to them *)
LEMMA SeqFacts ==
  ASSUME NEW s, IsSeq(s)
  PROVE  /\ Len(s) \in Nat /\ DOMAIN s = 1 .. Len(s)
         /\ \A e : /\ IsSeq(Append(s, e)) /\ Len(Append(s, e)) = Len(s) + 1
                   /\ Append(s, e)[Len(s) + 1] = e /\ DOMAIN Append(s, e) = 1 .. Len(s) + 1
                   /\ \A i \in 1 .. Len(s) : Append(s, e)[i] = s[i]
         /\ \A n \in 0 .. Len(s) :
              /\ IsSeq(SubSeq(s, 1, n)) /\ Len(SubSeq(s, 1, n)) = n
              /\ \A i \in 1 .. n : SubSeq(s, 1, n)[i] = s[i]
<1>1. PICK S : s \in Seq(S)
  BY DEF IsSeq
<1>2. Len(s) \in Nat /\ DOMAIN s = 1 .. Len(s) /\ \A i \in 1 .. Len(s) : s[i] \in S
  BY <1>1
<1>3. ASSUME NEW e PROVE
        /\ IsSeq(Append(s, e)) /\ Len(Append(s, e)) = Len(s) + 1
        /\ Append(s, e)[Len(s) + 1] = e /\ DOMAIN Append(s, e) = 1 .. Len(s) + 1
        /\ \A i \in 1 .. Len(s) : Append(s, e)[i] = s[i]
  <2>1. PICK T : T = S \cup {e}
    OBVIOUS
  <2>2. s \in Seq(T) /\ e \in T
    BY <1>1, <2>1
  <2>3. Append(s, e) \in Seq(T)
    BY <2>2
  <2>4. /\ Len(Append(s, e)) = Len(s) + 1
        /\ Append(s, e)[Len(s) + 1] = e /\ DOMAIN Append(s, e) = 1 .. Len(s) + 1
        /\ \A i \in 1 .. Len(s) : Append(s, e)[i] = s[i]
    BY <1>2, <2>2
  <2> QED BY <2>3, <2>4 DEF IsSeq
<1>4. ASSUME NEW n \in 0 .. Len(s) PROVE
        /\ IsSeq(SubSeq(s, 1, n)) /\ Len(SubSeq(s, 1, n)) = n
        /\ \A i \in 1 .. n : SubSeq(s, 1, n)[i] = s[i]
  <2>1. SubSeq(s, 1, n) = [i \in 1 .. n |-> s[i]]
    BY <1>1, <1>2
  <2>2. SubSeq(s, 1, n) \in Seq(S)
    BY <1>1, <1>2, <2>1
  <2> QED BY <1>1, <1>2, <2>1, <2>2 DEF IsSeq
<1> QED BY <1>2, <1>3, <1>4

(* The calls under way: each has its arguments above those of the calls    *)
(* around it.                                                              *)
CallNames == UNION {Scopes[s].calls : s \in DOMAIN Scopes}
Frames == [name : CallNames, floor : Nat]
CallsOK ==
  /\ stmt.kind = "none" => calls = <<>>
  /\ calls \in Seq(Frames)
  /\ \A j \in DOMAIN calls : calls[j].floor <= Len(stack) /\ \A i \in 1 .. j : calls[i].floor <= calls[j].floor

(* The values on the stack are what nodes may yield. *)
StackOK == IsSeq(stack) /\ \A i \in DOMAIN stack : Ref(mem, stack[i])

(* An assignment is one the grammar has. *)
StmtOK ==
  stmt.kind = "assign" =>
    /\ stmt.op \in {"="} \cup AssignOps
    /\ stmt.name \in Seq(STRING) \ {<<>>}
    /\ stmt.key = NoKey \/ Legal(stmt.key)

(* The inductive invariant of DataWellTyped and OperatorsExact *)
TypedInv == scope \in DOMAIN Scopes /\ DataOK /\ StackOK /\ CallsOK /\ StmtOK

(* Where the innermost call's arguments begin, and how many there are *)
LEMMA FloorFacts ==
  ASSUME StackOK, CallsOK
  PROVE  /\ Len(stack) \in Nat /\ DOMAIN stack = 1 .. Len(stack)
         /\ Floor \in Nat /\ Floor <= Len(stack) /\ Operands \in Nat
         /\ \A j \in DOMAIN calls : calls[j].floor \in Nat /\ calls[j].floor <= Floor
<1>1. Len(stack) \in Nat /\ DOMAIN stack = 1 .. Len(stack)
  BY SeqFacts DEF StackOK
<1>2. CASE calls = <<>>
  BY <1>1, <1>2 DEF Floor, Operands
<1>3. CASE calls # <<>>
  <2>1. Len(calls) \in Nat \ {0} /\ DOMAIN calls = 1 .. Len(calls) /\ \A j \in DOMAIN calls : calls[j] \in Frames
    BY <1>3 DEF CallsOK
  <2>2. PICK n \in Nat \ {0} : n = Len(calls)
    BY <2>1
  <2>3. Floor = calls[n].floor /\ n \in DOMAIN calls
    BY <1>3, <2>1, <2>2 DEF Floor, Last
  <2>4. \A j \in DOMAIN calls : calls[j].floor \in Nat
    BY <2>1 DEF Frames
  <2>5. Floor \in Nat /\ Floor <= Len(stack)
    BY <2>3, <2>4 DEF CallsOK
  <2>6. \A j \in DOMAIN calls : calls[j].floor <= Floor
    <3> TAKE j \in DOMAIN calls
    <3>1. j \in 1 .. n
      BY <2>1, <2>2
    <3> QED BY <2>3, <3>1 DEF CallsOK
  <2> QED BY <1>1, <2>4, <2>5, <2>6 DEF Operands
<1> QED BY <1>2, <1>3

(* The operands of a node are sound. *)
LEMMA TopAndBelow ==
  ASSUME DataOK, StackOK
  PROVE  /\ Len(stack) > 0 => Ref(mem, Last(stack)) /\ Sound(top) /\ top.kind = Kind(Last(stack))
         /\ Len(stack) > 1 => Sound(below) /\ Ref(mem, stack[Len(stack) - 1])
<1>1. Len(stack) \in Nat /\ DOMAIN stack = 1 .. Len(stack)
  BY SeqFacts DEF StackOK
<1>2. ASSUME Len(stack) > 0 PROVE Ref(mem, Last(stack))
  BY <1>1, <1>2 DEF Last, StackOK
<1>3. ASSUME Len(stack) > 1 PROVE Ref(mem, stack[Len(stack) - 1])
  <2>1. Len(stack) - 1 \in DOMAIN stack
    BY <1>1, <1>3
  <2> QED BY <2>1 DEF StackOK
<1>4. MemOK(mem)
  BY DEF DataOK
<1> QED BY <1>2, <1>3, <1>4, LoadSound DEF top, below

(* A failure keeps the invariant. *)
LEMMA FailTyped ==
  ASSUME TypedInv, NEW v, NEW where, Fail(v, where)
  PROVE  TypedInv'
<1>1. UNCHANGED <<scope, mem, Vars, stmt, stack, calls>>
  BY DEF Fail
<1>2. DataOK'
  BY <1>1 DEF TypedInv, DataOK
<1>3. StackOK'
  BY <1>1 DEF TypedInv, StackOK
<1>4. CallsOK'
  BY <1>1 DEF TypedInv, CallsOK
<1>5. StmtOK'
  BY <1>1 DEF TypedInv, StmtOK
<1> QED BY <1>1, <1>2, <1>3, <1>4, <1>5 DEF TypedInv

(* A value on top of what is left of the stack *)
LEMMA Pushed ==
  ASSUME StackOK, NEW n \in 0 .. Len(stack), NEW r, Ref(mem, r), NEW s, s = Append(SubSeq(stack, 1, n), r)
  PROVE  IsSeq(s) /\ Len(s) = n + 1 /\ \A i \in DOMAIN s : Ref(mem, s[i])
<1>0. Len(stack) \in Nat /\ DOMAIN stack = 1 .. Len(stack)
  BY SeqFacts DEF StackOK
<1>1. PICK u : u = SubSeq(stack, 1, n)
  OBVIOUS
<1>2. IsSeq(u) /\ Len(u) = n /\ \A i \in 1 .. n : u[i] = stack[i]
  BY <1>1, SeqFacts DEF StackOK
<1>3. /\ IsSeq(s) /\ Len(s) = n + 1 /\ DOMAIN s = 1 .. n + 1 /\ s[n + 1] = r
      /\ \A i \in 1 .. n : s[i] = u[i]
  BY <1>1, <1>2, SeqFacts
<1>4. ASSUME NEW i \in 1 .. n + 1 PROVE Ref(mem, s[i])
  <2>1. CASE i = n + 1
    BY <1>3, <2>1
  <2>2. CASE i # n + 1
    <3>1. i \in 1 .. n /\ i \in DOMAIN stack
      BY <1>0, <2>2
    <3>2. s[i] = stack[i]
      BY <1>2, <1>3, <3>1
    <3> QED BY <3>1, <3>2 DEF StackOK
  <2> QED BY <2>1, <2>2
<1> QED BY <1>3, <1>4

(* So does a node that yields what a node may yield. *)
LEMMA YieldsTyped ==
  ASSUME TypedInv, NEW n \in 0 .. Operands, NEW r, Ref(mem, r), NEW w, Yields(n, r, w)
  PROVE  TypedInv'
<1>1. UNCHANGED <<scope, mem, Vars, stmt, calls>> /\ stack' = Append(SubSeq(stack, 1, Len(stack) - n), r)
  BY DEF Yields
<1>2. DataOK'
  BY <1>1 DEF TypedInv, DataOK
<1>3. StmtOK'
  BY <1>1 DEF TypedInv, StmtOK
<1>4. /\ Len(stack) \in Nat /\ Floor \in Nat /\ Floor <= Len(stack) /\ Operands = Len(stack) - Floor
      /\ \A j \in DOMAIN calls : calls[j].floor \in Nat /\ calls[j].floor <= Floor
  BY FloorFacts DEF TypedInv, Operands
<1>5. PICK z : z = Len(stack) - n
  OBVIOUS
<1>6. z \in 0 .. Len(stack) /\ z >= Floor
  BY <1>4, <1>5
<1>7. IsSeq(stack') /\ Len(stack') = z + 1 /\ \A i \in DOMAIN stack' : Ref(mem, stack'[i])
  BY <1>1, <1>5, <1>6, Pushed DEF TypedInv
<1>8. StackOK'
  BY <1>1, <1>7 DEF StackOK
<1>9. CallsOK'
  <2>1. \A j \in DOMAIN calls : calls[j].floor <= Len(stack')
    BY <1>4, <1>6, <1>7
  <2> QED BY <1>1, <2>1 DEF TypedInv, CallsOK
<1> QED BY <1>1, <1>2, <1>3, <1>8, <1>9 DEF TypedInv

(* So does a node that yields it or fails. *)
LEMMA BecomesTyped ==
  ASSUME TypedInv, NEW n \in 0 .. Operands, NEW r, Ref(mem, r), NEW w, NEW where, Becomes(n, r, w, where)
  PROVE  TypedInv'
BY FailTyped, YieldsTyped DEF Becomes

(* The result of an operation is what a node may yield. *)
LEMMA ResultRef ==
  ASSUME NEW v, Sound(v), v.kind \in ResultKinds
  PROVE  Ref(mem, Own(v))
BY OwnRef, Kinds

(* What rules are made of *)
LEMMA RuleFacts ==
  ASSUME TypedInv
  PROVE  /\ Rule.math \subseteq MathOps
         /\ \A st \in Rule.statements :
              st.kind = "assign" =>
                /\ st.op \in {"="} \cup AssignOps
                /\ st.name \in Seq(STRING) \ {<<>>}
                /\ st.key = NoKey \/ Legal(st.key)
         /\ \A e \in Rule.elements : Legal(e.key)
         /\ \A v \in Rule.constants : Plainly(v)
         /\ \A name \in Rule.calls : name \in CallNames
<1>1. scope \in DOMAIN Scopes /\ Rule = Scopes[scope]
  BY DEF TypedInv, Rule
<1> QED BY <1>1, Operators DEF MathOps, AssignOps, CallNames

(* A literal is what a node may yield. *)
LEMMA PlainlyRef ==
  ASSUME NEW v, Plainly(v)
  PROVE  Sound(v) /\ v.kind \notin Containers /\ Ref(mem, Own(v))
<1>1. Sound(v) /\ v.kind \in Scalars \cup {"invalid"}
  BY DEF Plainly, Sound
<1>2. v.kind \notin Containers
  BY <1>1, Kinds DEF Containers
<1> QED BY <1>1, <1>2, OwnRef

(* The nodes of expressions keep the invariant. *)
LEMMA ExpressionTyped ==
  ASSUME TypedInv
  PROVE  /\ \A c \in Rule.constants : Constant(c) => TypedInv'
         /\ \A name : Variable(name) => TypedInv'
         /\ \A e \in Rule.elements : Element(e.name, e.key) => TypedInv'
         /\ \A op \in Rule.math : MathExpression(op) => TypedInv'
         /\ \A op : Comparison(op) => TypedInv'
         /\ \A op : Connective(op) => TypedInv'
         /\ Negation => TypedInv'
<1>0. /\ Operands \in Nat /\ Operands <= Len(stack) /\ DataOK /\ StackOK /\ Len(stack) \in Nat
      /\ 0 \in 0 .. Operands
  <2>1. Floor \in Nat /\ Len(stack) \in Nat /\ Operands = Len(stack) - Floor /\ Operands \in Nat
    BY FloorFacts DEF TypedInv, Operands
  <2> QED BY <2>1 DEF TypedInv
<1>1. ASSUME NEW c \in Rule.constants, Constant(c) PROVE TypedInv'
  <2>1. Becomes(0, Own(c), FALSE, "constant")
    BY <1>1 DEF Constant
  <2>2. Ref(mem, Own(c))
    BY RuleFacts, PlainlyRef
  <2> QED BY <1>0, <2>1, <2>2, BecomesTyped
<1>2. ASSUME NEW name, Variable(name) PROVE TypedInv'
  <2>1. PICK w : Becomes(0, GetValue(name), w, "variable")
    BY <1>2 DEF Variable
  <2>2. Ref(mem, GetValue(name))
    BY <1>0, GetValueRef
  <2> QED BY <1>0, <2>1, <2>2, BecomesTyped
<1>3. ASSUME NEW e \in Rule.elements, Element(e.name, e.key) PROVE TypedInv'
  <2>1. PICK w : Becomes(0, ElementOf(Container(e.name), e.key), w, "element")
    BY <1>3 DEF Element
  <2>2. Ref(mem, Container(e.name))
    BY <1>0, GetValueRef, DerefRef DEF Container, DataOK
  <2>3. Ref(mem, ElementOf(Container(e.name), e.key))
    BY <1>0, <2>2, RuleFacts, ElementOfRef
  <2> QED BY <1>0, <2>1, <2>3, BecomesTyped
<1>4. ASSUME Operands > 1 PROVE 2 \in 0 .. Operands /\ Len(stack) > 1 /\ Len(stack) > 0 /\ Sound(top) /\ Sound(below)
  BY <1>0, <1>4, TopAndBelow
<1>5. ASSUME NEW op \in Rule.math, MathExpression(op) PROVE TypedInv'
  <2>1. Operands > 1 /\ Becomes(2, Own(Arithmetic(op, below, top)), FALSE, "math")
    BY <1>5 DEF MathExpression
  <2>2. op \in MathOps \cup AssignOps
    BY RuleFacts
  <2>3. Ref(mem, Own(Arithmetic(op, below, top)))
    BY <1>4, <2>1, <2>2, ArithmeticSound, ResultRef
  <2> QED BY <1>4, <2>1, <2>3, BecomesTyped
<1>6. ASSUME NEW op, Comparison(op) PROVE TypedInv'
  <2>1. Operands > 1 /\ Becomes(2, Own(Compare(op, below, top)), FALSE, "comparison")
    BY <1>6 DEF Comparison
  <2>2. Ref(mem, Own(Compare(op, below, top)))
    BY OthersSound, ResultRef
  <2> QED BY <1>4, <2>1, <2>2, BecomesTyped
<1>7. ASSUME NEW op, Connective(op) PROVE TypedInv'
  <2>1. Operands > 1 /\ Becomes(2, Own(Logical(op, below, top)), FALSE, "logical")
    BY <1>7 DEF Connective
  <2>2. Ref(mem, Own(Logical(op, below, top)))
    BY OthersSound, ResultRef
  <2> QED BY <1>4, <2>1, <2>2, BecomesTyped
<1>8. ASSUME Negation PROVE TypedInv'
  <2>1. Operands > 0 /\ Becomes(1, Own(Not(top)), FALSE, "not")
    BY <1>8 DEF Negation
  <2>2. 1 \in 0 .. Operands
    BY <1>0, <2>1
  <2>3. Ref(mem, Own(Not(top)))
    BY OthersSound, ResultRef
  <2> QED BY <2>1, <2>2, <2>3, BecomesTyped
<1> QED BY <1>1, <1>2, <1>3, <1>5, <1>6, <1>7, <1>8

-----------------------------------------------------------------------------
(* Calls and statements *)

(* The empty stack *)
LEMMA EmptyStack == IsSeq(<<>>) /\ Len(<<>>) = 0 /\ DOMAIN <<>> = {}
<1>1. <<>> \in Seq({}) /\ Len(<<>>) = 0 /\ DOMAIN <<>> = {}
  OBVIOUS
<1> QED BY <1>1 DEF IsSeq

(* The end of a statement, or of none: no call is open. *)
LEMMA Emptied ==
  ASSUME TypedInv, calls = <<>>, UNCHANGED <<scope, calls>>, stack' = <<>>, DataOK', StmtOK'
  PROVE  TypedInv'
<1>1. StackOK'
  BY EmptyStack DEF StackOK
<1>2. CallsOK'
  BY DEF TypedInv, CallsOK
<1> QED BY <1>1, <1>2 DEF TypedInv

(* Data are typed while nothing is written. *)
LEMMA DataKept ==
  ASSUME DataOK, UNCHANGED <<mem, Vars>>
  PROVE  DataOK'
BY DEF DataOK

(* A statement stays what it is. *)
LEMMA StmtKept ==
  ASSUME StmtOK, UNCHANGED stmt
  PROVE  StmtOK'
BY DEF StmtOK

(* No statement is well formed. *)
LEMMA Ended ==
  ASSUME stmt' = [kind |-> "none"]
  PROVE  StmtOK'
BY DEF StmtOK

(* Data that are not written keep their shape. *)
LEMMA Unshaped ==
  ASSUME UNCHANGED mem
  PROVE  Shaped(mem, mem')
BY DEF Shaped

(* The beginning of a call keeps the invariant. *)
LEMMA OpenCallTyped ==
  ASSUME TypedInv, NEW name \in Rule.calls, OpenCall(name)
  PROVE  TypedInv'
<1>1. /\ calls' = Append(calls, [name |-> name, floor |-> Len(stack)])
      /\ UNCHANGED <<scope, mem, Vars, stmt, stack>>
  BY DEF OpenCall
<1>2. DataOK' /\ StmtOK'
  BY <1>1, DataKept, StmtKept DEF TypedInv
<1>3. StackOK'
  BY <1>1 DEF TypedInv, StackOK
<1>4. CallsOK'
  <2>1. Len(stack) \in Nat
    BY FloorFacts DEF TypedInv
  <2>2. PICK f \in Frames : f = [name |-> name, floor |-> Len(stack)] /\ f.floor = Len(stack)
    <3>1. name \in CallNames
      BY RuleFacts
    <3>2. [name |-> name, floor |-> Len(stack)] \in Frames
      BY <2>1, <3>1 DEF Frames
    <3>3. [name |-> name, floor |-> Len(stack)].floor = Len(stack)
      OBVIOUS
    <3> QED BY <3>2, <3>3
  <2>3. PICK n \in Nat : n = Len(calls)
    BY DEF TypedInv, CallsOK
  <2>4. /\ calls' \in Seq(Frames) /\ DOMAIN calls' = 1 .. n + 1 /\ calls'[n + 1] = f
        /\ DOMAIN calls = 1 .. n /\ \A i \in 1 .. n : calls'[i] = calls[i]
    BY <1>1, <2>2, <2>3 DEF TypedInv, CallsOK
  <2>5. \A i \in 1 .. n : calls[i].floor <= Len(stack) /\ \A j \in 1 .. i : calls[j].floor <= calls[i].floor
    BY <2>4 DEF TypedInv, CallsOK
  <2>6. ASSUME NEW j \in 1 .. n + 1
        PROVE  calls'[j].floor <= Len(stack) /\ \A i \in 1 .. j : calls'[i].floor <= calls'[j].floor
    <3>1. CASE j = n + 1
      <4>1. calls'[j].floor = Len(stack)
        BY <2>2, <2>4, <3>1
      <4>2. \A i \in 1 .. n : calls'[i].floor <= Len(stack)
        BY <2>4, <2>5
      <4>3. \A i \in 1 .. j : i = j \/ i \in 1 .. n
        BY <3>1
      <4> QED BY <2>1, <4>1, <4>2, <4>3
    <3>2. CASE j # n + 1
      <4>1. j \in 1 .. n /\ \A i \in 1 .. j : i \in 1 .. n
        BY <3>2
      <4> QED BY <2>4, <2>5, <4>1
    <3> QED BY <3>1, <3>2
  <2>7. stmt'.kind # "none"
    BY <1>1 DEF OpenCall, Evaluating
  <2> QED BY <2>4, <2>6, <2>7, <1>1 DEF CallsOK
<1> QED BY <1>1, <1>2, <1>3, <1>4 DEF TypedInv

(* What a call calls is a function, or a failure. *)
LEMMA CalleeFacts ==
  ASSUME DataOK, NEW name, NEW f, f = Callee(name), ~Failed(f.v)
  PROVE  \E p \in DOMAIN Objects : Objects[p].kind = "func" /\ Of(f) = Objects[p]
<1>0. MemOK(mem) /\ Failed(Panic) /\ Failed(Error) /\ Own(Panic).v = Panic /\ Own(Error).v = Error
  BY Failing DEF DataOK, Own
<1>1. CASE Len(name) = 1
  <2>1. f = Function(Root(name[1]))
    BY <1>1 DEF Callee
  <2>2. f = Root(name[1]) /\ Kind(f) = "func"
    BY <1>0, <2>1 DEF Function
  <2> QED BY <1>0, <2>2, RootRef, ContainersAreObjects DEF Containers
<1>2. CASE Len(name) # 1
  <2>1. PICK obj : obj = GetValue(Front(name))
    OBVIOUS
  <2>2. f = Method(obj, Last(name)) /\ Ref(mem, obj)
    BY <1>2, <2>1, GetValueRef DEF Callee
  <2>3. /\ ~Failed(obj.v) /\ Kind(obj) \in {"ptr", "struct"} /\ Last(name) \in DOMAIN Of(obj).methods
        /\ f = Object(Of(obj).methods[Last(name)])
    BY <1>0, <2>2 DEF Method
  <2>4. PICK p \in DOMAIN Objects : Objects[p].kind = Kind(obj) /\ Of(obj) = Objects[p]
    BY <1>0, <2>2, <2>3, ContainersAreObjects DEF Containers
  <2>5. Objects[p].methods[Last(name)] \in DOMAIN Objects /\ Objects[Objects[p].methods[Last(name)]].kind = "func"
    BY <2>3, <2>4, Declared
  <2> QED BY <2>3, <2>4, <2>5, ObjectFacts
<1> QED BY <1>1, <1>2

(* The parameters of a call have their declared kinds. *)
LEMMA ConvertedFacts ==
  ASSUME TypedInv, NEW q \in DOMAIN Objects, Objects[q].kind = "func",
         NEW p \in Converted(Objects[q], Arguments)
  PROVE  /\ DOMAIN p = DOMAIN Objects[q].writes
         /\ \A i \in DOMAIN p : OfKind(p[i], Objects[q].params[i]) /\ Objects[q].params[i] \in Scalars
<1> DEFINE f == Objects[q]
<1>1. /\ f.params \in Seq(Scalars) /\ DOMAIN f.writes = DOMAIN f.params
  BY Declared
<1>2. Len(f.params) = Len(Arguments) /\ p \in ParameterChoices(Arguments, f.params) /\ Panic \notin Range(p)
  BY DEF Converted
<1>3. Operands \in Nat /\ Floor \in Nat /\ Operands = Len(stack) - Floor /\ Len(stack) \in Nat /\ DOMAIN stack = 1 .. Len(stack)
  BY FloorFacts DEF TypedInv, Operands
<1>4. Len(Arguments) = Operands
  BY <1>3 DEF Arguments
<1>5. DOMAIN f.params = 1 .. Operands /\ \A i \in DOMAIN f.params : f.params[i] \in Scalars
  BY <1>1, <1>2, <1>3, <1>4
<1>6. DOMAIN p = DOMAIN f.params /\ \A i \in DOMAIN p : p[i] \in ParamsTypeChange(Arguments[i], f.params[i])
  BY <1>2 DEF ParameterChoices
<1>7. ASSUME NEW i \in DOMAIN p PROVE OfKind(p[i], f.params[i])
  <2>1. i \in 1 .. Operands /\ Floor + i \in DOMAIN stack
    BY <1>3, <1>5, <1>6
  <2>2. Sound(Arguments[i])
    <3>1. Arguments[i] = Load(stack[Floor + i])
      BY <2>1 DEF Arguments
    <3>2. Ref(mem, stack[Floor + i])
      BY <2>1 DEF TypedInv, StackOK
    <3> QED BY <3>1, <3>2, LoadSound DEF TypedInv, DataOK
  <2>3. p[i] # Panic
    BY <1>2 DEF Range
  <2>4. p[i] \in ParamsTypeChange(Arguments[i], f.params[i])
    BY <1>6
  <2> HIDE DEF f
  <2> QED BY <2>2, <2>3, <2>4, ParamsTypeChangeTyped
<1> QED BY <1>1, <1>5, <1>6, <1>7

(* The return of a call keeps the invariant, whatever the function has     *)
(* stored.                                                                 *)
LEMMA CallReturnsTyped ==
  ASSUME TypedInv, calls # <<>>, NEW q \in DOMAIN Objects, Objects[q].kind = "func",
         NEW p \in Converted(Objects[q], Arguments), NEW r \in Objects[q].returns, CallReturns(Objects[q], p, r)
  PROVE  TypedInv' /\ Shaped(mem, mem')
<1> DEFINE f == Objects[q]
<1>0. /\ UNCHANGED <<scope, Vars, stmt>>
      /\ mem' = [c \in Cells |-> IF c \in Range(f.writes) THEN p[CHOOSE i \in DOMAIN p : f.writes[i] = c] ELSE mem[c]]
      /\ stack' = Append(SubSeq(stack, 1, Floor), Own(r)) /\ calls' = Front(calls)
  BY DEF CallReturns
<1>1. /\ DOMAIN p = DOMAIN f.writes
      /\ \A i \in DOMAIN p : OfKind(p[i], f.params[i]) /\ f.params[i] \in Scalars
  BY ConvertedFacts
<1>2. \A i \in DOMAIN f.writes : Objects[f.writes[i]].kind = f.params[i]
  BY Declared
<1>3. \A v \in f.returns : Plainly(v)
  BY Declared
<1>4. ASSUME NEW c \in Cells
      PROVE  /\ Holding(mem', c)
             /\ Sequential(c) \/ Copied(c) => mem'[c] = mem[c]
  <2>1. CASE c \notin Range(f.writes)
    <3>1. mem'[c] = mem[c]
      BY <1>0, <2>1
    <3>2. Holding(mem, c)
      BY DEF TypedInv, DataOK, MemOK
    <3> QED BY <3>1, <3>2 DEF Holding
  <2>2. CASE c \in Range(f.writes)
    <3>1. PICK i : i = CHOOSE x \in DOMAIN p : f.writes[x] = c
      OBVIOUS
    <3>2. i \in DOMAIN p /\ f.writes[i] = c
      BY <1>1, <2>2, <3>1 DEF Range
    <3>3. mem'[c] = p[i]
      BY <1>0, <2>2, <3>1
    <3>4. Objects[c].kind = f.params[i] /\ f.params[i] \in Scalars /\ OfKind(p[i], f.params[i])
      BY <1>1, <1>2, <3>2
    <3>5. Objects[c].kind \notin Containers /\ ~Sequential(c)
      BY <3>4, Kinds DEF Sequential
    <3>6. ~Copied(c)
      BY <2>2, NotCopied DEF LeadsTo
    <3> QED BY <3>3, <3>4, <3>5, <3>6 DEF Holding
  <2> QED BY <2>1, <2>2
<1>5. MemOK(mem') /\ Shaped(mem, mem')
  <2>1. DOMAIN mem' = Cells
    BY <1>0
  <2> QED BY <1>4, <2>1 DEF MemOK, Shaped
<1>6. DataOK'
  <2>1. \A x \in DOMAIN Vars : Ref(mem', Vars[x])
    BY <1>5, RefKept DEF TypedInv, DataOK
  <2> QED BY <1>0, <1>5, <2>1 DEF DataOK
<1>7. /\ Len(stack) \in Nat /\ Floor \in 0 .. Len(stack)
      /\ \A j \in DOMAIN calls : calls[j].floor \in Nat /\ calls[j].floor <= Floor
  BY FloorFacts DEF TypedInv
<1>8. Ref(mem, Own(r))
  BY <1>3, PlainlyRef
<1>9. IsSeq(stack') /\ Len(stack') = Floor + 1 /\ \A i \in DOMAIN stack' : Ref(mem, stack'[i])
  BY <1>0, <1>7, <1>8, Pushed DEF TypedInv
<1>10. StackOK'
  BY <1>5, <1>9, RefKept DEF StackOK
<1>11. CallsOK'
  <2>1. PICK n \in Nat \ {0} : n = Len(calls)
    BY DEF TypedInv, CallsOK
  <2>2. calls \in Seq(Frames) /\ DOMAIN calls = 1 .. n
    BY <2>1 DEF TypedInv, CallsOK
  <2>3. /\ calls' \in Seq(Frames) /\ DOMAIN calls' = 1 .. n - 1 /\ \A j \in 1 .. n - 1 : calls'[j] = calls[j]
    BY <1>0, <2>1, <2>2 DEF Front
  <2>4. ASSUME NEW j \in 1 .. n - 1
        PROVE  calls'[j].floor <= Len(stack') /\ \A i \in 1 .. j : calls'[i].floor <= calls'[j].floor
    <3>1. j \in DOMAIN calls /\ \A i \in 1 .. j : i \in 1 .. n - 1
      BY <2>2
    <3>2. calls[j].floor <= Len(stack')
      BY <1>7, <1>9, <3>1
    <3> QED BY <2>3, <3>1, <3>2 DEF TypedInv, CallsOK
  <2>5. stmt'.kind # "none"
    BY <1>0 DEF TypedInv, CallsOK
  <2> QED BY <2>3, <2>4, <2>5 DEF CallsOK
<1>12. StmtOK'
  BY <1>0, StmtKept DEF TypedInv
<1> QED BY <1>0, <1>5, <1>6, <1>10, <1>11, <1>12 DEF TypedInv

(* The end of a call keeps the invariant. *)
LEMMA CloseCallTyped ==
  ASSUME TypedInv, CloseCall
  PROVE  TypedInv' /\ Shaped(mem, mem')
<1>1. PICK f : f = Callee(Last(calls).name)
  OBVIOUS
<1>2. PICK choices : choices = IF Failed(f.v) THEN {} ELSE Converted(Of(f), Arguments)
  OBVIOUS
<1>3. /\ calls # <<>>
      /\ IF choices = {} THEN Fail(Error, "call")
         ELSE \E p \in choices, r \in Of(f).returns : CallReturns(Of(f), p, r)
  BY <1>1, <1>2 DEF CloseCall
<1>4. CASE choices = {}
  <2>1. UNCHANGED mem
    BY <1>3, <1>4 DEF Fail
  <2> QED BY <1>3, <1>4, <2>1, FailTyped, Unshaped
<1>5. CASE choices # {}
  <2>1. ~Failed(f.v) /\ choices = Converted(Of(f), Arguments)
    BY <1>2, <1>5
  <2>2. PICK q \in DOMAIN Objects : Objects[q].kind = "func" /\ Of(f) = Objects[q]
    BY <1>1, <2>1, CalleeFacts DEF TypedInv
  <2>3. \E p \in Converted(Objects[q], Arguments), r \in Objects[q].returns : CallReturns(Objects[q], p, r)
    BY <1>3, <1>5, <2>1, <2>2
  <2> QED BY <1>3, <2>2, <2>3, CallReturnsTyped
<1> QED BY <1>4, <1>5

(* What is assigned is what a node may yield, and a container only as it   *)
(* is.                                                                     *)
LEMMA ToAssignRef ==
  ASSUME TypedInv, Ready("assign")
  PROVE  /\ Ref(mem, ToAssign)
         /\ Kind(ToAssign) \in Containers => ToAssign = Last(stack)
<1>1. stmt.kind = "assign" /\ Len(stack) = 1 /\ Len(stack) > 0
  BY DEF Ready
<1>2. Ref(mem, Last(stack)) /\ Sound(top)
  BY <1>1, TopAndBelow DEF TypedInv
<1>3. CASE stmt.op = "="
  BY <1>2, <1>3 DEF ToAssign
<1>4. CASE stmt.op # "="
  <2>1. stmt.op \in MathOps \cup AssignOps /\ (stmt.key = NoKey \/ Legal(stmt.key))
    BY <1>1, <1>4 DEF TypedInv, StmtOK
  <2>2. PICK s : s = Read(stmt)
    OBVIOUS
  <2>3. Ref(mem, s) /\ Sound(Load(s)) /\ Load(s).kind = Kind(s)
    BY <2>1, <2>2, ReadRef, LoadSound DEF TypedInv, DataOK
  <2>4. ToAssign = Computed(s)
    BY <1>4, <2>2 DEF ToAssign
  <2>5. CASE Failed(s.v)
    <3>1. ToAssign = s
      BY <2>4, <2>5 DEF Computed
    <3>2. Kind(s) \notin Containers
      BY <2>5 DEF Failed, Kind, Containers
    <3> QED BY <2>3, <3>1, <3>2
  <2>6. CASE ~Failed(s.v)
    <3>1. ToAssign = Own(Arithmetic(stmt.op, Load(s), top))
      BY <2>4, <2>6 DEF Computed
    <3>2. PICK v : v = Arithmetic(stmt.op, Load(s), top)
      OBVIOUS
    <3>3. Sound(v) /\ v.kind \in ResultKinds
      BY <1>2, <2>1, <2>3, <3>2, ArithmeticSound
    <3>4. Kind(Own(v)) \notin Containers
      BY <3>3, Kinds DEF Kind, Own
    <3> QED BY <3>1, <3>2, <3>3, <3>4, ResultRef
  <2> QED BY <2>5, <2>6
<1> QED BY <1>3, <1>4

(* An assignment keeps the invariant. *)
LEMMA AssignTyped ==
  ASSUME TypedInv, Assign
  PROVE  TypedInv' /\ Shaped(mem, mem')
<1>1. PICK r : r = ToAssign
  OBVIOUS
<1>2. Ready("assign") /\ (Kind(Last(stack)) \in Containers => Local(stmt))
  BY DEF Assign
<1>3. PICK o \in IF Failed(r.v) THEN Fails(r.v) ELSE Store(stmt, r) :
        IF o.fail # Invalid THEN Fail(o.fail, "assign") ELSE Finish(o, r)
  BY <1>1 DEF Assign
<1>4. Ref(mem, r) /\ (Kind(r) \in Containers => Local(stmt))
  BY <1>1, <1>2, ToAssignRef
<1>5. stmt.name \in Seq(STRING) \ {<<>>} /\ (stmt.key = NoKey \/ Legal(stmt.key))
  BY <1>2 DEF Ready, TypedInv, StmtOK
<1>6. OutcomeOK(o)
  <2>1. CASE Failed(r.v)
    BY <1>3, <2>1, FailsOK DEF TypedInv
  <2>2. CASE ~Failed(r.v)
    BY <1>3, <1>4, <1>5, <2>2, StoreOK DEF TypedInv
  <2> QED BY <2>1, <2>2
<1>7. CASE o.fail # Invalid
  <2>1. UNCHANGED mem
    BY <1>3, <1>7 DEF Fail
  <2> QED BY <1>3, <1>7, <2>1, FailTyped, Unshaped
<1>8. CASE o.fail = Invalid
  <2>1. mem' = o.mem /\ Vars' = o.Vars /\ stmt' = [kind |-> "none"] /\ stack' = <<>> /\ UNCHANGED <<scope, calls>>
    BY <1>3, <1>8 DEF Finish, End
  <2>2. DataOK'
    BY <1>6, <2>1, RefKept DEF OutcomeOK, DataOK
  <2>3. calls = <<>>
    BY <1>2 DEF Ready
  <2>4. Shaped(mem, mem')
    BY <1>6, <2>1 DEF OutcomeOK
  <2> QED BY <2>1, <2>2, <2>3, <2>4, Ended, Emptied
<1> QED BY <1>7, <1>8

(* The other statements keep the invariant. *)
LEMMA OthersTyped ==
  ASSUME TypedInv
  PROVE  /\ \A st \in Rule.statements : Begin(st) => TypedInv'
         /\ Condition => TypedInv'
         /\ CallDone => TypedInv'
         /\ Return => TypedInv'
<1>1. ASSUME NEW st \in Rule.statements, Begin(st) PROVE TypedInv'
  <2>0. calls = <<>>
    BY <1>1 DEF Begin, TypedInv, CallsOK
  <2>1. stmt' = st /\ stack' = <<>> /\ UNCHANGED <<scope, mem, Vars, calls>>
    BY <1>1 DEF Begin
  <2>2. StmtOK'
    BY <2>1, RuleFacts DEF StmtOK
  <2>3. DataOK'
    BY <2>1, DataKept DEF TypedInv
  <2> QED BY <2>0, <2>1, <2>2, <2>3, Emptied
<1>2. ASSUME End, calls = <<>>, UNCHANGED <<scope, mem, Vars, calls>> PROVE TypedInv'
  BY <1>2, Ended, DataKept, Emptied DEF End, TypedInv
<1>3. ASSUME Condition PROVE TypedInv'
  <2>1. (\E v : Fail(v, "condition")) \/ (End /\ UNCHANGED <<scope, mem, Vars, calls>>)
    BY <1>3 DEF Condition
  <2>2. calls = <<>>
    BY <1>3 DEF Condition, Ready
  <2> QED BY <1>2, <2>1, <2>2, FailTyped
<1>4. ASSUME CallDone PROVE TypedInv'
  BY <1>2, <1>4 DEF CallDone, Ready
<1>5. ASSUME Return PROVE TypedInv'
  <2>1. (\E v : Fail(v, "return")) \/ UNCHANGED <<scope, mem, Vars, stmt, stack, calls>>
    BY <1>5 DEF Return
  <2>2. ASSUME UNCHANGED <<scope, mem, Vars, stmt, stack, calls>> PROVE TypedInv'
    <3>1. DataOK' /\ StmtOK'
      BY <2>2, DataKept, StmtKept DEF TypedInv
    <3>2. StackOK' /\ CallsOK'
      BY <2>2 DEF TypedInv, StackOK, CallsOK
    <3> QED BY <2>2, <3>1, <3>2 DEF TypedInv
  <2> QED BY <2>1, <2>2, FailTyped
<1> QED BY <1>1, <1>3, <1>4, <1>5

(* Every step keeps the invariant. *)
LEMMA TypedStep ==
  ASSUME TypedInv, [Next]_vars
  PROVE  TypedInv'
<1>1. CASE UNCHANGED vars
  <2>1. UNCHANGED <<scope, mem, Vars, stmt, stack, calls>>
    BY <1>1 DEF vars, evaluation, history
  <2>2. DataOK' /\ StmtOK'
    BY <2>1, DataKept, StmtKept DEF TypedInv
  <2>3. StackOK' /\ CallsOK'
    BY <2>1 DEF TypedInv, StackOK, CallsOK
  <2> QED BY <2>1, <2>2, <2>3 DEF TypedInv
<1>2. CASE Next
  <2>1. \/ \E st \in Rule.statements : Begin(st)
        \/ \E c \in Rule.constants : Constant(c)
        \/ \E name \in Rule.names : Variable(name)
        \/ \E e \in Rule.elements : Element(e.name, e.key)
        \/ \E op \in Rule.math : MathExpression(op)
        \/ \E op \in Rule.comparisons : Comparison(op)
        \/ \E op \in Rule.connectives : Connective(op)
        \/ Negation
        \/ \E name \in Rule.calls : OpenCall(name)
        \/ CloseCall
        \/ Assign \/ Condition \/ CallDone \/ Return
    BY <1>2 DEF Next
  <2> QED BY <2>1, ExpressionTyped, OpenCallTyped, CloseCallTyped, AssignTyped, OthersTyped
<1> QED BY <1>1, <1>2

(* The invariant holds at first. *)
LEMMA TypedInit ==
  ASSUME Init
  PROVE  TypedInv
<1>1. /\ scope \in DOMAIN Scopes /\ mem \in Scopes[scope].mems /\ Vars = <<>> /\ stmt = [kind |-> "none"]
      /\ stack = <<>> /\ calls = <<>>
  BY DEF Init
<1>2. DataOK
  <2>1. DOMAIN mem = Cells /\ \A c \in Cells : Holding(mem, c)
    BY <1>1, Operators
  <2> QED BY <1>1, <2>1 DEF DataOK, MemOK
<1>3. StackOK
  BY <1>1, EmptyStack DEF StackOK
<1>4. CallsOK
  BY <1>1 DEF CallsOK
<1>5. StmtOK
  BY <1>1 DEF StmtOK
<1> QED BY <1>1, <1>2, <1>3, <1>4, <1>5 DEF TypedInv

(* TypedInv is an invariant of every rule. *)
LEMMA AlwaysTyped == Spec => []TypedInv
<1>1. Init => TypedInv
  BY TypedInit
<1>2. TypedInv /\ [Next]_vars => TypedInv'
  BY TypedStep
<1> QED BY <1>1, <1>2, PTL DEF Spec

(* Injected data keep their declared types through every assignment,       *)
(* conversion and call (execute.go, data_context.go, map_var.go).          *)
THEOREM DataStaysTyped == Spec => []DataWellTyped
<1>1. TypedInv => DataWellTyped
  BY DEF TypedInv, DataOK, MemOK, DataWellTyped
<1> QED BY <1>1, AlwaysTyped, PTL

-----------------------------------------------------------------------------
(* Comparisons *)

(* A number in units, whatever its kind *)
Units(v) == IF v.kind \in Floats THEN v.n ELSE v.n * Unit

(* A number as float64 is its units, rounded. *)
LEMMA AsFloatRounds ==
  ASSUME NEW v, Sound(v), v.kind \in Numbers
  PROVE  Units(v) \in Int /\ AsFloat(v) = Round("float64", Units(v), 1)
<1>1. v.n \in Int
  BY AsFloatType
<1>2. CASE v.kind \in Floats
  <2>1. v.n = Round(v.kind, v.n, 1)
    BY <1>2 DEF Sound, OfKind
  <2> QED BY <1>1, <1>2, <2>1, Widened DEF AsFloat, Units
<1>3. CASE v.kind \notin Floats
  BY <1>1, <1>3, UnitFacts DEF AsFloat, Units
<1> QED BY <1>2, <1>3

(* A number that compares as less is less: rounding never swaps two        *)
(* numbers.                                                                *)
LEMMA ComparisonSound ==
  ASSUME NEW a, NEW b, Sound(a), Sound(b), a.kind \in Numbers, b.kind \in Numbers,
         Compare("<", a, b) = Bool(TRUE)
  PROVE  Units(a) < Units(b)
<1>1. ~IsString(a)
  BY KindFacts DEF IsString
<1>2. Compare("<", a, b) = Bool(Ordered("<", AsFloat(a) < AsFloat(b), AsFloat(a) = AsFloat(b)))
  BY <1>1 DEF Compare
<1>3. Compare("<", a, b) = Num("bool", 1)
  BY Zenon DEF Bool
<1>4. Compare("<", a, b).n = 1
  BY <1>3, Results
<1>5. AsFloat(a) < AsFloat(b)
  <2>1. SUFFICES ASSUME ~(AsFloat(a) < AsFloat(b)) PROVE FALSE
    OBVIOUS
  <2>2. Compare("<", a, b).n = 0
    <3>1. ~Ordered("<", AsFloat(a) < AsFloat(b), AsFloat(a) = AsFloat(b))
      BY <2>1, Zenon DEF Ordered
    <3>2. Bool(Ordered("<", AsFloat(a) < AsFloat(b), AsFloat(a) = AsFloat(b))) = Num("bool", 0)
      BY <3>1, Zenon DEF Bool
    <3>3. Compare("<", a, b) = Num("bool", 0)
      BY <1>2, <3>2, Zenon
    <3> QED BY <3>3, Results
  <2> QED BY <1>4, <2>2
<1>6. PICK x \in Int : x = Units(a)
  BY AsFloatRounds
<1>7. PICK y \in Int : y = Units(b)
  BY AsFloatRounds
<1>8. "float64" \in Floats
  BY KindFacts
<1>9. Round("float64", x, 1) < Round("float64", y, 1)
  BY <1>5, <1>6, <1>7, AsFloatRounds
<1>10. Round("float64", x, 1) \in Int /\ Round("float64", y, 1) \in Int
  BY <1>8, RoundIdempotent
<1>11. y <= x => Round("float64", y, 1) <= Round("float64", x, 1)
  BY <1>8, RoundMonotone
<1> QED BY <1>6, <1>7, <1>9, <1>10, <1>11

(* On sound operands, operators are exact and keep the order of numbers. *)
LEMMA TypedOperators ==
  ASSUME TypedInv
  PROVE  OperatorsExact
<1>1. ASSUME Len(stack) > 1 PROVE Sound(top) /\ Sound(below)
  <2>1. Len(stack) > 0
    BY <1>1, FloorFacts DEF TypedInv
  <2> QED BY <1>1, <2>1, TopAndBelow DEF TypedInv
<1>2. ArithmeticExact
  <2>1. SUFFICES ASSUME Len(stack) > 1, {below.kind, top.kind} \subseteq Signed \cup Unsigned
                 PROVE  Exact(below, top)
    BY DEF ArithmeticExact
  <2>2. ASSUME NEW v, Sound(v), v.kind \in Signed \cup Unsigned PROVE Integer(v) /\ Fits(v.kind, v.n)
    BY <2>2, KindFacts DEF Sound, OfKind, Integer, Whole
  <2>3. Integer(below) /\ Fits(below.kind, below.n) /\ Integer(top) /\ Fits(top.kind, top.n)
    BY <1>1, <2>1, <2>2
  <2> QED BY <2>3, IntegersExact
<1>3. ComparisonsKeepOrder
  <2>1. SUFFICES ASSUME Len(stack) > 1, below.kind \in Numbers, top.kind \in Numbers
                 PROVE  /\ Compare("<", below, top) = Bool(TRUE) => Units(below) < Units(top)
                        /\ Compare("<", top, below) = Bool(TRUE) => Units(top) < Units(below)
    BY DEF ComparisonsKeepOrder, Units
  <2> QED BY <1>1, <2>1, ComparisonSound
<1> QED BY <1>2, <1>3 DEF OperatorsExact

(* Integer arithmetic is exact when the result fits, and no comparison     *)
(* puts the larger number first, of all values a rule can compute          *)
(* (math.go, expression.go).                                               *)
THEOREM OperatorsAreExact == Spec => []OperatorsExact
BY TypedOperators, AlwaysTyped, PTL

-----------------------------------------------------------------------------
(* Local variables *)

(* Only calls and assignments write data. *)
LEMMA MemKept ==
  ASSUME TypedInv, [Next]_vars
  PROVE  Shaped(mem, mem')
<1>1. ASSUME NEW n, NEW r, NEW w, NEW where, Becomes(n, r, w, where) PROVE UNCHANGED mem
  BY <1>1 DEF Becomes, Fail, Yields
<1>2. \/ UNCHANGED mem
      \/ CloseCall \/ Assign
  <2>1. ASSUME NEW st, Begin(st) PROVE UNCHANGED mem
    BY <2>1 DEF Begin
  <2>2. ASSUME NEW c, Constant(c) PROVE UNCHANGED mem
    BY <1>1, <2>2 DEF Constant
  <2>3. ASSUME NEW name, Variable(name) PROVE UNCHANGED mem
    BY <1>1, <2>3 DEF Variable
  <2>4. ASSUME NEW e, Element(e.name, e.key) PROVE UNCHANGED mem
    BY <1>1, <2>4 DEF Element
  <2>5. ASSUME NEW op, MathExpression(op) \/ Comparison(op) \/ Connective(op) \/ Negation PROVE UNCHANGED mem
    BY <1>1, <2>5 DEF MathExpression, Comparison, Connective, Negation
  <2>6. ASSUME NEW name, OpenCall(name) PROVE UNCHANGED mem
    BY <2>6 DEF OpenCall
  <2>7. ASSUME Condition \/ CallDone \/ Return PROVE UNCHANGED mem
    BY <2>7 DEF Condition, CallDone, Return, Fail
  <2>8. CASE UNCHANGED vars
    BY <2>8 DEF vars
  <2>9. CASE Next
    BY <2>9, <2>1, <2>2, <2>3, <2>4, <2>5, <2>6, <2>7 DEF Next
  <2> QED BY <2>8, <2>9
<1> QED BY <1>2, Unshaped, CloseCallTyped, AssignTyped

(* What no store can change: a value of one's own, what is a container,    *)
(* and what is injected by value *)
Steady(r) ==
  \/ r.at = <<>>
  \/ Kind(r) \in Containers
  \/ \E p \in Cells : Copied(p) /\ r = Object(p)

(* What is steady keeps its value, whatever is stored. *)
LEMMA SteadyKept ==
  ASSUME NEW r, Steady(r), Shaped(mem, mem')
  PROVE  Load(r)' = Load(r)
<1>1. CASE r.at = <<>> \/ Kind(r) \in Containers
  BY <1>1 DEF Load, Kind
<1>2. CASE ~(r.at = <<>> \/ Kind(r) \in Containers)
  <2>1. PICK p \in Cells : Copied(p) /\ r = Object(p)
    BY <1>2 DEF Steady
  <2>2. r.at = <<p>>
    BY <2>1 DEF Object
  <2>3. mem'[p] = mem[p]
    BY <2>1 DEF Shaped
  <2>4. Load(r) = mem[p]
    BY <1>2, <2>2 DEF Load, Content
  <2>5. Load(r)' = mem'[p]
    BY <1>2, <2>2 DEF Load, Content, Kind
  <2> QED BY <2>3, <2>4, <2>5
<1> QED BY <1>1, <1>2

(* A value of its own is steady. *)
LEMMA OwnSteady == \A v : Steady(Own(v))
BY DEF Steady, Own

(* What is injected is steady: a value is a copy, anything else a          *)
(* container.                                                              *)
LEMMA BaseSteady ==
  ASSUME NEW a \in DOMAIN Base
  PROVE  Steady(Object(Base[a]))
<1>1. PICK p \in DOMAIN Objects : p = Base[a]
  BY Declared
<1>2. CASE Objects[p].kind \in Containers
  BY <1>1, <1>2, ObjectFacts DEF Steady
<1>3. CASE Objects[p].kind \notin Containers
  BY <1>1, <1>3, ObjectFacts DEF Steady, Copied, Containers
<1> QED BY <1>2, <1>3

(* The invariant of LocalsOwnTheirValue: a local that is no other name for *)
(* a field or element is steady, and so is the last value on the stack     *)
(* that is no bare one.                                                    *)
LocalsInv ==
  /\ \A x \in DOMAIN Vars \ bare : Steady(Vars[x])
  /\ Len(stack) > 0 /\ ~window => Steady(Last(stack))

(* A failure leaves the locals alone. *)
LEMMA FailLocals ==
  ASSUME LocalsInv, NEW v, NEW where, Fail(v, where)
  PROVE  LocalsInv' /\ UNCHANGED Vars
BY DEF Fail, LocalsInv, Last, history

(* The last value of a stack is the one put there. *)
LEMMA LastPushed ==
  ASSUME StackOK, NEW n \in 0 .. Len(stack), NEW r
  PROVE  Last(Append(SubSeq(stack, 1, n), r)) = r
<1>1. PICK u : u = SubSeq(stack, 1, n)
  OBVIOUS
<1>2. IsSeq(u) /\ Len(u) = n /\ Len(stack) \in Nat
  BY <1>1, SeqFacts DEF StackOK
<1>3. Len(Append(u, r)) = n + 1 /\ Append(u, r)[n + 1] = r
  BY <1>2, SeqFacts
<1> QED BY <1>1, <1>3 DEF Last

(* A node leaves the locals alone, and a steady value or a window on the   *)
(* stack.                                                                  *)
LEMMA BecomesLocals ==
  ASSUME TypedInv, LocalsInv, NEW n \in 0 .. Operands, NEW r, NEW w, w \/ Steady(r), NEW where, Becomes(n, r, w, where)
  PROVE  LocalsInv' /\ UNCHANGED Vars
<1>1. CASE Failed(r.v)
  BY <1>1, FailLocals DEF Becomes
<1>2. CASE ~Failed(r.v)
  <2>1. stack' = Append(SubSeq(stack, 1, Len(stack) - n), r) /\ window' = w /\ UNCHANGED <<Vars, bare>>
    BY <1>2 DEF Becomes, Yields
  <2>2. Len(stack) - n \in 0 .. Len(stack)
    BY FloorFacts DEF TypedInv, Operands
  <2>3. Last(stack') = r
    BY <2>1, <2>2, LastPushed DEF TypedInv
  <2> QED BY <2>1, <2>3 DEF LocalsInv
<1> QED BY <1>1, <1>2

(* A variable that is no bare field, and no other name for one, is steady. *)
LEMMA VariableSteady ==
  ASSUME LocalsInv, NEW name, NEW r, r = GetValue(name)
  PROVE  (r.at # None /\ (Len(name) > 1 \/ name[1] \in bare)) \/ Steady(r)
<1> SUFFICES ASSUME r.at # <<>>, ~(Len(name) > 1), name[1] \notin bare PROVE Steady(r)
  BY DEF Steady, None
<1>1. Own(Error).at = <<>>
  BY DEF Own
<1>2. Len(name) = 1
  BY <1>1 DEF GetValue
<1>3. r = Root(name[1])
  BY <1>2 DEF GetValue
<1> QED BY <1>1, <1>3, BaseSteady DEF Root, LocalsInv

(* An entry of a map is copied. *)
LEMMA ElementSteady ==
  ASSUME NEW c, NEW key, Kind(c) = "map"
  PROVE  Steady(ElementOf(c, key)) \/ Failed(c.v)
<1>1. SUFFICES ASSUME ~Failed(c.v) PROVE Steady(ElementOf(c, key))
  OBVIOUS
<1>2. ElementOf(c, key) = EntryCopied(MapKey(c.at[1], GivenKey(key)))
  BY <1>1 DEF ElementOf
<1> QED BY <1>2, OwnSteady DEF EntryCopied

(* The nodes of expressions keep the invariant on locals. *)
LEMMA ExpressionLocals ==
  ASSUME TypedInv, LocalsInv
  PROVE  /\ \A c : Constant(c) => LocalsInv' /\ UNCHANGED Vars
         /\ \A name : Variable(name) => LocalsInv' /\ UNCHANGED Vars
         /\ \A e : Element(e.name, e.key) => LocalsInv' /\ UNCHANGED Vars
         /\ \A op : MathExpression(op) => LocalsInv' /\ UNCHANGED Vars
         /\ \A op : Comparison(op) => LocalsInv' /\ UNCHANGED Vars
         /\ \A op : Connective(op) => LocalsInv' /\ UNCHANGED Vars
         /\ Negation => LocalsInv' /\ UNCHANGED Vars
<1>0. Operands \in Nat /\ 0 \in 0 .. Operands /\ (Operands > 1 => 2 \in 0 .. Operands) /\ (Operands > 0 => 1 \in 0 .. Operands)
  BY FloorFacts DEF TypedInv
<1>1. ASSUME NEW n \in 0 .. Operands, NEW v, NEW where, Becomes(n, Own(v), FALSE, where)
      PROVE  LocalsInv' /\ UNCHANGED Vars
  BY <1>1, OwnSteady, BecomesLocals
<1>2. ASSUME NEW c, Constant(c) PROVE LocalsInv' /\ UNCHANGED Vars
  BY <1>0, <1>1, <1>2 DEF Constant
<1>3. ASSUME NEW name, Variable(name) PROVE LocalsInv' /\ UNCHANGED Vars
  <2>1. PICK r : r = GetValue(name)
    OBVIOUS
  <2>2. Becomes(0, r, r.at # None /\ (Len(name) > 1 \/ name[1] \in bare), "variable")
    BY <1>3, <2>1 DEF Variable
  <2>3. (r.at # None /\ (Len(name) > 1 \/ name[1] \in bare)) \/ Steady(r)
    BY <2>1, VariableSteady
  <2> QED BY <1>0, <2>2, <2>3, BecomesLocals
<1>4. ASSUME NEW e, Element(e.name, e.key) PROVE LocalsInv' /\ UNCHANGED Vars
  <2>1. PICK c : c = Container(e.name)
    OBVIOUS
  <2>2. PICK r : r = ElementOf(c, e.key)
    OBVIOUS
  <2>3. Becomes(0, r, Kind(c) # "map", "element")
    BY <1>4, <2>1, <2>2 DEF Element
  <2>4. Kind(c) = "map" => ~Failed(c.v)
    BY DEF Failed, Kind
  <2>5. (Kind(c) # "map") \/ Steady(r)
    BY <2>2, <2>4, ElementSteady
  <2> QED BY <1>0, <2>3, <2>5, BecomesLocals
<1>5. ASSUME NEW op, MathExpression(op) PROVE LocalsInv' /\ UNCHANGED Vars
  BY <1>0, <1>1, <1>5 DEF MathExpression
<1>6. ASSUME NEW op, Comparison(op) PROVE LocalsInv' /\ UNCHANGED Vars
  BY <1>0, <1>1, <1>6 DEF Comparison
<1>7. ASSUME NEW op, Connective(op) PROVE LocalsInv' /\ UNCHANGED Vars
  BY <1>0, <1>1, <1>7 DEF Connective
<1>8. ASSUME Negation PROVE LocalsInv' /\ UNCHANGED Vars
  BY <1>0, <1>1, <1>8 DEF Negation
<1> QED BY <1>2, <1>3, <1>4, <1>5, <1>6, <1>7, <1>8

(* A store elsewhere leaves the locals alone. *)
LEMMA StoreLocals ==
  ASSUME NEW t, t.name \in Seq(STRING) \ {<<>>}, NEW r, NEW o \in Store(t, r)
  PROVE  IF Local(t) THEN o.Vars = Entered(Vars, t.name[1], r) ELSE o.Vars = Vars
<1>1. ASSUME NEW v, NEW x \in Fails(v) PROVE x.Vars = Vars
  BY <1>1 DEF Fails
<1>2. ASSUME NEW w, NEW m PROVE Outcome(w, m).Vars = Vars
  BY DEF Outcome, Stored
<1>3. ASSUME NEW at, NEW outcomes, NEW x \in Into(at, outcomes) PROVE x.Vars = Vars
  <2>1. \E w, m : x = Outcome(w, m)
    BY <1>3 DEF Into
  <2> QED BY <1>2, <2>1
<1>4. ASSUME NEW p, NEW e, NEW v, NEW x \in SetMapIndex(p, e, v) PROVE x.Vars = Vars
  <2>1. \/ x \in Fails(e.v)
        \/ \E m : x = Stored(m, Vars)
        \/ \E w, m : x = Outcome(w, m)
    BY <1>4 DEF SetMapIndex
  <2>2. \A m : Stored(m, Vars).Vars = Vars
    BY DEF Stored
  <2> QED BY <1>1, <1>2, <2>1, <2>2
<1>5. ASSUME NEW c, NEW e, NEW v, NEW x \in SetIndex(c, e, v) PROVE x.Vars = Vars
  BY <1>1, <1>3, <1>5 DEF SetIndex
<1>6. ASSUME NEW c, NEW k, NEW v, NEW x \in SetElementOf(c, k, v) PROVE x.Vars = Vars
  BY <1>1, <1>4, <1>5, <1>6 DEF SetElementOf
<1>7. ASSUME NEW obj, NEW f, NEW v, NEW x \in SetField(obj, f, v) PROVE x.Vars = Vars
  BY <1>1, <1>3, <1>7 DEF SetField
<1>8. ASSUME NEW p, NEW v, NEW x \in SetPointer(p, v) PROVE x.Vars = Vars
  BY <1>1, <1>3, <1>8 DEF SetPointer
<1>9. CASE t.key # NoKey
  BY <1>6, <1>9 DEF Store, SetMapVarValue, Local
<1>10. CASE t.key = NoKey
  <2>1. o \in SetValue(t.name, r)
    BY <1>10 DEF Store
  <2>2. PICK N : N = t.name
    OBVIOUS
  <2>3. PICK n \in Nat \ {0} : n = Len(N)
    BY <2>2
  <2>4. n # 1 => ~Local(t)
    BY <2>2, <2>3 DEF Local
  <2>5. n > 3 \/ n \in {2, 3} \/ n = 1
    BY SMT
  <2>6. CASE n > 3
    <3>1. SetValue(N, r) = Fails(Error)
      BY <2>3, <2>6 DEF SetValue
    <3> QED BY <1>1, <2>1, <2>2, <2>6, <2>4, <3>1
  <2>7. CASE n \in {2, 3}
    <3>1. SetValue(N, r) = SetField(GetValue(Front(N)), GetValue(N), Load(r))
      BY <2>3, <2>7 DEF SetValue
    <3> QED BY <1>7, <2>1, <2>2, <2>7, <2>4, <3>1
  <2>8. CASE n = 1
    BY <1>8, <1>10, <2>1, <2>2, <2>3, <2>8 DEF SetValue, Local, Stored
  <2> QED BY <2>5, <2>6, <2>7, <2>8
<1> QED BY <1>9, <1>10

(* The statement assigns the local x. *)
AssignedHere(x) == stmt.kind = "assign" /\ Local(stmt) /\ stmt.name[1] = x

(* An assignment changes the local it assigns and no other. *)
LEMMA AssignLocals ==
  ASSUME TypedInv, LocalsInv, Assign
  PROVE  /\ LocalsInv'
         /\ \A x \in DOMAIN Vars : (x \in DOMAIN Vars' /\ Vars'[x] = Vars[x]) \/ AssignedHere(x)
<1>1. PICK r : r = ToAssign
  OBVIOUS
<1>2. Ready("assign")
  BY DEF Assign
<1>3. PICK o \in IF Failed(r.v) THEN Fails(r.v) ELSE Store(stmt, r) :
        IF o.fail # Invalid THEN Fail(o.fail, "assign") ELSE Finish(o, r)
  BY <1>1 DEF Assign
<1>4. CASE o.fail # Invalid
  BY <1>3, <1>4, FailLocals
<1>5. CASE o.fail = Invalid
  <2>1. ~Failed(r.v)
    <3>1. o \in Fails(r.v) => o.fail = r.v
      BY DEF Fails
    <3> QED BY <1>3, <1>5, <3>1, NotNumbers DEF Failed
  <2>2. o \in Store(stmt, r) /\ Finish(o, r)
    BY <1>3, <1>5, <2>1
  <2>3. stmt.name \in Seq(STRING) \ {<<>>} /\ stmt.kind = "assign" /\ Len(stack) = 1
    BY <1>2 DEF Ready, TypedInv, StmtOK
  <2>4. Vars' = o.Vars /\ stack' = <<>>
    BY <2>2 DEF Finish, End
  <2>5. ~(Len(stack') > 0)
    BY <2>4, EmptyStack
  <2>6. CASE ~Local(stmt)
    <3>1. Vars' = Vars
      BY <2>2, <2>3, <2>4, <2>6, StoreLocals
    <3>2. bare' = bare
      BY <2>2, <2>6 DEF Finish
    <3> QED BY <2>5, <3>1, <3>2 DEF LocalsInv
  <2>7. CASE Local(stmt)
    <3>1. PICK y : y = stmt.name[1]
      OBVIOUS
    <3>2. Vars' = Entered(Vars, y, r)
      BY <2>2, <2>3, <2>4, <2>7, <3>1, StoreLocals
    <3>3. DOMAIN Vars' = DOMAIN Vars \cup {y} /\ Vars'[y] = r /\ \A x \in DOMAIN Vars : x # y => Vars'[x] = Vars[x]
      BY <3>2 DEF Entered
    <3>4. CASE window /\ stmt.op = "="
      <4>1. bare' = bare \cup {y}
        BY <2>2, <2>7, <3>1, <3>4 DEF Finish
      <4> QED BY <2>3, <2>5, <2>7, <3>1, <3>3, <4>1 DEF LocalsInv, AssignedHere
    <3>5. CASE ~(window /\ stmt.op = "=")
      <4>1. bare' = bare \ {y}
        BY <2>2, <2>7, <3>1, <3>5 DEF Finish
      <4>2. Steady(r)
        <5>1. CASE stmt.op = "="
          BY <1>1, <2>3, <3>5, <5>1 DEF ToAssign, LocalsInv
        <5>2. CASE stmt.op # "="
          BY <1>1, <2>1, <5>2, OwnSteady DEF ToAssign, Computed
        <5> QED BY <5>1, <5>2
      <4> QED BY <2>3, <2>5, <2>7, <3>1, <3>3, <4>1, <4>2 DEF LocalsInv, AssignedHere
    <3> QED BY <3>4, <3>5
  <2> QED BY <2>6, <2>7
<1> QED BY <1>4, <1>5

(* A call leaves the locals alone. *)
LEMMA CloseCallLocals ==
  ASSUME TypedInv, LocalsInv, CloseCall
  PROVE  LocalsInv' /\ UNCHANGED Vars
<1>1. Fail(Error, "call") \/ \E f, p, r : CallReturns(f, p, r)
  BY DEF CloseCall
<1>2. ASSUME NEW f, NEW p, NEW r, CallReturns(f, p, r) PROVE LocalsInv' /\ UNCHANGED Vars
  <2>1. stack' = Append(SubSeq(stack, 1, Floor), Own(r)) /\ UNCHANGED <<Vars, bare>>
    BY <1>2 DEF CallReturns
  <2>2. Floor \in 0 .. Len(stack)
    BY FloorFacts DEF TypedInv
  <2>3. Last(stack') = Own(r)
    BY <2>1, <2>2, LastPushed DEF TypedInv
  <2> QED BY <2>1, <2>3, OwnSteady DEF LocalsInv
<1> QED BY <1>1, <1>2, FailLocals

(* The other statements leave the locals alone. *)
LEMMA OthersLocals ==
  ASSUME LocalsInv
  PROVE  /\ \A st : Begin(st) => LocalsInv' /\ UNCHANGED Vars
         /\ \A name : OpenCall(name) => LocalsInv' /\ UNCHANGED Vars
         /\ Condition \/ CallDone \/ Return => LocalsInv' /\ UNCHANGED Vars
<1>1. ASSUME stack' = <<>>, UNCHANGED <<Vars, bare>> PROVE LocalsInv' /\ UNCHANGED Vars
  BY <1>1, EmptyStack DEF LocalsInv
<1>2. ASSUME UNCHANGED <<stack, Vars, bare, window>> PROVE LocalsInv' /\ UNCHANGED Vars
  BY <1>2 DEF LocalsInv
<1>3. ASSUME NEW st, Begin(st) PROVE LocalsInv' /\ UNCHANGED Vars
  BY <1>1, <1>3 DEF Begin
<1>4. ASSUME NEW name, OpenCall(name) PROVE LocalsInv' /\ UNCHANGED Vars
  BY <1>2, <1>4 DEF OpenCall, history
<1>5. ASSUME Condition PROVE LocalsInv' /\ UNCHANGED Vars
  <2>1. (\E v : Fail(v, "condition")) \/ (End /\ UNCHANGED <<Vars, history>>)
    BY <1>5 DEF Condition
  <2> QED BY <1>1, <2>1, FailLocals DEF End, history
<1>6. ASSUME CallDone PROVE LocalsInv' /\ UNCHANGED Vars
  BY <1>1, <1>6 DEF CallDone, End, history
<1>7. ASSUME Return PROVE LocalsInv' /\ UNCHANGED Vars
  <2>1. (\E v : Fail(v, "return")) \/ UNCHANGED <<stack, Vars, history>>
    BY <1>7 DEF Return
  <2> QED BY <1>2, <2>1, FailLocals DEF history
<1> QED BY <1>3, <1>4, <1>5, <1>6, <1>7

(* Every step keeps the invariant on locals and changes the one it         *)
(* assigns.                                                                *)
LEMMA LocalsStep ==
  ASSUME TypedInv, LocalsInv, [Next]_vars
  PROVE  /\ LocalsInv'
         /\ \A x \in DOMAIN Vars : (x \in DOMAIN Vars' /\ Vars'[x] = Vars[x]) \/ AssignedHere(x)
<1>1. CASE UNCHANGED vars
  BY <1>1 DEF vars, evaluation, history, LocalsInv
<1>2. CASE Assign
  BY <1>2, AssignLocals
<1>3. CASE Next /\ ~Assign
  <2>1. LocalsInv' /\ UNCHANGED Vars
    BY <1>3, ExpressionLocals, CloseCallLocals, OthersLocals DEF Next
  <2> QED BY <2>1
<1> QED BY <1>1, <1>2, <1>3

(* A local variable keeps its value until it is assigned, unless it was    *)
(* assigned a bare field or element (rule context variables,               *)
(* data_context.go).                                                       *)
THEOREM LocalsKeepTheirValue == Spec => LocalsOwnTheirValue
<1>1. Init => LocalsInv
  BY EmptyStack DEF Init, LocalsInv
<1>2. TypedInv /\ LocalsInv /\ [Next]_vars => LocalsInv'
  BY LocalsStep
<1>3. TypedInv /\ LocalsInv /\ [Next]_vars =>
        [\A x \in DOMAIN Vars \ bare :
           Load(Vars[x])' = Load(Vars[x]) \/ (stmt.kind = "assign" /\ Local(stmt) /\ stmt.name[1] = x)]_vars
  <2> SUFFICES ASSUME TypedInv, LocalsInv, [Next]_vars, NEW x \in DOMAIN Vars \ bare, ~AssignedHere(x)
               PROVE  Load(Vars[x])' = Load(Vars[x])
    BY DEF AssignedHere
  <2>1. PICK r : r = Vars[x]
    OBVIOUS
  <2>2. Steady(r)
    BY <2>1 DEF LocalsInv
  <2>3. Load(r)' = Load(r)
    BY <2>2, MemKept, SteadyKept
  <2>4. Vars'[x] = r
    BY <2>1, LocalsStep
  <2> QED BY <2>1, <2>3, <2>4
<1> QED BY <1>1, <1>2, <1>3, AlwaysTyped, PTL DEF Spec, LocalsOwnTheirValue

-----------------------------------------------------------------------------
(* Conversions of what the target holds *)

(* What it is to be the same *)
LEMMA SameFacts ==
  ASSUME NEW v, NEW w
  PROVE  Same(v, w) <=> IF v.kind \in Numbers /\ w.kind \in Numbers THEN Units(v) = Units(w)
                        ELSE v.s = w.s /\ (v.n = w.n \/ (IsString(v) /\ IsString(w)))
BY DEF Same, Units

(* Everything is the same as itself. *)
LEMMA SameReflexive == \A v : Same(v, v)
BY SameFacts

(* What fits an unsigned kind fits uint64. *)
LEMMA WiderUnsigned ==
  ASSUME NEW k \in Unsigned, NEW n \in Int, Fits(k, n)
  PROVE  Fits("uint64", n)
<1>1. k \in Whole /\ k \notin Signed /\ "uint64" \in Whole /\ "uint64" \notin Signed
  BY DEF Whole, Unsigned, Signed
<1>2. Size[k] \in Nat \ {0} /\ Size["uint64"] \in Nat \ {0} /\ Size["uint64"] % Size[k] = 0
  BY <1>1, Sizes, ValueConstants DEF Whole
<1>3. \A s, t \in Nat \ {0} : t % s = 0 => s <= t
  BY SMT
<1>4. Size[k] <= Size["uint64"]
  BY <1>2, <1>3
<1> QED BY <1>1, <1>2, <1>4 DEF Fits

(* Dividing what is a multiple is exact, towards zero or not. *)
LEMMA QuoExact ==
  ASSUME NEW n \in Int, n % Unit = 0
  PROVE  n \div Unit \in Int /\ Quo(n, Unit) = n \div Unit /\ (n \div Unit) * Unit = n
<1>1. PICK u \in Nat \ {0} : u = Unit
  BY UnitFacts
<1>2. PICK q \in Int : q = n \div u
  BY <1>1
<1>3. n = u * q
  BY <1>1, <1>2
<1>4. Abs(u) = u /\ ~(u < 0)
  BY <1>1 DEF Abs
<1>5. CASE n >= 0
  <2>1. Quo(n, u) # -(Abs(n) \div u) => Quo(n, u) = Abs(n) \div u
    BY <1>4 DEF Quo
  <2>2. Abs(n) = n /\ (n < 0) = (u < 0)
    BY <1>4, <1>5 DEF Abs
  <2>3. Quo(n, u) = n \div u
    BY <1>4, <2>2 DEF Quo
  <2> QED BY <1>1, <1>2, <1>3, <2>3
<1>6. CASE n < 0
  <2>1. Abs(n) = u * (-q) /\ -q \in Int
    BY <1>3, <1>6 DEF Abs
  <2>2. (u * (-q)) \div u = -q
    BY <1>1, <2>1, SMT
  <2>3. Quo(n, u) = -(Abs(n) \div u)
    BY <1>4, <1>6 DEF Quo
  <2>4. Quo(n, u) = q
    BY <1>2, <2>1, <2>2, <2>3
  <2> QED BY <1>1, <1>2, <1>3, <2>4
<1> QED BY <1>5, <1>6

(* A number that the new kind holds is converted to the same number. *)
LEMMA NumbersOfSame ==
  ASSUME NEW k \in Numbers, NEW v, Sound(v), v.kind \in Numbers, Holds(k, v), NEW w \in NumbersOf(k, v)
  PROVE  Units(w) = Units(v) /\ w.kind = k
<1>1. v.n \in Int
  BY AsFloatType
<1>2. CASE k \in Floats
  <2>1. w = Num(k, Round(k, AsFloat(v), 1)) /\ w.kind = k
    BY <1>2, Results DEF NumbersOf
  <2>2. Same(v, w)
    BY <1>2, <2>1 DEF Holds
  <2> QED BY <2>1, <2>2, SameFacts
<1>3. CASE k \notin Floats /\ v.kind \in Floats
  <2>1. k \in Whole
    BY <1>3, KindFacts
  <2>2. v.n % Unit = 0 /\ Fits(k, v.n \div Unit)
    BY <1>3 DEF Holds
  <2>3. PICK q \in Int : q = v.n \div Unit /\ Quo(v.n, Unit) = q /\ q * Unit = v.n
    BY <1>1, <2>2, QuoExact
  <2>4. PICK j : j = IF k \in Signed THEN "int64" ELSE "uint64"
    OBVIOUS
  <2>5. Fits(j, q)
    BY <2>1, <2>2, <2>3, <2>4, Narrower, WiderUnsigned DEF Whole
  <2>6. Truncated(j, v.n) = {q}
    BY <2>3, <2>5 DEF Truncated
  <2>7. w \in Ints(k, {q})
    BY <1>3, <2>4, <2>6 DEF NumbersOf
  <2>8. w = Num(k, q)
    BY <2>1, <2>2, <2>3, <2>7, WrapFits DEF Ints, Whole
  <2>9. w.kind = k /\ w.n = q
    BY <2>8, Results
  <2> QED BY <1>3, <2>3, <2>9 DEF Units
<1>4. CASE k \notin Floats /\ v.kind \notin Floats
  <2>1. k \in Whole
    BY <1>4, KindFacts
  <2>2. Fits(k, v.n)
    BY <1>4 DEF Holds
  <2>3. w \in Ints(k, {v.n})
    BY <1>4 DEF NumbersOf
  <2>4. w = Num(k, v.n)
    BY <1>1, <2>1, <2>2, <2>3, WrapFits DEF Ints, Whole
  <2> QED BY <1>4, <2>4, Results DEF Units
<1> QED BY <1>2, <1>3, <1>4

(* Whatever conversion a value that its target holds goes through, it is   *)
(* the same.                                                               *)
LEMMA SingleSame ==
  ASSUME NEW k, NEW v, Sound(v), Holds(k, v), NEW w \in SetSingleValue(k, v), ~Failed(w)
  PROVE  Same(w, v)
<1>1. CASE v.kind = k
  BY <1>1, SameReflexive DEF SetSingleValue
<1>2. CASE v.kind # k
  <2>1. w \notin Failures
    BY Failing
  <2>2. k \in Numbers /\ v.kind \in Numbers /\ w \in NumbersOf(k, v)
    BY <1>2, <2>1, ClassNumber DEF SetSingleValue, Failures
  <2> QED BY <2>2, NumbersOfSame, SameFacts
<1> QED BY <1>1, <1>2

(* A text field holds texts. *)
LEMMA HoldsText ==
  ASSUME NEW v, Holds("string", v)
  PROVE  IsString(v)
BY KindFacts DEF Holds

(* A value that a field holds is the same after it was stored there. *)
LEMMA AttributeSame ==
  ASSUME NEW k, NEW v, Sound(v), Holds(k, v), NEW w \in SetAttributeValue(k, v), ~Failed(w)
  PROVE  Same(w, v)
<1>1. w # Panic /\ w # Error
  BY Failing
<1>2. CASE k = "string"
  <2>1. IsString(v)
    BY <1>2, HoldsText
  <2>2. w = Str(v.s)
    BY <1>1, <1>2, <2>1 DEF SetAttributeValue
  <2>3. w.s = v.s /\ IsString(w) /\ w.kind \notin Numbers
    BY <2>2, KindFacts DEF Str, Value, IsString
  <2> QED BY <2>1, <2>3, SameFacts
<1>3. CASE k = "interface"
  <2>1. w = Value(k, v.n, v.s)
    BY <1>1, <1>3 DEF SetAttributeValue
  <2>2. w.n = v.n /\ w.s = v.s /\ w.kind \notin Numbers
    BY <1>3, <2>1, KindFacts DEF Value
  <2> QED BY <2>2, SameFacts
<1>4. CASE k = "bool"
  BY <1>1, <1>4, SameReflexive DEF SetAttributeValue
<1>5. CASE k \notin {"string", "interface", "bool"}
  <2>1. k \in Numbers /\ v.kind \in Numbers /\ w \in NumbersOf(k, v)
    BY <1>1, <1>5 DEF SetAttributeValue
  <2> QED BY <2>1, NumbersOfSame, SameFacts
<1> QED BY <1>2, <1>3, <1>4, <1>5

(* A value that an element holds is the same after it was stored there. *)
LEMMA WantedSame ==
  ASSUME NEW k, NEW v, Sound(v), Holds(k, v), NEW w \in Wanted(v, k), ~Failed(w)
  PROVE  Same(w, v) /\ w.kind = k
<1>1. w # Panic
  BY Failing
<1>2. PICK x \in GetWantedValue(v, k) : Assignable(x, k) /\ w = Value(k, x.n, x.s)
  BY <1>1 DEF Wanted
<1>3. w.kind = k /\ w.n = x.n /\ w.s = x.s
  BY <1>2 DEF Value
<1>4. CASE x = v
  <2>1. CASE k \in Numbers
    <3>1. v.kind = k
      BY <1>2, <1>4, <2>1, KindFacts DEF Assignable
    <3> QED BY <1>3, <1>4, <2>1, <3>1, SameFacts DEF Units
  <2>2. CASE k \notin Numbers
    BY <1>3, <1>4, <2>2, SameFacts
  <2> QED BY <1>3, <2>1, <2>2
<1>5. CASE x # v
  <2>1. k \in Numbers
    BY <1>5 DEF GetWantedValue
  <2>2. x.kind = k
    BY <1>2, <2>1, KindFacts DEF Assignable
  <2>3. x # Panic
    BY <2>1, <2>2, NotNumbers, KindFacts
  <2>4. v.kind \in Numbers /\ x \in NumbersOf(k, v)
    BY <1>5, <2>1, <2>3, SortFacts DEF GetWantedValue
  <2>5. Units(x) = Units(v)
    BY <2>1, <2>4, NumbersOfSame
  <2>6. Units(w) = Units(x)
    BY <1>3, <2>2 DEF Units
  <2> QED BY <1>3, <2>1, <2>4, <2>5, <2>6, SameFacts
<1> QED BY <1>4, <1>5

-----------------------------------------------------------------------------
(* What was stored is where it is read *)

(* A name stands for the same while the locals are not assigned. *)
LEMMA NamesKept ==
  ASSUME UNCHANGED Vars, NEW name
  PROVE  GetValue(name)' = GetValue(name) /\ Container(name)' = Container(name)
<1>1. \A a : Root(a)' = Root(a)
  BY DEF Root
<1>2. \A r, f : GetStructAttributeValue(r, f)' = GetStructAttributeValue(r, f)
  BY DEF GetStructAttributeValue
<1>3. GetValue(name)' = GetValue(name)
  <2>1. Len(name) = 1 => GetValue(name) = Root(name[1]) /\ GetValue(name)' = Root(name[1])'
    BY DEF GetValue
  <2>2. Len(name) = 2 => /\ GetValue(name) = GetStructAttributeValue(Root(name[1]), name[2])
                         /\ GetValue(name)' = GetStructAttributeValue(Root(name[1])', name[2])
    BY DEF GetValue, GetStructAttributeValue
  <2>3. Len(name) = 3 =>
          /\ GetValue(name) = GetStructAttributeValue(GetStructAttributeValue(Root(name[1]), name[2]), name[3])
          /\ GetValue(name)' = GetStructAttributeValue(GetStructAttributeValue(Root(name[1])', name[2]), name[3])
    BY DEF GetValue, GetStructAttributeValue
  <2>4. Len(name) \notin {1, 2, 3} => GetValue(name) = Own(Error) /\ GetValue(name)' = Own(Error)
    BY DEF GetValue
  <2> QED BY <1>1, <2>1, <2>2, <2>3, <2>4
<1>4. \A x : Deref(x)' = Deref(x)
  BY DEF Deref
<1>5. Container(name)' = Deref(GetValue(name)')
  BY DEF Container, Deref
<1> QED BY <1>3, <1>5 DEF Container

(* An outcome that is no failure is of a value that is none. *)
LEMMA OutcomeFacts ==
  ASSUME NEW w, NEW m
  PROVE  Outcome(w, m).fail = Invalid => ~Failed(w) /\ Outcome(w, m).mem = m
<1>1. CASE Failed(w)
  <2>1. Outcome(w, m).fail = w
    BY <1>1 DEF Outcome
  <2> QED BY <1>1, <2>1, NotNumbers DEF Failed
<1>2. CASE ~Failed(w)
  BY <1>2 DEF Outcome, Stored
<1> QED BY <1>1, <1>2

(* A failure is not the outcome of success. *)
LEMMA FailsFail ==
  ASSUME NEW v, NEW o \in Fails(v), o.fail = Invalid
  PROVE  v = Invalid
BY DEF Fails

(* Nor is it nothing. *)
LEMMA NotInvalid == Panic # Invalid /\ Error # Invalid /\ \A v : Failed(v) => v # Invalid
BY NotNumbers DEF Failed

(* What was assigned is now at the target, converted. *)
Reached(t, v) ==
  \E x, w :
    /\ Deref(Read(t))' = x /\ Load(x)' = w
    /\ ~Failed(w)
    /\ w \in SetSingleValue(Kind(x), v) \cup SetAttributeValue(Kind(x), v) \cup Wanted(v, Kind(x))

(* What a cell was given is read of it. *)
LEMMA CellRead ==
  ASSUME MemOK(mem), NEW p \in Cells, Objects[p].kind \notin Containers, NEW w, mem' = [mem EXCEPT ![p] = w]
  PROVE  Load(Object(p))' = w
<1>1. p \in DOMAIN Objects
  BY CellsAreObjects
<1>3. mem'[p] = w
  BY DEF MemOK
<1>4. PICK r : r = Object(p)
  OBVIOUS
<1>5. Load(r)' = mem'[p]
  <2>0. r.at = <<p>> /\ r.v.kind = Objects[p].kind
    BY <1>1, <1>4, ObjectFacts
  <2>1. r.at # <<>> /\ Len(r.at) = 1 /\ r.at[1] = p /\ r.v.kind \notin Containers
    BY <2>0
  <2> QED BY <2>1 DEF Load, Content, Kind
<1>6. Object(p)' = r
  BY <1>4 DEF Object
<1> QED BY <1>3, <1>4, <1>5, <1>6

(* A store through a pointer reaches what the name stands for. *)
LEMMA PointerReached ==
  ASSUME DataOK, NEW t, t.key = NoKey, Len(t.name) = 1, t.name[1] \in DOMAIN Base, NEW r, Ref(mem, r),
         Kind(r) \notin Containers, NEW o \in Store(t, r), o.fail = Invalid, mem' = o.mem, UNCHANGED Vars
  PROVE  Reached(t, Load(r))
<1>1. PICK p : p = Root(t.name[1])
  OBVIOUS
<1>2. PICK v : v = Load(r) /\ v.kind \notin Containers
  BY LoadSound DEF DataOK
<1>3. Deref(r) = r
  BY DEF Deref, Containers
<1>4. o \in SetPointer(p, v)
  BY <1>1, <1>2, <1>3 DEF Store, SetValue
<1>5. Kind(p) = "ptr" /\ o \in Into(<<Of(p).elem>>, SetSingleValue(Objects[Of(p).elem].kind, v))
  BY <1>4, FailsFail, NotInvalid DEF SetPointer
<1>6. PICK y : y = Of(p).elem
  OBVIOUS
<1>7. y \in DOMAIN Objects
  <2>1. PICK x \in DOMAIN Objects : Objects[x].kind = "ptr" /\ Of(p) = Objects[x]
    BY <1>1, <1>5, RootRef, ContainersAreObjects DEF Containers, DataOK
  <2> QED BY <1>6, <2>1, Declared DEF LeadsTo
<1>8. PICK w \in SetSingleValue(Objects[y].kind, v) : o = Outcome(w, [mem EXCEPT ![y] = w])
  BY <1>5, <1>6 DEF Into
<1>9. ~Failed(w) /\ o.mem = [mem EXCEPT ![y] = w]
  BY <1>8, OutcomeFacts
<1>10. Objects[y].kind \notin Containers /\ y \in Cells
  <2>1. Objects[y].kind \notin Containers
    BY <1>2, <1>8, <1>9, SingleOfContainer
  <2> QED BY <1>7, <2>1, ObjectFacts DEF Containers
<1>11. Deref(Read(t))' = Object(y)
  <2>1. GetValue(t.name) = p
    BY <1>1 DEF GetValue
  <2>2. Read(t)' = GetValue(t.name)'
    BY DEF Read
  <2>3. Read(t)' = p
    BY <2>1, <2>2, NamesKept
  <2>4. Deref(Read(t))' = Deref(Read(t)')
    BY DEF Deref
  <2> QED BY <1>5, <1>6, <2>3, <2>4 DEF Deref
<1>12. Load(Object(y))' = w
  BY <1>9, <1>10, CellRead DEF DataOK
<1>13. PICK x : x = Object(y)
  OBVIOUS
<1>14. Object(y)' = x
  BY <1>13 DEF Object
<1>15. Load(x)' = w /\ Kind(x) = Objects[y].kind
  BY <1>7, <1>12, <1>13, <1>14, ObjectFacts
<1>16. w \in SetSingleValue(Kind(x), Load(r))
  BY <1>2, <1>8, <1>15
<1> QED BY <1>9, <1>11, <1>13, <1>15, <1>16 DEF Reached

(* A store in a field reaches what the name stands for. *)
LEMMA FieldReached ==
  ASSUME DataOK, NEW t, t.key = NoKey, t.name \in Seq(STRING) \ {<<>>}, Len(t.name) \in {2, 3}, NEW r, Ref(mem, r),
         NEW o \in Store(t, r), o.fail = Invalid, mem' = o.mem, UNCHANGED Vars
  PROVE  Reached(t, Load(r))
<1>1. PICK N \in Seq(STRING) \ {<<>>} : N = t.name
  OBVIOUS
<1>2. PICK obj : obj = GetValue(Front(N))
  OBVIOUS
<1>3. PICK field : field = GetValue(N)
  OBVIOUS
<1>4. field = GetStructAttributeValue(obj, N[Len(N)]) /\ Ref(mem, obj) /\ Ref(mem, Deref(obj))
  BY <1>1, <1>2, <1>3, Names, GetValueRef, DerefRef DEF DataOK
<1>5. PICK v : v = Load(r)
  OBVIOUS
<1>6. o \in SetField(obj, field, v)
  BY <1>1, <1>2, <1>3, <1>5 DEF Store, SetValue
<1>7. /\ ~Failed(obj.v) /\ Kind(Deref(obj)) = "struct" /\ field.v # Invalid
      /\ o \in Into(field.at, SetAttributeValue(Kind(field), v))
  BY <1>6, FailsFail, NotInvalid DEF SetField
<1>8. PICK p \in DOMAIN Objects : field = Object(p)
  BY <1>4, <1>7, FieldByNameRef DEF GetStructAttributeValue, DataOK, Own
<1>9. field.at = <<p>> /\ Kind(field) = Objects[p].kind
  BY <1>8, ObjectFacts
<1>10. PICK w \in SetAttributeValue(Objects[p].kind, v) : o = Outcome(w, [mem EXCEPT ![p] = w])
  BY <1>7, <1>9 DEF Into
<1>11. ~Failed(w) /\ o.mem = [mem EXCEPT ![p] = w]
  BY <1>10, OutcomeFacts
<1>12. Objects[p].kind \notin Containers /\ p \in Cells
  <2>1. Objects[p].kind \notin Containers
    BY <1>10, <1>11, AttributeOfContainer
  <2> QED BY <2>1, ObjectFacts DEF Containers
<1>13. Deref(Read(t))' = field
  <2>1. Read(t)' = GetValue(t.name)'
    BY DEF Read
  <2>2. Read(t)' = field
    BY <1>1, <1>3, <2>1, NamesKept
  <2>3. Deref(Read(t))' = Deref(Read(t)')
    BY DEF Deref
  <2>4. Kind(field) # "ptr"
    BY <1>9, <1>12 DEF Containers
  <2> QED BY <2>2, <2>3, <2>4 DEF Deref
<1>14. Load(field)' = w
  <2>1. Load(Object(p))' = w
    BY <1>11, <1>12, CellRead DEF DataOK
  <2>2. Object(p)' = field
    BY <1>8 DEF Object
  <2> QED BY <2>1, <2>2
<1> QED BY <1>5, <1>9, <1>10, <1>11, <1>13, <1>14 DEF Reached

(* Elements: where containers alone are written, keys stay what they are. *)
ScalarsKept == \A p \in Cells : Objects[p].kind \notin Containers => mem'[p] = mem[p]

(* Then what is no window is read as before. *)
LEMMA ObjectLoadKept ==
  ASSUME DataOK, ScalarsKept, NEW r, r.at = <<>> \/ IsObject(r) \/ Kind(r) \in Containers
  PROVE  Load(r)' = Load(r)
<1>1. CASE r.at = <<>> \/ Kind(r) \in Containers
  BY <1>1 DEF Load, Kind
<1>2. CASE ~(r.at = <<>> \/ Kind(r) \in Containers)
  <2>1. PICK p \in DOMAIN Objects : r = Object(p)
    BY <1>2 DEF IsObject
  <2>2. r.at = <<p>> /\ Kind(r) = Objects[p].kind
    BY <2>1, ObjectFacts
  <2>3. p \in Cells /\ mem'[p] = mem[p]
    BY <1>2, <2>2, ObjectFacts DEF Containers, ScalarsKept
  <2>4. Load(r) = mem[p]
    BY <1>2, <2>2 DEF Load, Content
  <2>5. Load(r)' = mem'[p]
    BY <1>2, <2>2 DEF Load, Content, Kind
  <2> QED BY <2>3, <2>4, <2>5
<1> QED BY <1>1, <1>2

(* A field is no window. *)
LEMMA FieldsAreObjects ==
  ASSUME DataOK, NEW x, Ref(mem, x), NEW f, NEW r, r = GetStructAttributeValue(x, f)
  PROVE  r.at = <<>> \/ IsObject(r)
<1>1. CASE Failed(x.v)
  <2>1. ~IsObject(x)
    BY <1>1, ObjectFacts DEF IsObject
  <2>2. ~IsWindow(mem, x)
    <3>1. SUFFICES ASSUME IsWindow(mem, x) PROVE FALSE
      OBVIOUS
    <3>2. Kind(x) \in Scalars
      BY <3>1, Windows DEF IsWindow, DataOK
    <3> QED BY <1>1, <3>2, Kinds DEF Failed, Kind
  <2>3. x.at = <<>> /\ r = x
    BY <1>1, <2>1, <2>2 DEF Ref, IsOwn, Own, GetStructAttributeValue
  <2> QED BY <2>3
<1>2. CASE ~Failed(x.v)
  <2>1. r = FieldByName(Deref(x), f) /\ Ref(mem, Deref(x))
    BY <1>2, DerefRef DEF GetStructAttributeValue, DataOK
  <2>2. CASE Kind(Deref(x)) = "struct"
    BY <2>1, <2>2, FieldByNameRef DEF DataOK, IsObject, Own
  <2>3. CASE Kind(Deref(x)) # "struct"
    BY <2>1, <2>3 DEF FieldByName, Own
  <2> QED BY <2>2, <2>3
<1> QED BY <1>1, <1>2

(* The key of an element is the same after the store, unless it is a       *)
(* window.                                                                 *)
LEMMA KeyKept ==
  ASSUME DataOK, LocalsInv, ScalarsKept, UNCHANGED Vars, NEW key, Legal(key),
         ~(key.form = "var" /\ key.name[1] \in bare)
  PROVE  GivenKey(key)' = GivenKey(key)
<1>1. CASE key.form # "var"
  BY <1>1 DEF GivenKey, Legal
<1>2. CASE key.form = "var"
  <2>1. PICK N : N = key.name
    OBVIOUS
  <2>2. PICK r : r = GetValue(N)
    OBVIOUS
  <2>3. r.at = <<>> \/ IsObject(r) \/ Kind(r) \in Containers
    <3>1. CASE Len(N) = 1
      <4>1. r = Root(N[1]) /\ N[1] \notin bare
        BY <1>2, <2>1, <2>2, <3>1 DEF GetValue
      <4>2. CASE N[1] \in DOMAIN Base
        <5>1. Base[N[1]] \in DOMAIN Objects
          BY <4>2, Declared
        <5> QED BY <4>1, <4>2, <5>1 DEF Root, IsObject
      <4>3. CASE N[1] \notin DOMAIN Base /\ N[1] \in DOMAIN Vars
        <5>1. Steady(r)
          BY <4>1, <4>3 DEF Root, LocalsInv
        <5> QED BY <5>1, CellsAreObjects DEF Steady, IsObject
      <4>4. CASE N[1] \notin DOMAIN Base /\ N[1] \notin DOMAIN Vars
        BY <4>1, <4>4 DEF Root, Own
      <4> QED BY <4>2, <4>3, <4>4
    <3>2. CASE Len(N) = 2
      <4>1. r = GetStructAttributeValue(Root(N[1]), N[2])
        BY <2>2, <3>2 DEF GetValue
      <4> QED BY <4>1, RootRef, FieldsAreObjects
    <3>3. CASE Len(N) = 3
      <4>1. PICK x : x = GetStructAttributeValue(Root(N[1]), N[2])
        OBVIOUS
      <4>2. r = GetStructAttributeValue(x, N[3])
        BY <2>2, <3>3, <4>1 DEF GetValue
      <4>3. Ref(mem, x)
        BY <4>1, RootRef, AttributeRef DEF DataOK
      <4> QED BY <4>2, <4>3, FieldsAreObjects
    <3>4. CASE Len(N) \notin {1, 2, 3}
      BY <2>2, <3>4 DEF GetValue, Own
    <3> QED BY <3>1, <3>2, <3>3, <3>4
  <2>4. Load(r)' = Load(r)
    BY <2>3, ObjectLoadKept
  <2>5. GivenKey(key) = Load(r)
    BY <1>2, <2>1, <2>2 DEF GivenKey
  <2>6. GetValue(N)' = r
    BY <2>2, NamesKept
  <2>7. Load(GetValue(N))' = Load(r)'
    BY <2>6 DEF Load, Kind
  <2>8. GivenKey(key)' = Load(GetValue(N))'
    BY <1>2, <2>1 DEF GivenKey
  <2> QED BY <2>4, <2>5, <2>7, <2>8
<1> QED BY <1>1, <1>2

-----------------------------------------------------------------------------
(* Elements *)

(* Writing one container changes no scalar. *)
LEMMA ContainerOnly ==
  ASSUME MemOK(mem), NEW p \in Cells, Objects[p].kind \in Containers, NEW x, mem' = [mem EXCEPT ![p] = x]
  PROVE  ScalarsKept /\ mem'[p] = x
<1>1. mem'[p] = x /\ \A c \in Cells : c # p => mem'[c] = mem[c]
  BY DEF MemOK
<1> QED BY <1>1 DEF ScalarsKept

(* A store in a map reaches the entry the same key is read by. *)
LEMMA EntryReached ==
  ASSUME DataOK, LocalsInv, UNCHANGED Vars,
         NEW t, Legal(t.key), t.key # NoKey, ~(t.key.form = "var" /\ t.key.name[1] \in bare),
         NEW p \in Cells, Objects[p].kind = "map", Container(t.name) = Object(p),
         NEW v, v # Invalid, NEW o, o \in SetElementOf(Object(p), t.key, v), o.fail = Invalid, mem' = o.mem
  PROVE  Reached(t, v)
<1>0. MemOK(mem)
  BY DEF DataOK
<1>1. PICK key : key = t.key
  OBVIOUS
<1>2. PICK k : k = GivenKey(key) /\ Sound(k)
  BY <1>1, GivenKeySound
<1>3. PICK e : e = MapKey(p, k)
  OBVIOUS
<1>4. PICK c : c = Object(p) /\ Kind(c) = "map" /\ ~Failed(c.v) /\ c.at[1] = p
  <2>1. p \in DOMAIN Objects
    BY CellsAreObjects
  <2>2. Kind(Object(p)) = "map" /\ ~Failed(Object(p).v) /\ Object(p).at = <<p>>
    BY <2>1, ObjectFacts
  <2> QED BY <2>2
<1>5. o \in SetMapIndex(p, e, v)
  BY <1>1, <1>2, <1>3, <1>4 DEF SetElementOf
<1>6. ~Failed(e.v)
  BY <1>5, FailsFail, NotInvalid DEF SetMapIndex
<1>7. PICK i : e.at = <<p, i>>
  BY <1>2, <1>3, <1>6, MapKeyFacts
<1>8. PICK w \in Wanted(v, Objects[p].elem) : o = Outcome(w, [mem EXCEPT ![p] = Entered(mem[p], i, w)])
  BY <1>5, <1>6, <1>7 DEF SetMapIndex
<1>9. ~Failed(w) /\ mem' = [mem EXCEPT ![p] = Entered(mem[p], i, w)]
  BY <1>8, OutcomeFacts
<1>10. ScalarsKept /\ mem'[p] = Entered(mem[p], i, w)
  BY <1>0, <1>9, ContainerOnly DEF Containers
<1>11. i \in DOMAIN mem'[p] /\ mem'[p][i] = w
  BY <1>10 DEF Entered
<1>12. GivenKey(key)' = k
  BY <1>1, <1>2, <1>10, KeyKept
<1>13. EntryCopied(e)' = Own(w)
  <2>1. e.at[1] = p /\ e.at[2] = i /\ Len(e.at) # 1
    BY <1>7
  <2>2. EntryCopied(e)' = Own(Content(e.at))'
    BY <1>6, <1>11, <2>1 DEF EntryCopied
  <2>3. Content(e.at)' = w
    BY <1>11, <2>1 DEF Content
  <2> QED BY <2>2, <2>3 DEF Own
<1>14. Read(t)' = Own(w)
  <2>1. Container(t.name)' = c
    BY <1>4, NamesKept
  <2>2. Read(t)' = ElementOf(Container(t.name), key)'
    BY <1>1 DEF Read, MapVarEvaluate
  <2>3. ElementOf(Container(t.name), key)' = ElementOf(c, key)'
    BY <2>1 DEF ElementOf, Kind
  <2>4. ElementOf(c, key)' = EntryCopied(MapKey(p, GivenKey(key)))'
    BY <1>4 DEF ElementOf, Kind, Failed
  <2>5. MapKey(p, GivenKey(key))' = e
    BY <1>3, <1>12
  <2>6. EntryCopied(MapKey(p, GivenKey(key)))' = EntryCopied(e)'
    BY <2>5 DEF EntryCopied
  <2> QED BY <1>13, <2>2, <2>3, <2>4, <2>6
<1>15. PICK x : x = Own(w)
  OBVIOUS
<1>16. Kind(x) = w.kind /\ w.kind = Objects[p].elem /\ w.kind # "ptr" /\ Load(x)' = w
  <2>1. w # Panic
    BY <1>9, Failing
  <2>2. w.kind = Objects[p].elem
    BY <1>8, <2>1 DEF Wanted, Value
  <2>3. w.kind # "ptr"
    BY <2>2, CellsAreObjects, ObjectFacts, Kinds
  <2>4. Kind(x) = w.kind /\ x.at = <<>> /\ x.v = w
    BY <1>15 DEF Own, Kind
  <2> QED BY <2>2, <2>3, <2>4 DEF Load
<1>17. Deref(Read(t))' = x
  <2>1. Deref(Read(t))' = Deref(Read(t)')
    BY DEF Deref
  <2> QED BY <1>14, <1>15, <1>16, <2>1 DEF Deref
<1> QED BY <1>8, <1>9, <1>16, <1>17 DEF Reached

(* A store in a slice or an array reaches the element the same index is    *)
(* read by.                                                                *)
LEMMA IndexReached ==
  ASSUME DataOK, LocalsInv, UNCHANGED Vars,
         NEW t, Legal(t.key), t.key # NoKey, ~(t.key.form = "var" /\ t.key.name[1] \in bare),
         NEW p \in Cells, Sequential(p), Container(t.name) = Object(p),
         NEW v, NEW o, o \in SetElementOf(Object(p), t.key, v), o.fail = Invalid, mem' = o.mem
  PROVE  Reached(t, v)
<1>0. MemOK(mem)
  BY DEF DataOK
<1>1. PICK key : key = t.key
  OBVIOUS
<1>2. PICK k : k = GivenKey(key) /\ Sound(k)
  BY <1>1, GivenKeySound
<1>3. PICK e : e = Index(p, k, Literal(key))
  OBVIOUS
<1>4. PICK c : c = Object(p) /\ Kind(c) = Objects[p].kind /\ ~Failed(c.v) /\ c.at[1] = p /\ Of(c) = Objects[p]
  <2>1. p \in DOMAIN Objects
    BY CellsAreObjects
  <2>2. Kind(Object(p)) = Objects[p].kind /\ ~Failed(Object(p).v) /\ Object(p).at = <<p>> /\ Of(Object(p)) = Objects[p]
    BY <2>1, ObjectFacts
  <2> QED BY <2>2
<1>5. o \in SetIndex(c, e, v)
  BY <1>1, <1>2, <1>3, <1>4 DEF SetElementOf, Sequential
<1>6. ~Failed(e.v) /\ o \in Into(e.at, Wanted(v, Objects[p].elem))
  BY <1>4, <1>5, FailsFail, NotInvalid DEF SetIndex
<1>7. PICK i \in DOMAIN mem[p] : e = [v |-> Num(Objects[p].elem, 0), at |-> <<p, i>>]
  BY <1>0, <1>2, <1>3, <1>6, IndexFacts
<1>8. Kind(e) = Objects[p].elem /\ Kind(e) \notin Containers /\ e.at = <<p, i>> /\ e.at # <<>>
  BY <1>0, <1>7, Windows
<1>9. PICK w \in Wanted(v, Objects[p].elem) : o = Outcome(w, [mem EXCEPT ![p][i] = w])
  BY <1>6, <1>8 DEF Into
<1>10. ~Failed(w) /\ mem' = [mem EXCEPT ![p][i] = w]
  BY <1>9, OutcomeFacts
<1>11. DOMAIN mem'[p] = DOMAIN mem[p] /\ mem'[p][i] = w /\ \A q \in Cells : q # p => mem'[q] = mem[q]
  BY <1>0, <1>10 DEF MemOK
<1>12. ScalarsKept
  BY <1>11 DEF ScalarsKept, Sequential, Containers
<1>13. GivenKey(key)' = k
  BY <1>1, <1>2, <1>12, KeyKept
<1>14. Read(t)' = e
  <2>1. Container(t.name)' = c
    BY <1>4, NamesKept
  <2>2. Read(t)' = ElementOf(Container(t.name), key)'
    BY <1>1 DEF Read, MapVarEvaluate
  <2>3. ElementOf(Container(t.name), key)' = ElementOf(c, key)'
    BY <2>1 DEF ElementOf, Kind
  <2>4. ElementOf(c, key)' = Index(p, GivenKey(key), Literal(key))'
    BY <1>4 DEF ElementOf, Kind, Failed, Sequential
  <2>5. Index(p, GivenKey(key), Literal(key))' = Index(p, k, Literal(key))
    BY <1>11, <1>13 DEF Index
  <2> QED BY <1>3, <2>2, <2>3, <2>4, <2>5
<1>15. Load(e)' = w
  <2>1. Len(e.at) # 1 /\ e.at[1] = p /\ e.at[2] = i
    BY <1>8
  <2> QED BY <1>8, <1>11, <2>1 DEF Load, Content, Kind
<1>16. Deref(Read(t))' = e
  <2>1. Deref(Read(t))' = Deref(Read(t)')
    BY DEF Deref
  <2>2. Kind(e) # "ptr"
    BY <1>8 DEF Containers
  <2> QED BY <1>14, <2>1, <2>2 DEF Deref
<1> QED BY <1>8, <1>9, <1>10, <1>15, <1>16 DEF Reached

(* A store that did not fail, but for a local variable, reached its target. *)
LEMMA StoreReached ==
  ASSUME DataOK, LocalsInv, UNCHANGED Vars, NEW t, t.name \in Seq(STRING) \ {<<>>}, t.key = NoKey \/ Legal(t.key),
         ~Local(t), NEW r, Ref(mem, r), Kind(r) \notin Containers, NEW v, v = Load(r),
         ~(t.key.form = "var" /\ t.key.name[1] \in bare), ~(t.key # NoKey /\ v = Invalid),
         NEW o \in Store(t, r), o.fail = Invalid, mem' = o.mem
  PROVE  Reached(t, v)
<1>1. CASE t.key = NoKey
  <2>1. PICK N \in Seq(STRING) \ {<<>>} : N = t.name
    OBVIOUS
  <2>2. PICK n \in Nat \ {0} : n = Len(N)
    OBVIOUS
  <2>3. CASE n = 1
    <3>1. t.name[1] \in DOMAIN Base
      BY <1>1, <2>1, <2>2, <2>3 DEF Local
    <3> QED BY <1>1, <2>1, <2>2, <2>3, <3>1, PointerReached
  <2>4. CASE n \in {2, 3}
    BY <1>1, <2>1, <2>2, <2>4, FieldReached
  <2>5. CASE n > 3
    <3>1. SetValue(N, r) = Fails(Error)
      BY <2>2, <2>5 DEF SetValue
    <3> QED BY <1>1, <2>1, <3>1, FailsFail, NotInvalid DEF Store
  <2>6. n = 1 \/ n \in {2, 3} \/ n > 3
    BY SMT
  <2> QED BY <2>3, <2>4, <2>5, <2>6
<1>2. CASE t.key # NoKey
  <2>1. PICK c : c = Container(t.name)
    OBVIOUS
  <2>2. o \in SetElementOf(c, t.key, v) /\ Ref(mem, c)
    BY <1>2, <2>1, GetValueRef, DerefRef DEF Store, SetMapVarValue, Container, DataOK
  <2>3. CASE Kind(c) \in {"map", "slice", "array"}
    <3>1. PICK p \in DOMAIN Objects : c = Object(p) /\ Objects[p].kind = Kind(c)
      BY <2>2, <2>3, ContainersAreObjects DEF Containers, DataOK
    <3>2. p \in Cells
      BY <2>3, <3>1, ObjectFacts
    <3>3. CASE Kind(c) = "map"
      BY <1>2, <2>1, <2>2, <3>1, <3>2, <3>3, EntryReached
    <3>4. CASE Kind(c) # "map"
      <4>1. Sequential(p)
        BY <2>3, <3>1, <3>4 DEF Sequential
      <4> QED BY <1>2, <2>1, <2>2, <3>1, <3>2, <4>1, IndexReached
    <3> QED BY <3>3, <3>4
  <2>4. CASE Kind(c) \notin {"map", "slice", "array"}
    <3>1. SetElementOf(c, t.key, v) \in {Fails(c.v), Fails(Panic)} /\ (Failed(c.v) \/ SetElementOf(c, t.key, v) = Fails(Panic))
      BY <2>4 DEF SetElementOf
    <3> QED BY <2>2, <3>1, FailsFail, NotInvalid
  <2> QED BY <2>3, <2>4
<1> QED BY <1>1, <1>2

-----------------------------------------------------------------------------
(* What was assigned is read back *)

(* What reached its target is the same, if the target can hold it. *)
LEMMA ReachedSame ==
  ASSUME NEW v, Sound(v), NEW t, Reached(t, v)
  PROVE  \E x : Deref(Read(t))' = x /\ (Holds(Kind(x), v) => Same(Load(x)', v))
<1>1. PICK x, w : /\ Deref(Read(t))' = x /\ Load(x)' = w /\ ~Failed(w)
                  /\ w \in SetSingleValue(Kind(x), v) \cup SetAttributeValue(Kind(x), v) \cup Wanted(v, Kind(x))
  BY DEF Reached
<1>2. ASSUME Holds(Kind(x), v) PROVE Same(w, v)
  <2>1. PICK k : k = Kind(x)
    OBVIOUS
  <2>2. Holds(k, v) /\ w \in SetSingleValue(k, v) \cup SetAttributeValue(k, v) \cup Wanted(v, k)
    BY <1>1, <1>2, <2>1
  <2> QED BY <1>1, <2>2, SingleSame, AttributeSame, WantedSame
<1> QED BY <1>1, <1>2

(* An assignment is over as soon as it is done, and nothing follows it but *)
(* the next statement.                                                     *)
ReadInv == ReadBack /\ (last # None => stmt.kind = "none")

(* What ReadBack says of the assignment just done *)
LEMMA ReadBackFrom ==
  ASSUME NEW t, NEW v, last' = <<t, v>>,
         \/ t.key.form = "var" /\ t.key.name[1] \in bare'
         \/ t.key # NoKey /\ v = Invalid
         \/ \E x : /\ (IF Local(t) THEN Read(t) ELSE Deref(Read(t)))' = x
                   /\ Holds(Kind(x), v) => Same(Load(x)', v)
  PROVE  ReadBack'
<1>1. last'[1] = t /\ last'[2] = v
  OBVIOUS
<1>2. CASE \/ t.key.form = "var" /\ t.key.name[1] \in bare'
           \/ t.key # NoKey /\ v = Invalid
  BY <1>1, <1>2 DEF ReadBack
<1>3. CASE \E x : /\ (IF Local(t) THEN Read(t) ELSE Deref(Read(t)))' = x
                  /\ Holds(Kind(x), v) => Same(Load(x)', v)
  <2>1. PICK x : /\ (IF Local(t) THEN Read(t) ELSE Deref(Read(t)))' = x
                 /\ Holds(Kind(x), v) => Same(Load(x)', v)
    BY <1>3
  <2> QED BY <1>1, <2>1 DEF ReadBack, Kind
<1> QED BY <1>2, <1>3

(* A local variable is given r itself. *)
LEMMA LocalReached ==
  ASSUME NEW t, t.name \in Seq(STRING) \ {<<>>}, Local(t), NEW r, Vars' = Entered(Vars, t.name[1], r), UNCHANGED mem
  PROVE  Read(t)' = r /\ Load(r)' = Load(r)
<1>1. t.key = NoKey /\ Len(t.name) = 1 /\ t.name[1] \notin DOMAIN Base
  BY DEF Local
<1>2. PICK a : a = t.name[1]
  OBVIOUS
<1>3. a \in DOMAIN Vars' /\ Vars'[a] = r
  BY <1>2 DEF Entered
<1>4. Root(a)' = r
  BY <1>1, <1>2, <1>3 DEF Root
<1>5. Read(t)' = Root(a)'
  BY <1>1, <1>2 DEF Read, GetValue
<1>6. Load(r)' = Load(r)
  BY DEF Load, Content, Kind
<1> QED BY <1>4, <1>5, <1>6

(* An assignment that does not fail is read back. *)
LEMMA AssignReadBack ==
  ASSUME TypedInv, LocalsInv, ReadInv, Assign
  PROVE  ReadInv'
<1>1. PICK r : r = ToAssign
  OBVIOUS
<1>2. Ready("assign") /\ (Kind(Last(stack)) \in Containers => Local(stmt))
  BY DEF Assign
<1>3. PICK o \in IF Failed(r.v) THEN Fails(r.v) ELSE Store(stmt, r) :
        IF o.fail # Invalid THEN Fail(o.fail, "assign") ELSE Finish(o, r)
  BY <1>1 DEF Assign
<1>4. CASE o.fail # Invalid
  <2>1. last = None
    BY <1>2 DEF ReadInv, Ready
  <2>2. last' = None
    BY <1>3, <1>4, <2>1 DEF Fail, history
  <2> QED BY <2>2 DEF ReadInv, ReadBack
<1>5. CASE o.fail = Invalid
  <2>1. ~Failed(r.v)
    <3>1. o \in Fails(r.v) => o.fail = r.v
      BY DEF Fails
    <3> QED BY <1>3, <1>5, <3>1, NotNumbers DEF Failed
  <2>2. o \in Store(stmt, r) /\ Finish(o, r)
    BY <1>3, <1>5, <2>1
  <2>3. PICK t : t = stmt
    OBVIOUS
  <2>4. PICK v : v = Load(r)
    OBVIOUS
  <2>5. t.name \in Seq(STRING) \ {<<>>} /\ (t.key = NoKey \/ Legal(t.key))
    BY <1>2, <2>3 DEF Ready, TypedInv, StmtOK
  <2>6. Ref(mem, r) /\ (Kind(r) \in Containers => Local(t))
    BY <1>1, <1>2, <2>3, ToAssignRef
  <2>7. Sound(v)
    BY <2>4, <2>6, LoadSound DEF TypedInv, DataOK
  <2>8. mem' = o.mem /\ Vars' = o.Vars /\ stmt' = [kind |-> "none"] /\ last' = <<t, v>>
    BY <2>2, <2>3, <2>4 DEF Finish, End
  <2>9. CASE Local(t)
    <3>1. Vars' = Entered(Vars, t.name[1], r)
      BY <2>2, <2>3, <2>5, <2>8, <2>9, StoreLocals
    <3>2. o.mem = mem
      BY <2>2, <2>3, <2>9 DEF Store, SetValue, Local, Stored
    <3>3. Read(t)' = r /\ Load(r)' = v
      BY <2>4, <2>5, <2>8, <2>9, <3>1, <3>2, LocalReached
    <3>4. Same(Load(r)', v)
      BY <3>3, SameReflexive
    <3>5. (IF Local(t) THEN Read(t) ELSE Deref(Read(t)))' = r
      BY <2>9, <3>3 DEF Local
    <3>6. ReadBack'
      BY <2>8, <3>4, <3>5, ReadBackFrom
    <3> QED BY <2>8, <3>6 DEF ReadInv
  <2>10. CASE ~Local(t)
    <3>1. Vars' = Vars /\ bare' = bare
      BY <2>2, <2>3, <2>5, <2>8, <2>10, StoreLocals DEF Finish
    <3>2. CASE (t.key.form = "var" /\ t.key.name[1] \in bare') \/ (t.key # NoKey /\ v = Invalid)
      <4>1. ReadBack'
        BY <2>8, <3>2, ReadBackFrom
      <4> QED BY <2>8, <4>1 DEF ReadInv
    <3>3. CASE ~(t.key.form = "var" /\ t.key.name[1] \in bare') /\ ~(t.key # NoKey /\ v = Invalid)
      <4>1. Reached(t, v)
        BY <1>5, <2>2, <2>3, <2>4, <2>5, <2>6, <2>8, <2>10, <3>1, <3>3, StoreReached DEF TypedInv
      <4>2. PICK x : Deref(Read(t))' = x /\ (Holds(Kind(x), v) => Same(Load(x)', v))
        BY <2>7, <4>1, ReachedSame
      <4>3. (IF Local(t) THEN Read(t) ELSE Deref(Read(t)))' = x
        BY <2>10, <4>2 DEF Local
      <4>4. ReadBack'
        BY <2>8, <4>2, <4>3, ReadBackFrom
      <4> QED BY <2>8, <4>4 DEF ReadInv
    <3> QED BY <3>2, <3>3
  <2> QED BY <2>9, <2>10
<1> QED BY <1>4, <1>5

(* Everything holds the same while nothing is written. *)
LEMMA LoadKept ==
  ASSUME UNCHANGED mem, NEW r
  PROVE  Load(r)' = Load(r)
BY DEF Load, Content, Kind

(* Where nothing is written, everything reads as before. *)
LEMMA ReadKept ==
  ASSUME UNCHANGED <<mem, Vars>>, NEW t
  PROVE  Read(t)' = Read(t)
<1>1. PICK c : c = Container(t.name)
  OBVIOUS
<1>2. GetValue(t.name)' = GetValue(t.name) /\ Container(t.name)' = c
  BY <1>1, NamesKept
<1>3. ASSUME NEW key PROVE GivenKey(key)' = GivenKey(key)
  <2>1. PICK N : N = key.name
    OBVIOUS
  <2>2. PICK r : r = GetValue(N)
    OBVIOUS
  <2>3. GetValue(N)' = r
    BY <2>2, NamesKept
  <2>4. Load(r)' = Load(r)
    BY LoadKept
  <2>5. Load(GetValue(N))' = Load(GetValue(N))
    BY <2>2, <2>3, <2>4 DEF Load, Kind
  <2> QED BY <2>1, <2>5 DEF GivenKey
<1>4. ASSUME NEW key PROVE ElementOf(c, key)' = ElementOf(c, key)
  <2>1. PICK k : k = GivenKey(key)
    OBVIOUS
  <2>2. GivenKey(key)' = k
    BY <1>3, <2>1
  <2>3. PICK e : e = MapKey(c.at[1], k)
    OBVIOUS
  <2>4. MapKey(c.at[1], GivenKey(key)) = e /\ MapKey(c.at[1], GivenKey(key))' = e
    BY <2>1, <2>2, <2>3
  <2>5. EntryCopied(e)' = EntryCopied(e)
    BY DEF EntryCopied, Content
  <2>6. EntryCopied(MapKey(c.at[1], GivenKey(key)))' = EntryCopied(MapKey(c.at[1], GivenKey(key)))
    BY <2>4, <2>5 DEF EntryCopied
  <2>7. Index(c.at[1], GivenKey(key), Literal(key))' = Index(c.at[1], GivenKey(key), Literal(key))
    BY <2>1, <2>2 DEF Index
  <2> QED BY <2>6, <2>7 DEF ElementOf, Kind
<1>5. ElementOf(Container(t.name), t.key)' = ElementOf(c, t.key)'
  BY <1>2 DEF ElementOf, Kind
<1>6. ElementOf(Container(t.name), t.key)' = ElementOf(Container(t.name), t.key)
  BY <1>1, <1>4, <1>5
<1> QED BY <1>2, <1>6 DEF Read, MapVarEvaluate

(* Nothing happens between an assignment and the next statement. *)
LEMMA OthersReadBack ==
  ASSUME ReadInv, [Next]_vars, ~Assign
  PROVE  ReadInv'
<1>1. CASE UNCHANGED vars
  <2>1. UNCHANGED <<mem, Vars, stmt, bare, last>>
    BY <1>1 DEF vars, history, evaluation
  <2>2. CASE last = None
    BY <2>1, <2>2 DEF ReadInv, ReadBack
  <2>3. CASE last # None
    <3>1. PICK t, v : t = last[1] /\ v = last[2]
      OBVIOUS
    <3>2. PICK x : x = IF Local(t) THEN Read(t) ELSE Deref(Read(t))
      OBVIOUS
    <3>3. \/ t.key.form = "var" /\ t.key.name[1] \in bare
          \/ t.key # NoKey /\ v = Invalid
          \/ Holds(Kind(x), v) => Same(Load(x), v)
      BY <2>3, <3>1, <3>2 DEF ReadInv, ReadBack
    <3>4. (IF Local(t) THEN Read(t) ELSE Deref(Read(t)))' = x
      BY <2>1, <3>2, ReadKept DEF Local, Deref
    <3>5. Load(x)' = Load(x)
      BY <2>1, LoadKept
    <3> QED BY <2>1, <2>3, <3>1, <3>3, <3>4, <3>5 DEF ReadInv, ReadBack, Kind
  <2> QED BY <2>2, <2>3
<1>2. CASE \E st : Begin(st)
  BY <1>2 DEF Begin, ReadInv, ReadBack
<1>3. CASE Next /\ ~\E st : Begin(st)
  <2>1. stmt.kind # "none" /\ UNCHANGED last
    <3>1. ASSUME NEW v, NEW where, Fail(v, where) PROVE UNCHANGED last
      BY <3>1 DEF Fail, history
    <3>2. ASSUME NEW n, NEW r, NEW w, NEW where, Becomes(n, r, w, where) PROVE UNCHANGED last
      BY <3>1, <3>2 DEF Becomes, Yields
    <3>3. ASSUME NEW c, Constant(c) PROVE stmt.kind # "none" /\ UNCHANGED last
      BY <3>2, <3>3 DEF Constant, Atom, Evaluating
    <3>4. ASSUME NEW name, Variable(name) PROVE stmt.kind # "none" /\ UNCHANGED last
      BY <3>2, <3>4 DEF Variable, Atom, Evaluating
    <3>5. ASSUME NEW e, Element(e.name, e.key) PROVE stmt.kind # "none" /\ UNCHANGED last
      BY <3>2, <3>5 DEF Element, Atom, Evaluating
    <3>6. ASSUME NEW op, MathExpression(op) \/ Comparison(op) \/ Connective(op) \/ Negation
          PROVE  stmt.kind # "none" /\ UNCHANGED last
      BY <3>2, <3>6 DEF MathExpression, Comparison, Connective, Negation, Evaluating
    <3>7. ASSUME NEW name, OpenCall(name) PROVE stmt.kind # "none" /\ UNCHANGED last
      BY <3>7 DEF OpenCall, Evaluating, history
    <3>8. ASSUME CloseCall PROVE stmt.kind # "none" /\ UNCHANGED last
      <4>1. Evaluating /\ (Fail(Error, "call") \/ \E f, p, r : CallReturns(f, p, r))
        BY <3>8 DEF CloseCall
      <4> QED BY <3>1, <4>1 DEF Evaluating, CallReturns
    <3>9. ASSUME Condition \/ CallDone \/ Return PROVE stmt.kind # "none" /\ UNCHANGED last
      <4>1. stmt.kind \in {"condition", "call", "return"}
        BY <3>9 DEF Condition, CallDone, Return, Ready
      <4>2. (\E v, where : Fail(v, where)) \/ UNCHANGED history
        BY <3>9 DEF Condition, CallDone, Return
      <4> QED BY <3>1, <4>1, <4>2 DEF history
    <3> QED BY <1>3, <3>3, <3>4, <3>5, <3>6, <3>7, <3>8, <3>9 DEF Next
  <2>2. last' = None
    BY <2>1 DEF ReadInv
  <2> QED BY <2>2 DEF ReadInv, ReadBack
<1> QED BY <1>1, <1>2, <1>3

(* What was assigned is read back: the number, text or truth value, if the *)
(* target can hold it, whatever it was converted to and whichever way the  *)
(* target is reached (execute.go, data_context.go, map_var.go).            *)
THEOREM AssignedIsReadBack == Spec => []ReadBack
<1>1. Init => LocalsInv /\ ReadInv
  BY EmptyStack DEF Init, LocalsInv, ReadInv, ReadBack
<1>2. TypedInv /\ LocalsInv /\ ReadInv /\ [Next]_vars => LocalsInv' /\ ReadInv'
  BY LocalsStep, AssignReadBack, OthersReadBack
<1>3. ReadInv => ReadBack
  BY DEF ReadInv
<1> QED BY <1>1, <1>2, <1>3, AlwaysTyped, PTL DEF Spec
=============================================================================
