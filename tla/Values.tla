------------------------------- MODULE Values -------------------------------
(***************************************************************************)
(* The values rules compute with: reflect.Values of the Go kinds, the      *)
(* arithmetic of internal/core/math.go, the comparisons and connectives of *)
(* internal/base/expression.go, and the four ways internal/core/execute.go *)
(* converts a value: for a pointer, a field, an element and a parameter.   *)
(*                                                                         *)
(* An integer kind k has Size[k] values.  A float is a multiple of 1/Unit  *)
(* with Mantissa[k] as the largest significand, so that sums, products and *)
(* whole numbers beyond it are rounded; infinities are left out.  What Go  *)
(* does not define, a float converted to an integer kind it does not fit,  *)
(* is any value of that kind: a conversion is the set of its outcomes.     *)
(***************************************************************************)
EXTENDS Integers, Sequences

CONSTANTS
  Size,      \* integer kind -> how many values it has
  Mantissa,  \* float kind -> the largest significand
  Unit,      \* floats are multiples of 1/Unit
  Steps      \* the spacings floats may have, in units: powers of two

Signed == {"int", "int8", "int16", "int32", "int64"}
Unsigned == {"uint", "uint8", "uint16", "uint32", "uint64"}
Floats == {"float32", "float64"}
Numbers == Signed \cup Unsigned \cup Floats

ASSUME ValueConstants ==
  /\ Size \in [Signed \cup Unsigned -> Nat \ {0}]
  /\ \A k \in Signed \cup Unsigned : Size[k] % 2 = 0
  /\ \A k \in Signed \cup Unsigned : Size["int64"] % Size[k] = 0
  /\ Size["uint64"] = Size["int64"]
  /\ Mantissa \in [Floats -> Nat \ {0}]
  /\ Mantissa["float32"] <= Mantissa["float64"]
  /\ Unit \in Nat \ {0}
  /\ Steps \subseteq Nat \ {0} /\ 1 \in Steps
  /\ \A t \in Steps \ {1} : \E u \in Steps : t = 2 * u

(* A value: its kind, its number (for floats in units, for a bool 0 or 1)  *)
(* and its text.  An interface value keeps what it holds, not the kind.    *)
Value(k, n, s) == [kind |-> k, n |-> n, s |-> s]
Num(k, n) == Value(k, n, <<>>)
Str(s) == Value("string", 0, s)
Bool(b) == Num("bool", IF b THEN 1 ELSE 0)
Invalid == Num("invalid", 0)  \* reflect.ValueOf(nil)

(* How an evaluation may end instead *)
Error == Num("error", 0)
Panic == Num("panic", 0)
Failed(v) == v.kind \in {"error", "panic"}

-----------------------------------------------------------------------------
(* Numbers *)

Abs(n) == IF n < 0 THEN -n ELSE n

Fits(k, n) ==
  IF k \in Signed THEN -(Size[k] \div 2) <= n /\ n < Size[k] \div 2 ELSE 0 <= n /\ n < Size[k]

(* Two's complement *)
Wrap(k, n) ==
  IF k \in Signed THEN ((n + (Size[k] \div 2)) % Size[k]) - (Size[k] \div 2) ELSE n % Size[k]

(* Integer division truncates towards zero. *)
Quo(p, q) == IF (p < 0) = (q < 0) THEN Abs(p) \div Abs(q) ELSE -(Abs(p) \div Abs(q))

(* The whole number nearest to p/q, an even one of two that are as near *)
Nearest(p, q) ==
  LET d == Abs(q)
      m == IF q < 0 THEN -p ELSE p
      f == m \div d
  IN  IF 2 * (m % d) > d \/ (2 * (m % d) = d /\ f % 2 = 1) THEN f + 1 ELSE f

Spacing(k, p, q) ==
  CHOOSE t \in Steps :
    /\ Abs(p) <= Mantissa[k] * t * Abs(q) \/ \A u \in Steps : u <= t
    /\ \A u \in Steps : u < t => Abs(p) > Mantissa[k] * u * Abs(q)

(* The float of kind k nearest to p/q units *)
Round(k, p, q) == LET t == Spacing(k, p, q) IN t * Nearest(p, q * t)

AsFloat(v) == IF v.kind \in Floats THEN v.n ELSE Round("float64", v.n * Unit, 1)
AsInt(v) == Wrap("int64", v.n)

NumbersFitting(k) == IF k \in Signed THEN -(Size[k] \div 2) .. Size[k] \div 2 - 1 ELSE 0 .. Size[k] - 1

(* A float converted to an integer kind *)
Truncated(k, n) == IF Fits(k, Quo(n, Unit)) THEN {Quo(n, Unit)} ELSE NumbersFitting(k)

-----------------------------------------------------------------------------
(* math.go.  Kinds are told by the prefix of their names: that of an       *)
(* interface is "int" too, and reading it as an integer panics.            *)

Class(v) ==
  CASE v.kind \in Signed \cup {"interface"} -> "int"
    [] v.kind \in Unsigned -> "uint"
    [] v.kind \in Floats -> "float"
    [] OTHER -> "other"
IsString(v) == v.kind = "string"

(* The operations on whole numbers, and on floats *)
WholeResult(op, x, y) ==
  CASE op = "+" -> x + y [] op = "-" -> x - y [] op = "*" -> x * y [] op = "/" -> Quo(x, y)
FloatResult(op, x, y) ==
  CASE op = "+" -> Round("float64", x + y, 1)
    [] op = "-" -> Round("float64", x - y, 1)
    [] op = "*" -> Round("float64", x * y, Unit)
    [] op = "/" -> Round("float64", x * Unit, y)

(* What the four have in common: unsigned only between two unsigned, float *)
(* if either is one.                                                       *)
Numeric(op, a, b) ==
  LET classes == {Class(a), Class(b)} IN
  IF "other" \in classes THEN Error
  ELSE IF "interface" \in {a.kind, b.kind} THEN Panic
  ELSE IF "float" \in classes THEN Num("float64", FloatResult(op, AsFloat(a), AsFloat(b)))
  ELSE IF classes = {"uint"} THEN Num("uint64", Wrap("uint64", WholeResult(op, a.n, b.n)))
  ELSE Num("int64", Wrap("int64", WholeResult(op, AsInt(a), AsInt(b))))

Add(a, b) == IF IsString(a) /\ IsString(b) THEN Str(a.s \o b.s) ELSE Numeric("+", a, b)

(* Mutant: unsigned if either operand is *)
SubUnsigned(a, b) ==
  IF {Class(a), Class(b)} = {"int", "uint"} THEN Num("uint64", Wrap("uint64", a.n - b.n))
  ELSE Numeric("-", a, b)

Sub(a, b) == Numeric("-", a, b)

Mul(a, b) == Numeric("*", a, b)

(* Dividing an integer by zero panics. *)
Divided(a, b) ==
  IF b.n = 0 /\ {Class(a), Class(b)} \subseteq {"int", "uint"} THEN Panic
  ELSE Numeric("/", a, b)

(* Mutant: an unsigned zero is looked for only when a float is divided *)
DivUnsignedZero(a, b) ==
  IF b.kind = "interface" THEN Panic
  ELSE IF b.kind \in Numbers /\ b.n = 0 /\ (b.kind \in Unsigned => a.kind \in Floats) THEN Error
  ELSE Divided(a, b)

Div(a, b) ==
  IF b.kind = "interface" THEN Panic
  ELSE IF b.kind \in Numbers /\ b.n = 0 THEN Error
  ELSE Divided(a, b)

-----------------------------------------------------------------------------
(* expression.go *)

LexLess(s, t) ==
  \E i \in 0 .. Len(s) :
    /\ i <= Len(t) /\ SubSeq(s, 1, i) = SubSeq(t, 1, i)
    /\ i < Len(t) /\ (i = Len(s) \/ s[i + 1] < t[i + 1])

(* Holds of the comparison op when x is less than y, when they are equal *)
Ordered(op, less, equal) ==
  CASE op = "==" -> equal [] op = "!=" -> ~equal
    [] op = "<" -> less [] op = "<=" -> less \/ equal
    [] op = ">" -> ~less /\ ~equal [] op = ">=" -> ~less

(* Mutant: integers are compared as they are, floats by their units *)
CompareUnits(op, a, b) ==
  CASE IsString(a) /\ IsString(b) -> Bool(Ordered(op, LexLess(a.s, b.s), a.s = b.s))
    [] a.kind \in Numbers /\ b.kind \in Numbers -> Bool(Ordered(op, a.n < b.n, a.n = b.n))
    [] a.kind = "bool" /\ b.kind = "bool" /\ op \in {"==", "!="} -> Bool(Ordered(op, FALSE, a.n = b.n))
    [] OTHER -> Error

(* Numbers are compared as float64; what is not of one sort, or a bool     *)
(* compared by order, is an error.                                         *)
Compare(op, a, b) ==
  CASE IsString(a) /\ IsString(b) -> Bool(Ordered(op, LexLess(a.s, b.s), a.s = b.s))
    [] a.kind \in Numbers /\ b.kind \in Numbers -> Bool(Ordered(op, AsFloat(a) < AsFloat(b), AsFloat(a) = AsFloat(b)))
    [] a.kind = "bool" /\ b.kind = "bool" /\ op \in {"==", "!="} -> Bool(Ordered(op, FALSE, a.n = b.n))
    [] OTHER -> Error

(* && and ||: both sides have been evaluated. *)
Logical(op, a, b) ==
  IF a.kind = "bool" /\ b.kind = "bool"
  THEN Bool(IF op = "&&" THEN a.n = 1 /\ b.n = 1 ELSE a.n = 1 \/ b.n = 1) ELSE Error

(* What an Expression returns of the one value it holds *)
Plain(v) == IF v = Invalid THEN Error ELSE v
Not(v) ==
  CASE v = Invalid -> Error [] v.kind = "bool" -> Bool(v.n = 0) [] OTHER -> Panic

-----------------------------------------------------------------------------
(* execute.go: the outcomes of converting v to kind k *)

Ints(k, S) == {Num(k, Wrap(k, i)) : i \in S}
NumbersOf(k, v) ==
  IF k \in Floats THEN {Num(k, Round(k, AsFloat(v), 1))}
  ELSE IF v.kind \in Floats THEN Ints(k, Truncated(IF k \in Signed THEN "int64" ELSE "uint64", v.n))
  ELSE Ints(k, {v.n})
Negative(v) == v.kind \in Signed \cup Floats /\ v.n < 0

(* Mutant: a negative number is stored in an unsigned variable *)
SetSingleValueWraps(k, v) ==
  IF v.kind = k THEN {v}
  ELSE IF k \notin Numbers \/ Class(v) = "other" THEN {Error}
  ELSE IF v.kind = "interface" THEN {Panic}
  ELSE NumbersOf(k, v)

(* *p = v, SetSingleValue *)
SetSingleValue(k, v) ==
  IF v.kind = k THEN {v}
  ELSE IF k \notin Numbers \/ Class(v) = "other" THEN {Error}
  ELSE IF v.kind = "interface" THEN {Panic}
  ELSE IF k \in Unsigned /\ Negative(v) THEN {Error}
  ELSE NumbersOf(k, v)

(* reflect.Value.String of what is not a string: its type in angle brackets *)
TypeText == <<0>>

(* o.f = v, the switch of SetAttributeValue: a text field takes anything,  *)
(* a pointer has no case, and a container takes no such value.             *)
SetAttributeValue(k, v) ==
  IF v = Invalid THEN {Panic}
  ELSE IF k = "ptr" THEN {Error}
  ELSE IF k = "string" THEN {Str(IF IsString(v) THEN v.s ELSE TypeText)}
  ELSE IF k = "interface" THEN {Value(k, v.n, v.s)}
  ELSE IF k = "bool" THEN {IF v.kind = "bool" THEN v ELSE Panic}
  ELSE IF {k, v.kind} \subseteq Numbers /\ ~(k \in Unsigned /\ Negative(v)) THEN NumbersOf(k, v)
  ELSE {Panic}

(* GetWantedValue: a value of the same sort is converted, any other is a   *)
(* panic; int64, uint64, float64 and what is no number are left alone.     *)
Sort(k) == CHOOSE S \in {Signed, Unsigned, Floats} : k \in S
GetWantedValue(v, k) ==
  IF v.kind = k \/ k \notin Numbers \ {"int64", "uint64", "float64"} THEN {v}
  ELSE IF v.kind \in Sort(k) THEN NumbersOf(k, v) ELSE {Panic}

(* Storing in an element, or looking up by a key, of type k: reflect       *)
(* panics unless the value is assignable to it.                            *)
Assignable(v, k) == v.kind = k \/ (k = "interface" /\ v # Invalid)
Wanted(v, k) ==
  {IF Assignable(w, k) THEN Value(k, w.n, w.s) ELSE Panic : w \in GetWantedValue(v, k)}

(* A parameter of kind k, in ParamsTypeChange and the Call that follows *)
getNumType(v) == Class(v)
ParamsTypeChange(v, k) ==
  IF k \notin Numbers \/ getNumType(v) = "other" THEN {IF Assignable(v, k) THEN Value(k, v.n, v.s) ELSE Panic}
  ELSE IF v.kind = "interface" THEN {Panic}
  ELSE IF k \notin Floats /\ v.kind \in Floats THEN Ints(k, Truncated(k, v.n))
  ELSE NumbersOf(k, v)
=============================================================================
