---------------------------- MODULE Assignments ----------------------------
(***************************************************************************)
(* The statements of one rule that read and write data: assignments,       *)
(* conditions, calls and return, with the evaluation of their expressions  *)
(* (internal/base) and the access to injected data and local variables     *)
(* (context/data_context.go, internal/base/map_var.go).                    *)
(*                                                                         *)
(* An expression tree is evaluated left to right and bottom up, so that    *)
(* evaluation is a stack machine: one action per node, taken when the      *)
(* node's Evaluate returns, in the order of the tree; which tree it is is  *)
(* chosen as it goes.  A value on the stack or in a local variable is a    *)
(* reflect.Value: a value of its own, or a window onto a field or element, *)
(* through which later writes are seen.                                    *)
(*                                                                         *)
(* Whole objects are assigned to local variables only.  What a host        *)
(* function does is to store its arguments and to return one of a set of   *)
(* values.                                                                 *)
(***************************************************************************)
EXTENDS Values, SequencesExt

CONSTANTS
  Objects,     \* the injected data: an object per variable, field and container
  Base,        \* the names under which objects are injected
  Cells,       \* the objects that hold values
  Addressable, \* the objects that can be set, as reflect sees it
  Scopes       \* kinds of rules: the statements and nodes one is made of, what
               \* the cells hold at first, a bound on the nodes it evaluates

VARIABLES
  scope,   \* the kind of rule it is
  mem,     \* the cells: a value, or the values of a container by key or index
  Vars,    \* the rule's local variables
  stmt,    \* the statement being executed
  stack,   \* the values of the nodes evaluated so far
  calls,   \* the calls whose arguments are being evaluated, innermost last
  status,  \* how the rule stands
  nodes,   \* nodes evaluated so far
  failedAt,\* history: the kind of node or statement that failed
  window,  \* history: the expression so far is a bare field or element
  bare,    \* history: the local variables last assigned a bare field or element
  last     \* history: the assignment just done, and its value

evaluation == <<stack, calls, status, nodes, failedAt>>
history == <<window, bare, last>>
vars == <<scope, mem, Vars, stmt, evaluation, history>>

-----------------------------------------------------------------------------
(* What injected data look like *)

OfKind(v, k) ==
  /\ v.kind = k
  /\ k \in Numbers => v.n \in Int
  /\ k \in Signed \cup Unsigned => Fits(k, v.n)
  /\ k \in Floats => v.n = Round(k, v.n, 1)

Containers == {"ptr", "struct", "map", "slice", "array", "func"}
Scalars == Numbers \cup {"string", "bool", "interface"}
Plainly(v) == v.kind \in Scalars \cup {"invalid"} /\ OfKind(v, v.kind)

(* A cell holds what its object is declared to hold. *)
Holding(m, c) ==
  IF Objects[c].kind \notin Containers THEN OfKind(m[c], Objects[c].kind)
  ELSE /\ \A i \in DOMAIN m[c] : OfKind(m[c][i], Objects[c].elem)
       /\ Objects[c].kind = "map" => \A k \in DOMAIN m[c] : OfKind(k, Objects[c].key)

(* What leads to an object: the fields of a struct, a pointer, a function  *)
(* that stores its arguments *)
LeadsTo(p) ==
  CASE Objects[p].kind = "struct" -> Range(Objects[p].fields)
    [] Objects[p].kind = "ptr" -> {Objects[p].elem}
    [] Objects[p].kind = "func" -> Range(Objects[p].writes)
    [] OTHER -> {}

(* Go checks the types of structs, pointers and functions; what they lead  *)
(* to exists.  An injected value that is no pointer is a copy, to which    *)
(* nothing else leads.                                                     *)
ASSUME Declared ==
  /\ Cells = {p \in DOMAIN Objects : Objects[p].kind \notin {"ptr", "struct", "func"}}
  /\ \A p \in DOMAIN Objects :
       LET o == Objects[p] IN
       /\ o.kind \in Scalars \cup Containers
       /\ LeadsTo(p) \subseteq DOMAIN Objects
       /\ o.kind \in {"ptr", "struct"} =>
            \A m \in DOMAIN o.methods : o.methods[m] \in DOMAIN Objects /\ Objects[o.methods[m]].kind = "func"
       /\ o.kind \in {"map", "slice", "array"} => o.elem \in Scalars
       /\ o.kind = "map" => o.key \in Scalars
       /\ o.kind = "func" =>
            /\ o.params \in Seq(Scalars) /\ DOMAIN o.writes = DOMAIN o.params
            /\ \A i \in DOMAIN o.writes : Objects[o.writes[i]].kind = o.params[i]
            /\ \A r \in o.returns : Plainly(r)
  /\ \A a \in DOMAIN Base :
       /\ Base[a] \in DOMAIN Objects
       /\ Objects[Base[a]].kind \in Scalars => \A p \in DOMAIN Objects : Base[a] \notin LeadsTo(p)

(* The key of an element: a variable, a text or an integer *)
NoKey == [form |-> "none"]
VarKey(name) == [form |-> "var", name |-> name]
StrKey(s) == [form |-> "str", s |-> s]
IntKey(n) == [form |-> "int", n |-> n]

(* The grammar's operators and names, literals that are what they are, and *)
(* data of their types to begin with.                                      *)
Legal(key) == key.form \in {"var", "str"} \/ (key.form = "int" /\ OfKind(Num("int64", key.n), "int64"))

ASSUME Operators ==
  \A s \in DOMAIN Scopes :
    /\ Scopes[s].math \subseteq {"+", "-", "*", "/"}
    /\ \A st \in Scopes[s].statements :
         st.kind = "assign" =>
           /\ st.op \in {"=", "+=", "-=", "*=", "/="}
           /\ st.name \in Seq(STRING) \ {<<>>}
           /\ st.key = NoKey \/ Legal(st.key)
    /\ \A e \in Scopes[s].elements : Legal(e.key)
    /\ \A v \in Scopes[s].constants : Plainly(v)
    /\ \A m \in Scopes[s].mems : DOMAIN m = Cells /\ \A c \in Cells : Holding(m, c)

-----------------------------------------------------------------------------
(* reflect.Values *)

None == <<>>
Own(v) == [v |-> v, at |-> <<>>]
Object(p) == [v |-> Num(Objects[p].kind, 0), at |-> <<p>>]
Kind(r) == r.v.kind
Of(r) == Objects[r.at[1]]

Content(at) == IF Len(at) = 1 THEN mem[at[1]] ELSE mem[at[1]][at[2]]
Load(r) == IF r.at = <<>> \/ Kind(r) \in Containers THEN r.v ELSE Content(r.at)

Deref(r) == IF Kind(r) = "ptr" THEN Object(Of(r).elem) ELSE r

(* GetStructAttributeValue: a field that is not there is no error *)
FieldByName(s, f) ==
  IF Kind(s) # "struct" THEN Own(Panic)
  ELSE IF f \in DOMAIN Of(s).fields THEN Object(Of(s).fields[f]) ELSE Own(Invalid)
GetStructAttributeValue(r, f) == IF Failed(r.v) THEN r ELSE FieldByName(Deref(r), f)

(* The injected objects hide local variables. *)
Root(a) ==
  IF a \in DOMAIN Base THEN Object(Base[a]) ELSE IF a \in DOMAIN Vars THEN Vars[a] ELSE Own(Error)

(* a, a.b and a.b.c; a name is the sequence of its parts *)
GetValue(name) ==
  CASE Len(name) = 1 -> Root(name[1])
    [] Len(name) = 2 -> GetStructAttributeValue(Root(name[1]), name[2])
    [] Len(name) = 3 -> GetStructAttributeValue(GetStructAttributeValue(Root(name[1]), name[2]), name[3])
    [] OTHER -> Own(Error)

-----------------------------------------------------------------------------
(* Elements *)

(* An empty text is taken for the integer that was not given, 0. *)
GivenKey(key) ==
  CASE key.form = "var" -> Load(GetValue(key.name))
    [] key.form = "str" -> IF key.s = <<>> THEN Num("int64", 0) ELSE Str(key.s)
    [] key.form = "int" -> Num("int64", key.n)

(* The place of an element, or why there is none *)
EntryOf(p, k, wanted) ==
  IF Failed(k) THEN Own(k)
  ELSE IF Panic \in wanted THEN Own(Panic)
  ELSE [v |-> Num(Objects[p].elem, 0), at |-> <<p, CHOOSE w \in wanted : TRUE>>]
MapKey(p, k) == EntryOf(p, k, Wanted(k, Objects[p].key))

Index(p, k, literal) ==
  IF Failed(k) THEN Own(k)
  ELSE IF literal /\ (IsString(k) \/ k.n < 0) THEN Own(Error)
  ELSE IF k.kind \notin Signed \/ k.n \notin DOMAIN mem[p] THEN Own(Panic)
  ELSE [v |-> Num(Objects[p].elem, 0), at |-> <<p, k.n>>]

Literal(key) == key.form # "var"
Container(name) == Deref(GetValue(name))

(* MapVar.Evaluate.  A missing entry reads as the zero value; an entry is  *)
(* copied, an element of a slice is a window.                              *)
EntryCopied(e) ==
  IF Failed(e.v) \/ e.at[2] \notin DOMAIN mem[e.at[1]] THEN Own(e.v) ELSE Own(Content(e.at))
ElementOf(c, key) ==
  CASE Failed(c.v) -> c
    [] Kind(c) = "map" -> EntryCopied(MapKey(c.at[1], GivenKey(key)))
    [] Kind(c) \in {"slice", "array"} -> Index(c.at[1], GivenKey(key), Literal(key))
    [] OTHER -> Own(Error)
MapVarEvaluate(name, key) == ElementOf(Container(name), key)

-----------------------------------------------------------------------------
(* Storing r.  What a store comes to: a failure, or new contents.          *)

Entered(m, k, w) == [x \in DOMAIN m \cup {k} |-> IF x = k THEN w ELSE m[x]]
Removed(m, k) == [x \in DOMAIN m \ {k} |-> m[x]]

Fails(v) == {[fail |-> v, mem |-> mem, Vars |-> Vars]}
Stored(m, vs) == [fail |-> Invalid, mem |-> m, Vars |-> vs]
Outcome(w, m) == IF Failed(w) THEN [fail |-> w, mem |-> mem, Vars |-> Vars] ELSE Stored(m, Vars)
Into(at, outcomes) ==
  {Outcome(w, IF Len(at) = 1 THEN [mem EXCEPT ![at[1]] = w] ELSE [mem EXCEPT ![at[1]][at[2]] = w]) : w \in outcomes}

SetField(obj, field, v) ==
  IF obj.v = Invalid THEN Fails(Panic)
  ELSE IF Failed(obj.v) THEN Fails(obj.v)
  ELSE IF Kind(Deref(obj)) # "struct" \/ field.v = Invalid THEN Fails(Error)
  ELSE IF field.at[1] \notin Addressable THEN Fails(Error)
  ELSE Into(field.at, SetAttributeValue(Kind(field), v))

SetPointer(p, v) == IF Kind(p) # "ptr" THEN Fails(Error) ELSE Into(<<Of(p).elem>>, SetSingleValue(Objects[Of(p).elem].kind, v))

(* Mutant: a name without dots is always a local variable *)
SetValueLocalFirst(name, r) ==
  CASE Len(name) > 3 -> Fails(Error)
    [] Len(name) \in {2, 3} -> SetField(GetValue(Front(name)), GetValue(name), Load(r))
    [] OTHER -> {Stored(mem, Entered(Vars, name[1], r))}

(* DataContext.SetValue *)
SetValue(name, r) ==
  CASE Len(name) > 3 -> Fails(Error)
    [] Len(name) \in {2, 3} -> SetField(GetValue(Front(name)), GetValue(name), Load(r))
    [] OTHER -> IF name[1] \in DOMAIN Base THEN SetPointer(Root(name[1]), Load(Deref(r)))
                ELSE {Stored(mem, Entered(Vars, name[1], r))}

(* An entry is written, or deleted if there is no value to write. *)
SetMapIndex(p, k, v) ==
  IF Failed(k.v) THEN Fails(k.v)
  ELSE IF v = Invalid /\ Objects[p].elem \notin Numbers \ {"int64", "uint64", "float64"}
  THEN {Stored([mem EXCEPT ![p] = Removed(@, k.at[2])], Vars)}
  ELSE {Outcome(w, [mem EXCEPT ![p] = Entered(@, k.at[2], w)]) : w \in Wanted(v, Objects[p].elem)}

SetIndex(c, e, v) ==
  IF Failed(e.v) THEN Fails(e.v)
  ELSE IF Kind(c) = "array" /\ c.at[1] \notin Addressable THEN Fails(Panic)
  ELSE Into(e.at, Wanted(v, Of(c).elem))

(* DataContext.SetMapVarValue; the type of what is no container has no     *)
(* element type, and asking for it panics.                                 *)
SetElementOf(c, key, v) ==
  CASE Failed(c.v) -> Fails(c.v)
    [] Kind(c) = "map" -> SetMapIndex(c.at[1], MapKey(c.at[1], GivenKey(key)), v)
    [] Kind(c) \in {"slice", "array"} -> SetIndex(c, Index(c.at[1], GivenKey(key), Literal(key)), v)
    [] OTHER -> Fails(Panic)
SetMapVarValue(name, key, v) == SetElementOf(Container(name), key, v)

Read(t) == IF t.key = NoKey THEN GetValue(t.name) ELSE MapVarEvaluate(t.name, t.key)
Store(t, r) == IF t.key = NoKey THEN SetValue(t.name, r) ELSE SetMapVarValue(t.name, t.key, Load(r))

-----------------------------------------------------------------------------
Init ==
  /\ scope \in DOMAIN Scopes
  /\ mem \in Scopes[scope].mems
  /\ Vars = <<>>
  /\ stmt = [kind |-> "none"]
  /\ stack = <<>> /\ calls = <<>> /\ status = "running" /\ nodes = 0 /\ failedAt = "nothing"
  /\ window = FALSE /\ bare = {} /\ last = None

Running == status = "running"

(* A failure ends the rule.  Assignments and calls recover from a panic    *)
(* and report an error, in which what called them shares.                  *)
Fail(v, where) ==
  /\ status' = IF v = Error \/ calls # <<>> \/ stmt.kind = "assign" THEN "error" ELSE "panic"
  /\ failedAt' = where
  /\ UNCHANGED <<scope, mem, Vars, stmt, stack, calls, nodes, history>>

(* The next statement *)
Begin(st) ==
  /\ Running /\ stmt.kind = "none"
  /\ stmt' = st
  /\ stack' = <<>> /\ window' = FALSE /\ last' = None
  /\ UNCHANGED <<scope, mem, Vars, calls, status, nodes, failedAt, bare>>

End == stmt' = [kind |-> "none"] /\ stack' = <<>>

-----------------------------------------------------------------------------
(* The nodes of an expression *)

Evaluating == Running /\ stmt.kind # "none" /\ nodes < Scopes[scope].maxNodes

(* Where the arguments of the innermost call begin on the stack *)
Floor == IF calls = <<>> THEN 0 ELSE Last(calls).floor
Operands == Len(stack) - Floor

(* A node leaves r in place of its n operands on the stack, or fails. *)
Yields(n, r, isWindow) ==
  /\ nodes' = nodes + 1
  /\ stack' = Append(SubSeq(stack, 1, Len(stack) - n), r)
  /\ window' = isWindow
  /\ UNCHANGED <<scope, mem, Vars, stmt, calls, status, failedAt, bare, last>>
Becomes(n, r, isWindow, where) ==
  IF Failed(r.v) THEN Fail(r.v, where) ELSE Yields(n, r, isWindow)

(* A statement is one expression, but a call may have any arguments. *)
Atom ==
  /\ Evaluating
  /\ stmt.kind = "call" => calls # <<>>

Constant(c) == Atom /\ Becomes(0, Own(c), FALSE, "constant")

Variable(name) ==
  /\ Atom
  /\ \E r \in {GetValue(name)} :
       Becomes(0, r, r.at # None /\ (Len(name) > 1 \/ name[1] \in bare), "variable")

(* Mutant: an entry of a map is read as a window *)
ElementWindow(name, key) ==
  /\ Atom
  /\ \E c \in {Container(name)} :
       IF Kind(c) = "map" /\ key.form = "str" /\ Str(key.s) \in DOMAIN mem[c.at[1]]
       THEN Yields(0, MapKey(c.at[1], Str(key.s)), FALSE)
       ELSE Becomes(0, ElementOf(c, key), Kind(c) # "map", "element")

Element(name, key) ==
  /\ Atom
  /\ \E c \in {Container(name)} : Becomes(0, ElementOf(c, key), Kind(c) # "map", "element")

top == Load(Last(stack))
below == Load(stack[Len(stack) - 1])

Arithmetic(op, a, b) ==
  CASE op \in {"+", "+="} -> Add(a, b)
    [] op \in {"-", "-="} -> Sub(a, b)
    [] op \in {"*", "*="} -> Mul(a, b)
    [] op \in {"/", "/="} -> Div(a, b)

MathExpression(op) ==
  /\ Evaluating /\ Operands > 1
  /\ Becomes(2, Own(Arithmetic(op, below, top)), FALSE, "math")

Comparison(op) ==
  /\ Evaluating /\ Operands > 1
  /\ Becomes(2, Own(Compare(op, below, top)), FALSE, "comparison")

Connective(op) ==
  /\ Evaluating /\ Operands > 1
  /\ Becomes(2, Own(Logical(op, below, top)), FALSE, "logical")

Negation ==
  /\ Evaluating /\ Operands > 0
  /\ Becomes(1, Own(Not(top)), FALSE, "not")

-----------------------------------------------------------------------------
(* Calls: f(..), a.f(..) and a.b.f(..) *)

OpenCall(name) ==
  /\ Evaluating
  /\ stmt.kind = "call" => stack = <<>>
  /\ nodes' = nodes + 1
  /\ calls' = Append(calls, [name |-> name, floor |-> Len(stack)])
  /\ UNCHANGED <<scope, mem, Vars, stmt, stack, status, failedAt, history>>

(* The function a name stands for: ExecFunc, ExecMethod, ExecThreeLevel *)
Method(obj, m) ==
  CASE Failed(obj.v) -> obj
    [] obj.v = Invalid -> Own(Panic)
    [] OTHER -> IF Kind(obj) \in {"ptr", "struct"} /\ m \in DOMAIN Of(obj).methods
                THEN Object(Of(obj).methods[m]) ELSE Own(Error)
Function(f) == IF Failed(f.v) \/ Kind(f) = "func" THEN f ELSE Own(Panic)
Callee(name) == IF Len(name) = 1 THEN Function(Root(name[1])) ELSE Method(GetValue(Front(name)), Last(name))

Arguments == [i \in 1 .. Operands |-> Load(stack[Floor + i])]

(* The parameters a call may end up with, each of its declared kind *)
ParameterChoices(args, params) ==
  LET outcomes == [i \in DOMAIN params |-> ParamsTypeChange(args[i], params[i])]
  IN  {p \in [DOMAIN params -> UNION Range(outcomes)] : \A i \in DOMAIN params : p[i] \in outcomes[i]}

(* Mutant: numbers are passed as they come *)
ConvertedNot(f, args) == IF Len(f.params) # Len(args) THEN {} ELSE {args}

(* None if the call fails *)
Converted(f, args) ==
  IF Len(f.params) # Len(args) THEN {}
  ELSE {p \in ParameterChoices(args, f.params) : Panic \notin Range(p)}

CallReturns(f, p, r) ==
  /\ mem' = [c \in Cells |->
               IF c \in Range(f.writes) THEN p[CHOOSE i \in DOMAIN p : f.writes[i] = c] ELSE mem[c]]
  /\ stack' = Append(SubSeq(stack, 1, Floor), Own(r))
  /\ calls' = Front(calls)
  /\ nodes' = nodes + 1
  /\ window' = FALSE
  /\ UNCHANGED <<scope, Vars, stmt, status, failedAt, bare, last>>

CloseCall ==
  /\ Evaluating /\ calls # <<>>
  /\ \E f \in {Callee(Last(calls).name)} :
       \E choices \in {IF Failed(f.v) THEN {} ELSE Converted(Of(f), Arguments)} :
         IF choices = {} THEN Fail(Error, "call")
         ELSE \E p \in choices, r \in Of(f).returns : CallReturns(Of(f), p, r)

-----------------------------------------------------------------------------
(* The ends of statements, with the value of their expression on the stack *)

Ready(kind) == Running /\ stmt.kind = kind /\ calls = <<>> /\ Len(stack) = 1

Local(t) == t.key = NoKey /\ Len(t.name) = 1 /\ t.name[1] \notin DOMAIN Base

Computed(sv) == IF Failed(sv.v) THEN sv ELSE Own(Arithmetic(stmt.op, Load(sv), top))
ToAssign == IF stmt.op = "=" THEN Last(stack) ELSE Computed(Read(stmt))

Finish(o, r) ==
  /\ mem' = o.mem /\ Vars' = o.Vars
  /\ End
  /\ bare' = IF ~Local(stmt) THEN bare
             ELSE IF window /\ stmt.op = "=" THEN bare \cup {stmt.name[1]}
             ELSE bare \ {stmt.name[1]}
  /\ last' = <<stmt, Load(r)>>
  /\ UNCHANGED <<scope, calls, status, nodes, failedAt, window>>

(* A failed assignment has changed nothing. *)
Assign ==
  /\ Ready("assign")
  /\ Kind(Last(stack)) \in Containers => Local(stmt)
  /\ \E r \in {ToAssign} :
       \E o \in IF Failed(r.v) THEN Fails(r.v) ELSE Store(stmt, r) :
         IF o.fail # Invalid THEN Fail(o.fail, "assign") ELSE Finish(o, r)

(* if and for: a condition that is no bool panics, and nobody recovers.    *)
Condition ==
  /\ Ready("condition")
  /\ LET v == Plain(top)
     IN  IF Failed(v) THEN Fail(v, "condition")
         ELSE IF v.kind # "bool" THEN Fail(Panic, "condition")
         ELSE End /\ UNCHANGED <<scope, mem, Vars, calls, status, nodes, failedAt, history>>

CallDone ==
  /\ Ready("call")
  /\ End
  /\ UNCHANGED <<scope, mem, Vars, calls, status, nodes, failedAt, history>>

Return ==
  /\ Ready("return")
  /\ LET v == Plain(top)
     IN  IF Failed(v) THEN Fail(v, "return")
         ELSE /\ status' = "returned"
              /\ UNCHANGED <<scope, mem, Vars, stmt, stack, calls, nodes, failedAt, history>>

Rule == Scopes[scope]
Next ==
  \/ \E st \in Rule.statements : Begin(st)
  \/ \E c \in Rule.constants : Constant(c)
  \/ \E name \in Rule.names : Variable(name)
  \/ \E e \in Rule.elements : Element(e.name, e.key)
  \/ \E op \in Rule.math : MathExpression(op)
  \/ \E op \in Rule.comparisons : Comparison(op)
  \/ \E op \in Rule.connectives : Connective(op)
  \/ Rule.not /\ Negation
  \/ \E name \in Rule.calls : OpenCall(name)
  \/ CloseCall
  \/ Assign \/ Condition \/ CallDone \/ Return

Spec == Init /\ [][Next]_vars

-----------------------------------------------------------------------------
(* Whatever is assigned, and whatever kind it has, injected data keep      *)
(* their declared types: a number is one its kind can hold, and the        *)
(* entries of a container have its element type.                           *)
DataWellTyped == \A c \in Cells : Holding(mem, c)

(* What was assigned is read back: the same number, if the target can hold *)
(* it, the same text and truth value, whatever conversion it went through  *)
(* and whichever alias it was written by.  Not so for a text field, which  *)
(* takes what is no text by the name of its type, for an entry assigned    *)
(* nothing, which is deleted, and where the target's own key is a window   *)
(* that the assignment may move.                                           *)
Same(v, w) ==
  LET units(x) == IF x.kind \in Floats THEN x.n ELSE x.n * Unit
  IN  IF {v.kind, w.kind} \subseteq Numbers THEN units(v) = units(w)
      ELSE v.s = w.s /\ (v.n = w.n \/ (IsString(v) /\ IsString(w)))
Holds(k, v) ==
  IF ~({k, v.kind} \subseteq Numbers) THEN k # "string" \/ IsString(v)
  ELSE IF k \in Floats THEN Same(v, Num(k, Round(k, AsFloat(v), 1)))
  ELSE IF v.kind \in Floats THEN v.n % Unit = 0 /\ Fits(k, v.n \div Unit)
  ELSE Fits(k, v.n)
ReadBack ==
  last # None =>
    LET t == last[1]
        v == last[2]
        r == IF Local(t) THEN Read(t) ELSE Deref(Read(t))
    IN  \/ t.key.form = "var" /\ t.key.name[1] \in bare
        \/ t.key # NoKey /\ v = Invalid
        \/ Holds(Kind(r), v) => Same(Load(r), v)

(* A local variable keeps its value until it is assigned, however the data *)
(* it was computed from change, unless it was assigned a bare field or     *)
(* element: then it is another name for it.                                *)
LocalsOwnTheirValue ==
  [][\A x \in DOMAIN Vars \ bare :
       Load(Vars[x])' = Load(Vars[x]) \/ (stmt.kind = "assign" /\ Local(stmt) /\ stmt.name[1] = x)]_vars

(* No arithmetic panics outside a call or an assignment, a division by a   *)
(* zero of any kind included, unless an operand is an interface value.     *)
ArithmeticNeverPanics ==
  status = "panic" /\ failedAt = "math" => "interface" \in {top.kind, below.kind}

(* Of two integers, of any width and signedness, sums, differences and     *)
(* products are exact when the result fits, an int64 unless both operands  *)
(* are unsigned; quotients too, unless an unsigned operand beyond int64    *)
(* meets a signed one.  And comparing two numbers never puts the larger    *)
(* one first (math.go, expression.go:126).                                 *)
ResultKind(a, b) == IF {Class(a), Class(b)} = {"uint"} THEN "uint64" ELSE "int64"
Exact(a, b) ==
  LET exact(r, n) == Fits(ResultKind(a, b), n) => r.n = n
  IN  /\ exact(Add(a, b), a.n + b.n)
      /\ exact(Sub(a, b), a.n - b.n)
      /\ exact(Mul(a, b), a.n * b.n)
      /\ \/ b.n = 0
         \/ {Class(a), Class(b)} = {"int", "uint"} /\ ~(Fits("int64", a.n) /\ Fits("int64", b.n))
         \/ exact(Div(a, b), Quo(a.n, b.n))
ArithmeticExact ==
  Len(stack) > 1 /\ {below.kind, top.kind} \subseteq Signed \cup Unsigned => Exact(below, top)
ComparisonsKeepOrder ==
  Len(stack) > 1 /\ {below.kind, top.kind} \subseteq Numbers =>
    LET units(x) == IF x.kind \in Floats THEN x.n ELSE x.n * Unit
        less(x, y) == Compare("<", x, y) = Bool(TRUE)
    IN  /\ less(below, top) => units(below) < units(top)
        /\ less(top, below) => units(top) < units(below)

OperatorsExact == ArithmeticExact /\ ComparisonsKeepOrder
=============================================================================
