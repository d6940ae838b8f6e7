--------------------------- MODULE MCAssignments ---------------------------
(***************************************************************************)
(* Four kinds of rules over one set of injected data: names that share     *)
(* data, arithmetic, containers, and calls.  Wide integers have 16 values, *)
(* the narrow ones 4; floats are halves and quarters of a few bits, fewer  *)
(* than an integer has, as in Go.                                          *)
(***************************************************************************)
EXTENDS Assignments

MCSize == [k \in Signed \cup Unsigned |-> IF k \in {"int8", "uint8"} THEN 4 ELSE 16]
MCMantissa == [k \in Floats |-> IF k = "float32" THEN 4 ELSE 8]

I(n) == Num("int64", n)
F(n) == Num("float64", n)
Text == Str(<<1>>)

Cell(k) == [kind |-> k]
Ptr(e) == [kind |-> "ptr", elem |-> e, methods |-> [x \in {} |-> ""]]
Struct(fs, ms) == [kind |-> "struct", fields |-> fs, methods |-> ms]
Func(ps, ws, rs) == [kind |-> "func", params |-> ps, writes |-> ws, returns |-> rs]

MCObjects ==
  [o |-> [Ptr("O") EXCEPT !.methods = [put |-> "put"]],
   O |-> Struct([A |-> "A", B |-> "B", G |-> "G", T |-> "T", P |-> "P"], [x \in {} |-> ""]),
   A |-> Cell("int64"), B |-> Cell("uint8"), G |-> Cell("float32"), T |-> Cell("string"),
   P |-> Struct([U |-> "U"], [take |-> "take"]), U |-> Cell("uint64"),
   n |-> Ptr("N"), N |-> Cell("uint64"),
   u |-> Cell("uint64"), i |-> Cell("int64"), e |-> Cell("interface"),
   m |-> [kind |-> "map", key |-> "string", elem |-> "float64"],
   k |-> [kind |-> "map", key |-> "int8", elem |-> "int64"],
   l |-> Ptr("L"), L |-> [kind |-> "slice", elem |-> "int64"],
   b |-> [kind |-> "array", elem |-> "uint8"],
   put |-> Func(<<"uint8">>, <<"B">>, {Invalid}),
   take |-> Func(<<"float32", "int64">>, <<"G", "A">>, {I(1)}),
   give |-> Func(<<>>, <<>>, {I(2), Num("uint8", 1)})]
MCBase == [x \in {"o", "n", "u", "i", "e", "m", "k", "l", "b", "give"} |-> x]
MCCells == {"A", "B", "G", "T", "U", "N", "u", "i", "e", "m", "k", "L", "b"}
MCAddressable == {"O", "A", "B", "G", "T", "P", "U", "N", "L"}

Mem ==
  [c \in MCCells |->
     CASE c \in {"m", "k"} -> [x \in {} |-> Invalid]
       [] c = "L" -> [x \in {0, 1} |-> I(x)]
       [] c = "b" -> [x \in {0} |-> Num("uint8", 1)]
       [] c = "T" -> Text
       [] OTHER -> Num(MCObjects[c].kind, 0)]
Mems == {[Mem EXCEPT !["U"].n = u, !["u"].n = n] : u \in {7, 15}, n \in {0, 11}}

Assigned(name, key, op) == [kind |-> "assign", name |-> name, key |-> key, op |-> op]
To(name) == Assigned(name, NoKey, "=")
At(name, key) == [name |-> name, key |-> key]
Empty == [mems |-> {Mem}, maxNodes |-> 4, statements |-> {}, constants |-> {}, names |-> {}, elements |-> {}, math |-> {},
         comparisons |-> {}, connectives |-> {}, not |-> FALSE, calls |-> {}]

Aliases ==
  [Empty EXCEPT !.statements = {To(<<"x">>), To(<<"y">>), To(<<"o", "A">>), To(<<"o", "B">>), To(<<"o", "T">>),
                               Assigned(<<"o", "A">>, NoKey, "+="), Assigned(<<"l">>, VarKey(<<"x">>), "=")},
               !.constants = {I(1)},
               !.names = {<<"x">>, <<"o", "A">>, <<"o", "T">>},
               !.elements = {At(<<"l">>, IntKey(1))},
               !.math = {"+"}]
Arith ==
  [Empty EXCEPT !.mems = Mems, !.maxNodes = 3, !.statements = {To(<<"n">>), To(<<"o", "G">>), Assigned(<<"k">>, IntKey(1), "="),
                               [kind |-> "condition"], [kind |-> "return"]},
               !.constants = {I(-8), I(3), F(-2), F(5), Text, Bool(TRUE)},
               !.names = {<<"n">>, <<"u">>, <<"o", "P", "U">>, <<"o", "none">>, <<"e">>},
               !.math = {"+", "-", "*", "/"},
               !.comparisons = {"<", ">="}, !.connectives = {"&&", "||"}, !.not = TRUE]
Contained ==
  [Empty EXCEPT !.maxNodes = 3, !.statements = {Assigned(<<"m">>, StrKey(<<1>>), "="), Assigned(<<"m">>, StrKey(<<>>), "="),
                               Assigned(<<"k">>, IntKey(1), "+="), Assigned(<<"k">>, VarKey(<<"x">>), "="),
                               Assigned(<<"l">>, VarKey(<<"i">>), "="), Assigned(<<"b">>, IntKey(0), "="),
                               To(<<"x">>)},
               !.constants = {I(2), F(1)},
               !.elements = {At(<<"m">>, StrKey(<<1>>)), At(<<"k">>, IntKey(1)), At(<<"k">>, VarKey(<<"x">>)),
                             At(<<"l">>, IntKey(-1)), At(<<"l">>, VarKey(<<"x">>)), At(<<"o">>, IntKey(0))}]
Called ==
  [Empty EXCEPT !.statements = {To(<<"x">>), [kind |-> "call"]},
               !.constants = {I(-1), F(10)},
               !.names = {<<"o", "A">>, <<"o", "B">>},
               !.math = {"+"},
               !.calls = {<<"give">>, <<"o", "put">>, <<"o", "P", "take">>, <<"x", "put">>}]
MCScopes == [aliases |-> Aliases, arithmetic |-> Arith, containers |-> Contained, calls |-> Called]
=============================================================================
