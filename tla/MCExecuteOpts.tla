---- MODULE MCExecuteOpts ----
(* Options for TLC, on three rules of which two are equal in salience: what *)
(* the Execute methods ask for, with the selections, layers and batch sizes *)
(* that matter, what only ExecuteOpts itself can be asked, and batches      *)
(* whose sizes add up to more than the largest int.                         *)
EXTENDS ExecuteOpts, EntryPoints

MCSalience == [a |-> 2, b |-> 1, c |-> 1]
MCSortRules == <<"a", "b", "c">>

Opt(mode, sel, keep, cont, stag, n, m, dag) ==
  [Mode |-> mode, Selected |-> sel, PreserveOrder |-> keep, ContinueOnError |-> cont,
   StopTag |-> stag, N |-> n, M |-> m, DAG |-> dag]

(* all rules; one that is unknown; none that is known; one twice; unsorted *)
Selections == {<<>>, <<"b", "x">>, <<"x">>, <<"b", "b">>, <<"c", "a">>, <<"c", "b", "a">>}
Layers == {<<>>, <<<<"a", "b">>, <<"c">>>>, <<<<"c">>, <<>>, <<"a", "x">>>>}

WholeModes == {"Mix", "InverseMix", "Concurrent", "Unknown"}
DirectOptions ==
  {Opt(mode, sel, keep, cont, stag, 0, 0, <<>>) :
     mode \in WholeModes, sel \in Selections, keep \in BOOLEAN, cont \in BOOLEAN, stag \in BOOLEAN}
HugeOptions == {Opt(mode, <<>>, FALSE, FALSE, FALSE, MaxInt, MaxInt, <<>>) : mode \in NModes}

Arguments ==
  {[b |-> b, names |-> sel, n |-> n, m |-> m, dag |-> <<>>] :
     b \in BOOLEAN, sel \in {<<>>, <<"c", "a">>}, n \in 0 .. 2, m \in 0 .. 2}
  \cup {[b |-> b, names |-> sel, n |-> 1, m |-> 1, dag |-> dag] :
          b \in BOOLEAN, sel \in Selections, dag \in Layers}
MCOptions == OptionsOfMethods(Arguments, 0 .. 4) \cup DirectOptions \cup HugeOptions
====
