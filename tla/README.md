# A TLA+ development of gengine

gengine is a rule engine written in Go. A rule text is compiled by an ANTLR
parser into *rule entities*; a *rule builder* keeps them in a *knowledge
context*, both by name and sorted by salience; an *engine* executes them
against a *data context* in one of several modes; and an *engine pool* lets
many goroutines do so at the same time while an operator replaces, extends,
removes or clears the rules. This directory models the parts of that program
in which order, sharing and failure matter, checks the models with TLC and
proves the most important properties with TLAPS.

## 1. Inventory

| component | state | operations | interacts through |
|---|---|---|---|
| engine pool, instances (`engine/gengine_pool.go`) | `freeGengines`, `additionGengines`, their locks, `getEngineLock`; per instance a `DataContext` and a `returnResult` map | `getGengine`, `prepare*`, `ExecuteOpts`, `clearInjected`, `putGengineLocked`, `PluginLoader` | slices shared by calls and returning goroutines; `DataContext.base` shared with the plugin loader |
| engine pool, rules (same file) | `ruleBuilder`, `rbSlice[i].Kc`, `clear`, `execModel` | `UpdatePooledRules`, `UpdatePooledRulesIncremental`, `ClearPoolRules`, `RemoveRules`, `SetExecModel`, queries | `updateLock` between operators; nothing between an operator and running executions |
| rule builder (`builder/rule_builder.go`) | `Kc.RuleEntities`, `Kc.SortRules`, `Kc.SortRulesIndexMap` | `BuildRuleFromString`, `BuildRuleWithIncremental`, `RemoveRules`, `IsExist`, `BinarySearch` | `buildLock`; readers take no lock |
| engine (`engine/gengine.go`, `exec_opts.go`, `concurrency.go`) | `returnResult`, the goroutines of a batch, their collected errors | `ExecuteOpts` in eight modes, `runRulesConcurrently` | reads the knowledge context; runs rules on the data context |
| statement interpreter (`internal/base`) | local `Vars` of an execution, the AST | `Execute`/`Evaluate` of statements, `if`, `for`, `forRange`, `conc`, `return`, `break`, `continue` | data context; error values as control flow |
| data context (`context/data_context.go`) | `base`, two locks | `Add`, `Del`, `Get`, `GetValue`, `SetValue`, `SetMapVarValue`, `ExecFunc`, `ExecMethod`, `PluginLoader` | user objects by reflection |
| expressions and elements (`internal/base`) | none | `Evaluate` of expressions, atoms, calls, `MapVar` | read and write through the data context |
| core arithmetic and conversion (`internal/core`) | none | `Add`, `Sub`, `Mul`, `Div`, four conversions | pure |
| parser listener (`internal/iparser`) | a stack of AST holders, `ParseErrors` | one `Enter`/`Exit` pair per grammar rule | walks the parse tree |
| generated parser (`internal/iantlr`) | the stack of rule contexts, the current token, the state of error recovery | one function per grammar rule | calls the ANTLR runtime; its tree is what the listener walks |

### Behaviours that are hard here

* **Sharing of instances.** A call takes an instance, uses it and leaves it to
  a goroutine to hand it back; the instance's `DataContext` and result map
  survive from call to call. Lengths of the two slices are read without the
  locks that guard them.
* **Updates under running executions.** Rule updates hold `updateLock`;
  executions read `rb.Kc` with no lock, some of them once per rule name. The
  contexts of the instances are one shared object or one each, depending on
  which calls were made before.
* **Aliasing.** The incremental update edits a slice through a shadowing
  variable and relies on `append` working in place.
* **Failure and cancellation.** Eight modes combine serial and concurrent
  phases, each with its own answer to an error, a panic, a cancelled context
  and the `StopTag`.
* **Numbers of many kinds.** A value is stored under the kind of its place,
  computed with as `int64`, `uint64` or `float64`, and converted in four
  different ways for pointers, fields, elements and parameters.
* **Windows.** A `reflect.Value` may be a copy or a window onto a field or an
  element, through which later writes are seen.
* **Error recovery.** After a syntax error the parser drops, inserts or skips
  tokens and goes on, and the listener still walks what it has built.
* **Boundaries.** A search whose second number is zero in two different cases,
  an `int` sum compared from one side only, loops cut at 10 000 rounds.

`PROJECT.json` lists every hazard with its line and the properties that cover it.

### What makes each component correct

| component | must hold |
|---|---|
| pool, instances | an instance serves one call at a time; none is lost or duplicated; a call's data and results stay its own; every call is served in the end |
| pool, rules | between calls all instances have the rules the pool reports; an execution reads nothing older than the last call that returned; no rule vanishes on the way |
| builder | `RuleEntities` and `SortRules` hold the same rules, those asked for, sorted; what an execution is reading is never written |
| engine | salience order, phases that do not overlap, no goroutine left behind, no failure swallowed, fail-fast means fast, termination |
| interpreter | `break`, `continue`, `return` and errors end exactly the statements they should; every rule ends |
| conc block | map accesses exclude each other; the block waits for all, reports every failure once and always returns |
| data context | a name registered before the rule stays what it is; no lock is kept; data keep their types and what was stored is read back |
| expressions, arithmetic | exact where the result fits; nothing but an error for operands that do not; a local variable changes only when it is assigned |
| generated parser | every tree, of whatever text, has nodes the grammar's shapes begin with; operators group by level, to the left; it stops |
| parser listener | no type assertion fails on any tree; no node reaches the interpreter incomplete; a text without errors has all its rules registered |

## 2. Modules

| module | models | checked by | proved in |
|---|---|---|---|
| `PoolLease` | the abstract promise of the pool: grant, use, give back | refined by `GenginePool` | - |
| `GenginePool` | instances and calls of the pool | `MCGenginePool` | `GenginePool_proof` |
| `EntryPoints` | the Execute methods as options, the execution model of the pool | through `MCExecuteOpts` | - |
| `ExecuteOpts` | one execution in any of the eight modes | `MCExecuteOpts` | `ExecuteOpts_proof` |
| `PoolRules` | the rules of the pool and its instances | `MCPoolRules` | `PoolRules_proof` |
| `RuleBuilder` | the knowledge context down to slices and arrays | `MCRuleBuilder` | `RuleBuilder_proof` |
| `RuleReaders` | executions that read it meanwhile | `MCRuleReaders` | - |
| `BinarySearch` | the search, one loop round per step | through `RuleBuilder` | `RuleBuilder_proof` |
| `Interpreter` | one rule running: the statement tree, the call stack, the triples | `MCInterpreter` | `Interpreter_proof` |
| `ConcBlock` | the goroutines of a `conc` block on the data context's two maps | `MCConcBlock` | `ConcBlock_proof` |
| `Values` | numbers of every kind, arithmetic, comparison, conversion | through `Assignments` | `Assignments_proof` |
| `Assignments` | the statements of a rule that read and write data, and their expressions | `MCAssignments` | `Assignments_proof` |
| `GengineGrammar` | the parse trees of `gengine.g4` as shapes | through the next two | - |
| `GengineParser` | the generated parser with its error recovery | `MCGengineParser` | - |
| `ParserListener` | the walk that turns a parse tree into rule entities | `MCParserListener` | `ParserListener_proof` |

The modules divide the program by the question asked. `GenginePool` says who
has an instance and what is bound in it and leaves out which rules run;
`ExecuteOpts` says what happens on one instance between the start and the end
of an execution; `PoolRules` says which rule *set* an instance has while calls
change it; `RuleBuilder` says how one such change is carried out in memory;
`GengineParser` and `ParserListener` say what a text becomes before a builder
sees it, `Interpreter` what one rule of an execution does, `ConcBlock` what
happens inside one of its statements and `Assignments` what the others compute. They lean on each other: that an instance serves one execution at a time is an
assumption of `PoolRules` and a theorem of `GenginePool`; that nothing of an
execution runs after it has returned is what `GenginePool` takes `ExecuteOpts`
to guarantee (`NoRuleOutlivesTheCall`); that a rule ends is what `ExecuteOpts`
takes `Interpreter` to guarantee (`RuleTerminates`), and that a simple
statement comes back what `Interpreter` takes `ConcBlock` to (`BlockReturns`);
that no node lacks a child is what `Interpreter` takes `ParserListener` to
(`NodesComplete`), and that every node of the trees it walks is one of the grammar, or
cut short, is what `ParserListener` takes `GengineParser` to (`TreesFitTheGrammar`). One
syntax error may leave several nodes of a tree cut, the operand that failed and the
statements around it; `ParserListener` walks trees with one cut, and what
`NoPanic` rests on, which rule is met under which node and that each push has its
pop, is the same for each cut.
`RuleBuilder` and `BinarySearch` are composed by INSTANCE: the builder steps
through the search, and every search it makes meets what `BinarySearch` asks of
a caller (`SearchesSortedLists`, proved).

Definitions marked `Mutant` are not part of a specification. Each is a
plausible bug in the definition below it; putting it in that definition's place
makes TLC find one of the properties violated (`PROJECT.json`, "mutants").

### GenginePool

A request is one call of `GenginePool.ExecuteOpts`; a wrapper is its `tag`, to
which `rbSlice[tag]` and its `DataContext` belong. The steps of `getGengine`
are separate actions (`Lock`, `CheckFree`, `PopFree`, `CheckAddition`,
`PopAddition`), because a goroutine of an earlier call may append between the
unlocked read of a length and the pop. `Prepare` binds the data,
`StartExecute` empties the result map, `AddResult` is a rule returning a value
it found in the data context, `GetRulesResultMap` and `Panic` are the two ways
out of the execution, `ClearInjected` and `PutGengineLocked` the deferred
calls, `PutBack` the goroutine. `PluginLoader`, `PluginAdd` and `PluginReturn`
are the loop over all instances, which does not care who holds them. A bound
value is abstracted to who supplied it. Names of one call are bound and deleted
in one step: they are not looked at by anybody else, as the instance is
exclusively held, and `PluginAdd` touches other names.

### ExecuteOpts

`Plan` lays the rules of the chosen mode out in phases, each serial or
concurrent, with flags for what the code of that mode does on an error, on a
cancelled context and on the `StopTag`. Serial phases are `SerialStart`,
`SerialCancelled`, `SerialEnd`, `SerialPanic`, `SerialDone`; concurrent ones
(`runRulesConcurrently`) are `Launch`, `LaunchDone`, `GoStart`, `GoEnd`,
`Wait`. A batch looks at the context of its errgroup, `gctx`, which learns of a
cancellation later than `ctx` itself (`Propagate`). A rule ends with any of the
outcomes `RuleEntity.Execute` can report, including a value *and* an error,
which a return statement whose expression fails produces. `N + M` wraps at
`MaxInt`.

### EntryPoints

The six methods of `Gengine` that take a context, the 21 deprecated ones, their
namesakes of the pool and the three that go by the pool's execution model, each
a record field whose value is the options it passes on. `OptionsOfMethods` is what
callers can ask of `ExecuteOpts`, from which its run starts, next to options that
only `ExecuteOpts` itself can be given. The methods of the pool that go by a model
delete `reqName` and `respName` whether or not they were given anything, which is
the case of a call with data in `GenginePool`.

### PoolRules

`kcs` are the `KnowledgeContext` objects, `ruleBuilder` and `rbSlice` indices
into them, so that sharing is explicit. Each of the two maps of a context is a
set of names and the generation (the call) it came from. A call under
`updateLock` takes as many steps as it has stores an execution can come
between: one per instance, two for the two fields of a context. Executions
(`Execute`, `Check`, `Load`, `Lookup`) read as `resolveRules` and `execDAG` do:
for all rules the length and the slice, for selected rules the map once and
again for every name. What a text is to `makeRuleBuilder` and `getKc`, the two
ways in, is one of `Texts`: good, empty, too long, or refused by the lexer or the
parser; `getKc` checks neither the length nor the lexer. `Refuse` is a call that
returns an error and leaves all as it was. `InstancesAgree` compares what `IsExist`,
`GetRuleSalience` and `GetRulesNumber` answer with what executions find.

### RuleBuilder, RuleReaders and BinarySearch

`heap` holds the backing arrays of rule slices and a slice is an array and a
length, so that `append` in place, a shared array and a header stored in two
words can be told apart. What room `append` gives a slice it has to move is the Go
runtime's business: `GrownTo[n]` is any length of at least `n`. `NewKc` replaces the context (full build, removal);
`Incremental` copies, `Replace`, `Move` and `Add` are the rounds of the loop,
`PublishEntities` and `PublishWord` the stores into the live context. Rule
texts are the rules they compile to. `updateIncremental` in `gengine_pool.go` is the
same loop and an action of the same form; there and in the builder a `:=` inside the
loop shadows the slice, so that insertions in place are all that comes through.
`BinarySearch` steps through the loop of `tool.go`; `Search` is its instance on the
list at hand, and `Move` and `Add` begin with its `Start` and end with its `Return`.
`RuleReaders` adds executions, which load the two words of a slice header one by
one. Stores are assumed to become visible in program order, as on amd64: an
execution that sees a pointer sees what it points to.

### Interpreter

`stack` is the Go call stack, one frame per `Evaluate` in progress, and `out`
the triple (value, error, returned?) on its way to the caller. `SimpleStatement`
stands for assignments, calls and `conc` blocks, which give a value or an error;
`CompoundStatement`, `BreakOrContinue` and `EndOfBlock` for the rest of
`Statement.Evaluate` and the return statement; `BlockResumes`, `ForResumes` and
`RangeResumes` for what a caller does with the triple it gets back. Conditions
are the environment's choice, except that a `for` wants a number of rounds: one
above the cap stands for any condition that never fails. `Panics` unwinds to the
recover of the engine; assignments and calls recover their own. `failed`,
`returned` and `inLoop` are history.

### ConcBlock

Each statement of the block is a goroutine that takes the steps of
`Assignment.Evaluate` or of a call: right-hand side, look-up in `base` under
`lockBase`, look-up in `Vars` under `lockVars`, then the same again to store.
Entering a lock and the access under it are separate steps, so that two accesses
at once would be a state. A name is a variable, a registered pointer, or a
struct whose field is meant. Values are natural numbers, `=` and `+=` stand for
all operators. The embedder may add and delete names meanwhile. `Report` is
`safeCall` appending under `errLock`; there is no step in which that lock is
held, as nothing else is done under it.

### Values and Assignments

A value has a kind, a number and a text. Integer kinds have a few bits and wrap,
floats have a few significant bits and are rounded to the nearest, even on a tie;
a conversion gives the set of its outcomes, as Go leaves a float that does not fit an
integer kind undefined. `Add`, `Sub`, `Mul`, `Div` choose unsigned, signed or float
arithmetic as `math.go` does, by the prefix of the kind's name, under which an
interface counts as an integer. The four conversions are those of `SetSingleValue`,
`SetAttributeValue`, `GetWantedValue` and `ParamsTypeChange`, which differ: the first
three refuse a negative number for an unsigned kind, the last wraps it.

`Assignments` runs one rule over injected objects. An expression is evaluated left
to right and bottom up on `stack`, one action per node (`Constant`, `Variable`,
`Element`, `MathExpression`, `Comparison`, `Connective`, `Negation`, `OpenCall`,
`CloseCall`), the tree being chosen as it goes; a statement (`Assign`, `Condition`,
`CallDone`, `Return`) takes what is left. A value is a copy or a window (`at`) onto
a cell, as `reflect.Value` is. `GetValue`, `SetValue`, `MapVarEvaluate`,
`SetMapVarValue` and `Callee` follow the data context by the number of dots in a name
and by what the name leads to. A host function stores its arguments and returns one
of a set of values.

### GengineParser

A rule function is a body: a sequence of the calls it makes of the ANTLR runtime
(match one of a set of tokens, call a rule, sync, take an optional part, go round a loop,
choose an alternative, climb a left-recursive rule). The actions are what the
runtime does in them: `MatchToken`, or `DropToken`, `InsertToken` and `MatchFails`
when another token is there; `SyncPasses` and `SyncActs`; `Predict`, or
`NoViableAlt`; `Fold` and `ClimbEnds` by `Sempred`; and `ErrorExit`, in which every
function ends that has failed: it reports unless it is recovering, skips to a token
some caller waits for, and takes one token at least if it has failed here before. A
text is not given: a token is drawn when it is first looked at, also as the second
one (`LookAhead`). The runtime looks at the token after the current one in two places.
A token that does not fit is dropped exactly if the next one does. And at the loop
over `else if`, which is asked before the first and after every round
(`gengine_parser.go:3675`, `:3692`), `ELSE` decides nothing: with `IF` after it there is
another round (`PredictRound`), with `{` the loop ends (`PredictEnd`), and with anything
else `AdaptivePredict` finds no alternative, and `NoViableAlt` abandons the `ifStmt`
itself, with its expression, its statements and the rounds it has. Any other
token, even one that may not follow the statement, ends the loop, for `AdaptivePredict`
then settles for the alternative that has left the rule. What is simplified:

* a run of equal children is kept as two, which shapes do not tell from more;
* a run of tokens that is skipped counts as one against the length of the text;
* where it chooses between sub-rules, `AdaptivePredict` may take any alternative that
  can begin with the current token, and when several can it may also find none viable
  further on; the loop of an operator is decided by the operator;
* once the bound on errors is reached, whether the token after one that does not fit
  would have fitted is left open, so that the parser may drop it or not.

### GengineGrammar and ParserListener

A shape is the sequence of sub-rules of a node; repeated and optional parts are
helper rules without a listener call. `ParserListener` walks: `todo` is what the
walker still has to enter and exit, and entering a rule chooses its shape, so
that a run covers every tree, not one. After a syntax error a node may have any
prefix of a shape, which is what ANTLR's recovery leaves. The 23 kinds of nodes
that are pushed differ only in what they accept: a table per kind lists, for each
child, the fields it fills in order and whether one too many is an error.
`ExitNode` is the pop, peek, type assertion and `Accept` that all their exits
share; header rules, literals and operators have actions of their own.

## 3. What the runs show

| run | instance | states | shows |
|---|---|---|---|
| `pool` | 3 calls, 1 + 1 instances, one data key, one api, one plugin | 416 000 | wrappers conserved, unlocked length reads safe, data, results and plugins where they belong |
| `pool_liveness` | 3 calls, 1 + 1 instances, no data | 1 800 | `PoolLease` implemented with its liveness: every call served |
| `execute` | every Execute method on 3 rules, two equal in salience; 6 selections, 3 DAGs, N and M from 0 to 2 and `MaxInt` | 144 000 | order, phases, an outcome that tells every failure and claims nothing undone, fail-fast, termination |
| `builder` | 3 names, 3 saliences, 2 calls of any kind | 109 000 | the two forms agree, are as asked and sorted; arrays in use untouched; every search over a sorted list |
| `builder_torn` | 2 names, full and incremental updates, 1 execution | *violated* | an execution can take half of each of two slices |
| `rules` | 2 instances, 2 names, 3 calls with good and bad texts, 1 execution at a time | 506 000 | agreement, visibility, nothing lost |
| `rules_cleared` | as `rules`, 2 calls | *violated* | a panic after `ClearPoolRules` |
| `interpreter` | 174 rules: ifs, loops around ifs, loops around loops; 0 to 3 rounds, cap 2 | 34 000 | return and errors end the rule, flags stop at the loop, loops step and run their rounds, every rule ends |
| `conc` | 3 blocks of 3 statements that meet at a variable, a field, an added name; 2 `Add` or `Del` | 65 000 | exclusion, complete error report, effects of the successes, each in its place, return |
| `assignments` | 4 kinds of rules of up to 3 or 4 expression nodes over 11 names | 157 000 | data keep their types, what was stored is read back, arithmetic exact or an error, locals own their value |
| `parser` | 11 sets of tokens, texts with 4 to 11 tokens chosen freely, up to 3 errors each | 841 000 | nodes fit the grammar, operators group to the left by level, the parser stops |
| `listener` | 2 rules with headers, statements two deep, or expressions, calls and arguments two deep; one cut | 2 028 000 | no failed assertion, nodes complete, the rule is registered under its own header, accepted texts whole |

Each property of a passing run is broken by a mutant of the code
(`PROJECT.json`, "mutants"). Type invariants are part of the inductive invariants
and proved (`GenginePool`, `PoolRules`, `RuleBuilder`, `BinarySearch`, `ConcBlock`)
rather than checked; `DataWellTyped` is no such thing, but a property of the program: what
reflection stores has the type of its place.

The two runs that are violated are the disagreements between the code and what it
says of itself; `PROJECT.json` "findings" quotes the lines.

**Peculiarities** of the code that the models keep, without a run of their own, as
nothing in the repository says they should be otherwise:

* pool: a call whose key is the name of an api takes that api away; the methods that
  go by a model delete `reqName` and `respName` even when given nothing
  (`GenginePool`, `EntryPoints`);
* engine: an empty selection runs every rule; `N + M` wraps and the slice expression
  panics; a rule whose return statement fails leaves an entry in the result map
  (`ExecuteOpts`);
* interpreter: a `for` that wants exactly `maxExecuteNum` rounds fails; a condition
  that is not a bool panics (`Interpreter`, `Assignments`);
* expressions: `&&` and `||` evaluate both sides and are of one level, so that
  `a || b && c` groups to the left; arithmetic on an interface panics; an injected
  pointer to a number can be assigned but not computed with;
* windows: a field, or an element of a slice or an array, that is all there is on the
  right-hand side of an assignment to a local variable makes it a window;
  `LocalsOwnTheirValue` is about everything else;
* conversion: a negative number is refused for an unsigned place but wraps for an
  unsigned parameter; an element of a narrow unsigned or float kind takes no
  integer; a number assigned to a text becomes `<int64 Value>`;
* elements: assigning the result of a call that has none deletes a map entry; an
  empty text as a key is the integer 0; an index that a variable gives panics when
  out of range, a literal one is an error;
* parser: `primary` does not ask for the end of the text, so that what follows the
  last rule is ignored; after a syntax error operators may group otherwise
  (`OperatorsGroupLeft` is about nodes without one), in trees nobody executes.

**Why the bounds suffice.** Two instances, one of each kind, are the smallest
pool `NewGenginePool` accepts, and three calls make one of them wait and reuse
an instance another has used. Three rules give every mode a batch of more than
one and a rest; equal saliences make the stability of the sort visible. In the
builder three names allow a rule to be moved past another, with a third to be
overwritten by mistake. Two calls are enough: the first reaches every sorted list
of the three rules, `RulesAsAsked` and `IndexMapInverse` say that it leaves
nothing else behind that a second could depend on, and the second makes up to three
changes to it in any order. Arrays grow to the least power of two, so that some
insertions find room and others do not. More calls, longer lists and other growth are
covered by the theorems. Three calls for the pool's rules include every
sequence that unshares the contexts (`RemoveRules`), shares them again and
clears them. One execution at a time is enough there because executions write
nothing that another could read; `MaxRunning` is a parameter and the theorems
hold for any value. The cap of loops is 2 instead of 10 000 and a loop may want
one round more: below, at and above the cap are all there is. Two levels of a
recursive grammar rule make every rule a parent and a child of every other it
can meet, and an `Accept` method looks at one node only. Two writers of one
variable are the fewest that can lose an update; the third goroutine is the one
that would be stuck behind a lock.

Wide integers have 16 values and narrow ones 4, so that every operation both
fits and overflows and a conversion narrows; floats have 2 and 3 significant bits,
fewer than a wide integer, as in Go, so that they round. Four nodes are an operator with
two operands and one more, or a call with two arguments; two statements meet through
the data they share. The parser's scopes divide the grammar: each takes the tokens of a few rules and
leaves enough of them free to nest a rule in itself and to go wrong before,
in and after it; what a scope leaves out can only be met where error recovery skips it.

**Bounds in guards.** `MaxCalls` (`RuleBuilder`, `PoolRules`), `MaxRunning`
(`PoolRules`), `MaxRounds` (`Interpreter`), `Nests` and the single
cut (`ParserListener`), `MaxHost` (`ConcBlock`), `maxNodes` of a scope
(`Assignments`), `free` and `maxErrors` of a scope (`GengineParser`; after so many
errors a text goes on as the grammar asks, or ends) are the only ones. Deadlock is
checked except where a model really stops: calls that have returned, executions,
rules and texts that have ended, calls used up.

**Fairness.** `GenginePool` assumes that goroutines that can run do, that rules
end, and that `getEngineLock` is granted to a call that keeps trying (`SF` on
`Lock`): Go's mutex switches to FIFO hand-over once a waiter has waited a
millisecond. Nobody has to make a call or load a plugin. `ExecuteOpts` assumes
weak fairness of the calling goroutine and of the goroutines of a batch. That
rules end is justified for the rule language by `maxExecuteNum`
(`for_stmt.go:11`); host functions called from rules are assumed to return.
`Interpreter` and `GengineParser` assume that the one goroutine that walks the tree
or parses the text goes on. `ConcBlock` assumes that every goroutine of
the block runs again and again when it can (`SF`, as locks are contended and
Go's mutex does not starve a waiter) and that the embedder leaves `Add` and
`Del`.

## 4. What is proved

All theorems hold for every value of the constants that satisfies the named
assumptions.

* **GenginePool** (assumptions `PoolLengths`, the check of `NewGenginePool`,
  and `DistinctValues`). `EveryWrapperOnce` and `NoEmptyPop` are not inductive
  alone: the pop is safe because only the holder of `getEngineLock` shortens a
  slice and everybody else lengthens it. `PoolInv` adds `LockHolder` (the call
  inside the critical section is the one the lock names, and where it is) and
  `LeaseHolder` (who has a wrapper). From it follow `TypeCorrect`,
  `WrappersConserved`, `NoPopOfEmptySlice` and `LeaseImplemented`, the safety of
  the refinement of `PoolLease`.
  A second invariant over `PoolInv` says what is bound in an
  instance as a function of the place of the call that holds it. `ResultsIsolated`
  needs no more; `DataIsolated`, `InstanceRestored` and `PluginEverywhere`
  assume that callers' keys differ from the host's names: a call whose key is
  the name of an api deletes that api with its data (`gengine_pool.go:563`), so
  the assumption cannot be dropped.
* **ExecuteOpts**. `Joined` ties the place of the calling
  goroutine to what may be running: nothing outside a phase, one rule in a
  serial phase, only the current phase in a batch. `FailureKept` says that a
  failure in a fail-fast phase has ended the run or is among the errors the wait
  will find. From them `NothingLeftRunning`, `PhasesApart` and
  `NothingStartedAfterFailure`, for any rules, options and number of phases,
  without any assumption.

  What an execution tells its caller depends on the modes, and on `SortedRules`
  (the builder's list is sorted, which is proved of `RuleBuilder`) and
  `OptionsAssumption` (options are ints, flags and slices of names). An error that
  ends a phase may be returned alone, forgetting those collected before: `Shape` says
  of every mode's plan where such a phase may stand (first, or behind a batch that
  lets no error pass), `Collected` that nothing was there to be forgotten then, and
  `Behind` that as long as nothing was reported every rule behind the caller has
  been run. `SumWraps` settles which batch sizes get past the checks
  (`BatchesFit`). Together they are `Told`, and give `OutcomesHonest`. For
  `SalienceOrder`, `Ranks` shows that the stable sort gives every position one rule
  and `Sorted` that the result descends, `PlanInOrder` that every mode cuts the sorted list in order, and
  `InTurn` that a phase behind the caller is done as long as a rule may start.
* **PoolRules** (assumption `PoolConstants`). The invariant says of every
  context, detached ones included, that its maps are the rules of the
  generation they are marked with (`Marked`), of every instance that it is not
  older than the last call that returned (`Recent`), and for each place of the
  call which instances are up to date (`Progress`). From it `TypeCorrect`,
  `AgreeBetweenCalls`, `UpdatesVisible` and `NothingLost`.
* **RuleBuilder** (assumption `BuilderConstants`: finitely many names, and `append`
  gives the room asked for). `RulesAsAsked` speaks of the moments between calls and is
  far from inductive: what an update has done when it stops half-way must be said of
  its copy, its private array and the part of the text it has not reached. `BuilderInv`
  has one part for each:
  * `Memory`, `Control`: every slice lies in an array, and the local variables are
    those of the place the call is at;
  * `Private`: the array the update edits belongs to no slice that was ever published.
    This is what makes `append` in place harmless, whatever room the array has;
  * `Asked`: the rules asked for are those in the copy with those still to be visited
    put over them (`Owed`); the order in which Go visits a map does not matter;
  * `Live`, `Copy`: a list is the rules of a map, each once and sorted (`Listing`), and
    the index map is its inverse (`IndexOf`), for the live context and for the copy;
  * `Stored`: which of the stores of the publication are done; `Searched`: the list the
    search at hand runs on is that of the copy without the rule to be entered; and the
    search's own invariant, `SearchInv`.

  From it `BuilderRulesAsAsked`, `BuilderIndexMap` and, for every step,
  `BuilderKeepsPublished`. The lemmas it rests on are about inserting into, removing
  from and moving within a sorted list without repetition.
* **BinarySearch** (no assumption but the builder's: `ListsSorted`, what the search asks of
  the lists it is given, is proved of every list with that order). The loop invariant (everything
  left of `low` is greater, everything right of `high` smaller, a zero `mid` is
  a match at the front or no match) gives `SearchInRange` and
  `SearchKeepsOrder` for lists of any length. `BuilderSearches` adds that the builder
  gives it no others: its steps are steps of `BinarySearch`, and a search begins on a
  sorted list only.
* **Interpreter** (assumption `CapAssumption`). `AnswerInv` says that
  once a value was returned or an error raised nothing below runs: the answer is
  the triple under way, and it is that value or a real error. It is inductive,
  as every caller hands it on. From it `AnswerEnds`, for any statement trees
  and any cap. `LoopInv` says of every loop on the call stack how its counters stand
  at the point it has reached, and that a loop with something above it is in its
  body; `LoopsRun` follows, which is about the step in which a loop leaves the
  stack. `FlagsStay` is inductive once a break under way is tied to a loop among
  the callers.
* **Assignments** (assumptions `ValueConstants`, `Declared`, `Operators`). `IntegersExact` is
  about the operators of `Values`, with integer kinds of any even size, the actual
  ones included: a result is computed at the width of `ResultKind`, a conversion to
  it adds a multiple of its size (`WrapShifts`), and adding, subtracting and
  multiplying respect that (`RingOperations`), so that a result that fits is the
  exact one. `NoPanicInArithmetic` holds of every rule over every data: by the kinds
  of its operands each operation gives a number, a text or an error, and only an
  interface reaches a panic of `reflect`.

  What rules do to data is proved of injected objects of any number and shape, in
  three invariants, each leaning on the one before:
  * `TypedInv`: data and the values on the stack and in local variables are of their
    declared kinds (`Sound`), where a value is its own, an object, or a window onto an element
    that is there (`Ref`). It is inductive because every store keeps the shape of
    the data (`Shaped`: slices keep their lengths, so that no window dangles) and every
    conversion yields a value of the kind it converts to, or fails. Calls need
    that each has its arguments above those of the calls around it (`CallsOK`). From it
    `DataStaysTyped`, and `OperatorsAreExact`: rounding keeps the order of numbers
    (`RoundMonotone` and the lemmas on the spacing of floats it rests on), so that
    comparing as `float64` never puts the larger number first.
  * `LocalsInv`: a local variable that was not assigned a bare field or element is
    `Steady`, something no store reaches; `LocalsKeepTheirValue` follows.
  * `ReadInv`: the assignment just done is read back. What a store put into a cell or an element
    is what its target's name leads to in the next state (`Reached`), under the same key
    (`KeyKept`, for which a key variable has to be steady), and every conversion
    leaves a value that its target holds the same (`SingleSame`, `AttributeSame`,
    `WantedSame`). `AssignedIsReadBack` follows.

  `Declared` says what Go's type checker guarantees of the host's data: a pointer,
  a field or a function's target exists and is of its type, and a value injected
  without a pointer is a copy that nothing else leads to. `Operators` says that the
  operators and names are the grammar's, literals and what functions return are values of their kinds, and
  data are well typed when the rule starts. Of floats `ValueConstants` says that a
  `float32` has no longer mantissa than a `float64` and that spacings are powers of two.
* **ConcBlock** (assumption `BlockAssumption`). That two goroutines exclude each
  other is not inductive without saying who a lock names: `BaseLocked` and
  `VarsLocked` tie the place of each goroutine to the lock. `Failures` follows a
  failure from the place where it is about to be reported into `eMsg`, `Started`
  gives that all have ended when the block has, and `Registered` that no name
  that stays registered is ever on its way into `Vars`. From them `TypeCorrect`,
  `AccessExclusive`, `FailuresReported` and `PointersStayPointers`, for blocks of
  any length. `EffectsAreOfSuccesses` counts: the sum over the children that succeeded
  is taken apart one child at a time, by induction on the size of a finite set.
  The library's induction is out of the prover's reach, so `Induction` states it of
  sets instead of predicates: a set of numbers that holds 0 and the successors of its
  members is all of `Nat`, because a finite segment of it cannot map into a smaller one.
* **ParserListener** (assumption `ListenerAssumption`; no tree is too deep for it, as
  nothing is asked of `Nests`). That a type assertion does not fail is a fact about two
  tables, the shapes of the grammar and what the nodes accept, and about how far the
  walk and the stack have come. `AllChildrenFit` settles the tables: every sub-rule in
  a shape, or in any prefix of one, is met under a node that accepts it, be it the node
  of the rule itself or, for rules without a node, the one they belong to (`Fit`).
  `ListenerInv` does the rest: there are heights `L` such that the walker comes to its
  `i`-th step when the stack is `L[i]` high, and the node then on top is one that step
  fits (`Aligned`). For the headers, `Fronted` says that a literal read into a rule is
  read just before its name, description or salience is left, so that none in the body
  is; `Told` that from then on the listener's copy of the header and the fields of the
  rule agree; and `HeaderKept` with the count of the rules registered and open that no
  rule replaces another. From them `ListenerNoPanic` and `ListenerEveryRuleItself`, for
  any number of rules, any depth, and trees that a syntax error cut at any one place: the
  bound of one cut per text is in the model, and the theorems keep it.
  `ListenerNodesComplete` says what the interpreter relies on, and it needs to know
  what is still to come: for each node on the stack, the children it has already and
  the names of the calls still due to it (`Pending`) are together a way to build a
  complete node of its kind (`Form`), and between its own exit and that of the node
  above it no other node is closed (`Whole`). `WholeInv` says so of every stack while
  no error was found, and is inductive with `ListenerInv`: a node that is pushed has a
  whole shape to come (`FormBegins`), each child handed over uses up the head of what
  is pending (`FormTakes`), a sub-rule without a node is replaced by its own shape in
  place, and a node with nothing to come is complete (`FormEnds`). TLC checks
  `NodesComplete` itself; `WholeInv` asks for a function of the stack and is left to
  the prover.

**Only model-checked**: liveness (`ImplementsLease`'s, `ExecutionEnds`, `RuleTerminates`,
`BlockReturns`, `ParseEnds`), which is beyond the prover; `TreesFitTheGrammar` and
`OperatorsGroupLeft` of `GengineParser`, which needs recursive operators for the first
tokens of a body, out of the prover's reach; and the runs `builder_torn` and
`rules_cleared`, which are about violations.

## 5. What is not modelled

* The lexer, whose tables the ANTLR runtime interprets, and the listener and visitor
  interfaces generated with it, which hold no code but empty methods: a text is a
  sequence of tokens. The ANTLR runtime is modelled from how the generated code
  calls it (external in `PROJECT.json`).
* Opening a plugin's shared object; the pool's part of loading it is modelled.
* Infinities and not-a-number: divisions by zero are refused before they arise, and
  sums and products that overflow a `float64` are out of the range of the models.
* Two elements of one map assigned side by side in a `conc` block: `SetMapVarValue`
  takes no lock, Go ends the process or tears the map, and neither is a state of the
  program. It is listed as a hazard.
* `GetExecModel`, which reads one word without the lock, `SetMaxRuleLength`, which
  stores one, and the nil checks of `is_nil.go`.
* Memory models weaker than amd64, and what the Go runtime does about a data
  race beyond tearing a slice header.

## 6. Plan

Done, in this order: `GenginePool` with `PoolLease` (checked, proved);
`ExecuteOpts` (checked, its safety proved); `PoolRules`, `RuleBuilder`,
`BinarySearch` (checked, proved, the last two composed); `Interpreter`
(checked; its safety proved); `ConcBlock` (checked, its safety proved);
`GengineGrammar` with `ParserListener` (checked, its safety proved); `EntryPoints` (checked with
`ExecuteOpts`); `Values` and `Assignments` (checked, their safety proved); `GengineParser`
(checked).

Next, in order of importance:

1. Composition: `RuleBuilder` shown to implement the map view `PoolRules` takes of
   it; `PoolRules` with `ExecuteOpts` running the rules it resolved; `Interpreter` as the
   refinement of the outcome `ExecuteOpts` lets a rule have.
2. `ConcBlock` with the statements of `Assignments`, so that the windows and
   elements of one goroutine meet those of another.
3. Proofs: `GengineParser` with its recursive
   operators turned into functions.
