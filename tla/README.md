# Ayla: a TLA+ model of the compiler front end

Ayla is a small language; `celestia` is its compiler framework and `ayla` the
program built on it (C++23, one thread, nothing persisted, no automated tests).
`ayla run <script>` indexes the `.ayla` files under a root directory, compiles
the script up to type checking, loading the modules it imports on the way, and
prints tokens, tree and diagnostics. This directory holds TLA+ modules that
follow that code, the TLC configurations that check them and the TLAPS proofs
about them.

All paths below are relative to `src/src/celestia` unless they say otherwise.

## 1. Inventory

| Component | State | Operations | Hard behaviours |
|---|---|---|---|
| **Driver** (`../ayla/AylaMain.cpp`, `../ayla/comand`) | none | parse the command line, bootstrap, index, add the script, require Check, print | a missing script; an exception leaves `run` |
| **Bootstrap, language tables** (`../ayla/bootstrap`, `../ayla/language`, `core/table`) | token table and trie, operator table, builtin scope and types | register, once | the tables hold pointers into themselves and are copied into the environment |
| **Compilation pipeline** (`compiler/CompilationPipeline.hpp`, `CompilationRules.*`, `Compiler.cpp`, `ModuleLoader.hpp`) | `completed_`, `active_stages_`, `active_units_`, and the C++ call stack | `require`, `ensure`, `add_script`, `load_module` | recursion through imports, circles, files that fail in the middle, work half done when an exception passes |
| **Module index and registries** (`compiler/ModuleIndexer.hpp`, `semantic/module`, `UnitManager`, `source_manager`) | module names, their files in order, units by path, sources | `link`, `register_module`, `add`, `create`, `get_or_create` | a file is read twice; the order of a directory listing |
| **Lexer** (`syntax/lexer`, `core/source`, `utils/Utf8.hpp`) | position, line, column | comments, strings, numbers, identifiers, newlines, operators by longest match | truncated UTF-8, unterminated strings and comments, dots after numbers |
| **Parser** (`syntax/parser`, `core/token/token_stream.hpp`) | token position, checkpoints, the tree | one function for each construct, `speculate`, synchronisation | three-valued results, tokens consumed before a failure, operator precedence, recovery |
| **Symbol collector, scopes** (`semantic/collector`, `scope`, `symbol`) | symbols, scopes, the stack of scopes, node tables | `declare_symbol`, `enter_scope`, one function for each declaration | redeclarations, scopes shared by the files of a module |
| **Resolver, name lookup** (`semantic/resolver`, `semantic/module/ModuleLookup.cpp`) | node tables, the stack of scopes | one function for each node; imports call the pipeline | names resolved before another file declares them |
| **Type checker, type table** (`semantic/checker`, `semantic/types`, `compiler/TypeManager.hpp`) | types, types by symbol, types of nodes, the current function | `check`, `infer`, `resolve_type`, `build_type`, interning | declaration order, partial types after an error |
| **Arena** (`core/memory/Arena.hpp`) | blocks and offsets | `allocate`, `reset` | alignment, objects larger than a block |
| **Diagnostics** (`diagnostic`) | a list for each unit | report, format, cut a line, underline | slices of no line or of several lines |
| **Lowering, IR, transpiler** (`lowering`, `ir`, `transpiler`) | - | the two stages have their bodies commented out | - |
| **Tree, dumpers** (`ast`, `../debug`), **file discovery** (`file`, unused) | - | data types, printing | - |

How they interact: everything is a direct call on one thread. `Compiler::require`
enters the pipeline, whose stages run the lexer, the parser, the collector, the
resolver and the checker on one unit; the resolver, on an import, calls
`load_module`, which adds the files of the imported module as units and calls
`Compiler::require` on each, so the stages of several units are nested in one
call stack. The tables they share are in `CompilerEnvironment`. No call of this
chain catches an exception.

What makes each part correct: the pipeline runs every stage once, after those it
depends on, finds exactly the circular imports, ends, and leaves no unit half
built; the registries are functions of names and paths; the lexer's slices are
disjoint and ordered; the parser consumes what it accepts, gives back what it
speculates, and nests operators by their precedence; a name resolves to the
innermost declaration, whatever the order of files; a type has one identity; two
allocations do not overlap.

## 2. Plan

The order was by importance; what is *left* is for later.

1. `SourceText`, `Pipeline`, `PipelineProperties`, `BuildOrder` (done): imports,
   stages, exceptions; the pipeline implements the abstract build order.
2. `PipelineProofs` (done): the inductive invariant, all safety properties and
   the refinement of `BuildOrder`.
3. `Names` (done): collector, scopes and resolver over several files of several
   modules, against lexical lookup in the text; its loads implement
   `BuildOrder`. `NamesInvariant` and the `Names...Proofs` (done): every property
   of the runs, from the scopes to what the resolver leaves unbound.
4. `TokenStream`, `ParserSteps`, `ParserExpressions`, `ParserDeclarations`,
   `Parser` (done): the whole recursive descent, against a reading of the
   expressions by precedence alone and a list of sound texts. *Left*: theorems
   about `TokenStream` and about the machine (checkpoints are given back).
5. `TypeTable`, `Interning`, `TypeTableProofs` (done), `Checker` (done): one
   identity for each type, and the types a program's nodes get against those of
   its text. `Checker` is recursive over trees and stays with TLC.
6. `Lexer`, `LexerProofs` (done): bytes to tokens. `Arena`, `Allocating`,
   `ArenaProofs` (done). `Diagnostics` (done): reports, the cut of the line, the marks under it.

## 3. Modules

**`SourceText`** is what the pipeline can tell of a file: a sequence of items,
each a module header, an import, a malformed header, or a declaration the parser
rejects. Its operators say which modules a file declares to the indexer
(`ModuleIndexer::link` looks for `module` keywords and skips what it cannot
parse), whether a parse sets a root (`Parser::run` returns early on a malformed
header), and which imports reach the tree (`parse_module_body` returns on the
first rejected declaration, so the rest of that module is lost up to the next
header). The import nodes stand where they stood, which is the order the
resolver meets them in.

**`Pipeline`** is the program from `ModuleIndexer::run` to the end of
`AylaApplication::run`. The C++ call stack is the variable `stack`, a sequence
of frames: `op` is the function (`require`, `ensure`, the resolver's walk
`resolve`, `load` for `load_module`), `unit` the file it works on, `arg` its
stage or module, `at` its position in the loop it is in. The other variables are
the fields of the same names (`activeUnits` is `active_units_` and so on);
`source` is the text a unit has read, which `disk` may no longer hold; `rooted`
says whether `_root` is set. Each action is one step of one function on top of
the stack: `Require` pushes, `EnsureCompleted`, `EnsureCyclic`,
`EnsureUnknown`, `EnsureEnter`, `EnsureDependency`, `RunStage`, `RunResolver`
and `EnsureReturn` are the exits and calls of `ensure`; `ResolveOther`,
`ImportUnknown`, `ImportKnown` and `ResolveReturn` those of the resolver;
`LoadProvider`, `LoadUnreadable`, `LoadActive` and `LoadReturn` those of
`load_module` with the `require` it calls. An exception sets `outcome` and
leaves everything else, the active sets included, as it was. `Edit` is somebody
else who overwrites or removes a file at any moment. The stages other than the
resolver are one action, `RunStage`: they run to their end without coming back
to the pipeline, and the pipeline sees of them only the root the parser sets and
the modules the collector registers. A stage that reports diagnostics completes
like any other, as in the code.

**`PipelineProperties`** states the properties, the refinement mapping and the
inductive invariant. **`BuildOrder`** is the abstract specification: units have
stages, a stage is done after those before it, the linking stage of a unit after
the check of every unit it uses, and each once. **`MCPipeline`** has the small
instances. **`PipelineProofs`** has the proofs: first those about calls and stages,
then those about circles, errors, loads and the build order.

**`Names`** is `SymbolCollector` and `Resolver` on several files. The trees of
all files are one list of nodes in the order of the text, each with its depth,
its kind, its name and the module that qualifies it (`tree`, which no step
changes; `Programs` are those to start from). The children of a node are a set
of later nodes (`Kids`), ordered by their numbers, so the next child of a walk is
the least one that is left; nothing here recurs over the tree. The variables are the tables they share
(`modules`, `scopes`, `symbols`), the node tables of `SemanticInfo` (`symbolOf`,
`scopeOf`), the redeclarations that were reported, and for each file the
`ContextStack` of the walk it is in. Ids are positions, 0 is the invalid id.
`stack` holds the calls in progress: `collect_node` and `resolve_node` of a node
with the child they have come to, the pipeline on a file, and `load_module` on
an import. `Collected(n)` and `Resolved(n)` are the children
the two walks visit, which is not all of them:

* the last expression of a block is its value, which the parser keeps apart from
  the items and which neither walk visits;
* the collector enters no expression and no initializer, so the declarations
  inside an `if` or `while` have no symbol; blocks open no scope;
* the module's init block, which the parser makes of the expressions that stand
  between declarations, is visited by both (`CollectInit`);
* the resolver skips the inside of `type`, `capability`, `impl` and function
  types, goes on to the annotation of a pattern and to the constraints of a
  generic parameter only if they have a symbol, to the value of an assignment
  only if the target has one, and never to the fields of a struct literal: it
  asks for the `TypeId` of the literal's type, which the checker sets later.

`CollectOpening`, `CollectLeaf`, `CollectImpl` and `CollectModule` are the
declarations with a scope of their own, those without, and the two that have no
symbol; `CollectRedeclared` is the early return of all of them.
`ResolveEntered` pushes the scope of a module, function, struct or enum, which
is the invalid one for a redeclared declaration, and `ResolveUse` looks a name
up. `LoadProvider` compiles a file inside an import. Of the pipeline, `Names` has
only that: a module's files in order, those already compiled skipped, and the
exception for a file in progress. `ImplementsOrder` says that this is enough:
mapped to two stages for each unit, collected and resolved, every behaviour of
`Names` is one of the `BuildOrder` that `Pipeline` implements too.

**`NamesProperties`** compares the tables with the text: `HomeOf` is the
declaration around a node, `Candidates` what a name ought to mean; neither looks
at scopes, parents or contexts. **`MCNames`** has the trees. **`NamesInvariant`**
is the inductive invariant, proved in layers: **`NamesCallsProofs`** (what is
above, below and beside a node, the calls in progress, and the build order),
**`NamesTablesProofs`** (scopes, entries, redeclarations, and what the walks have
still before them), **`NamesProofs`** (the contexts, each action, and the
theorems on scopes, meanings and bindings) and **`NamesServedProofs`** (what the
resolver leaves behind).

**`TokenStream`** is the class of that name: a position, the checkpoints, and
what each operation does to them.
**`Parser`** is one machine for all functions of the parser. Each function is a
sequence of steps in the vocabulary of **`ParserSteps`** (test, match, consume,
call, build a node, report, return one of the three results), written down in
**`ParserExpressions`** and **`ParserDeclarations`** in the order of the code,
and `Rule` gives them by name. A state has the stream, a frame for each call in
progress with the steps it has left, the nodes that were allocated with their
slices (in tokens), and the reports; an action carries out one step. Templates
(`parse_delimited_list`) are operators with parameters. A token is its kind; the
contents of names and literals matter to nobody here. A null pointer that is
read ends a behaviour with the outcome "undefined". **`ParserProperties`** has
the properties, **`MCParser`** the token sequences.

**`Lexer`** works on bytes of sixteen kinds: those letters, digits, quotes and
signs that the code tells apart, the first byte of a two-byte character
(`"lead"`) and its second (`"tail"`). `position` is `TextStream`, with line and
column; an action is one round of `Lexer::tokenize`, taken by the match function
that succeeds. `AfterComments`, `StringEnd`, `NumberEnd`, `IdentifierEnd` and
`FindOperator` are their loops, each written as `Until`: the states it runs
through, those it stops at, and what one round does. **`LexerProperties`** says
what tokens are on the bytes, without positions or loops; a gap between tokens
is cut at places from each of which a blank, a comment or a lost character leads
to another (`Void`). **`LexerProofs`** proves all of it, **`MCLexer`** has the
sources.

**`TypeTable`** is `TypeManager`: types by id, ids by symbol, and the search for
an instance. **`Interning`** is what it promises. **`Checker`** is `TypeChecker`
on the declarations of a sequence of units; one step checks one declaration with
everything below it (`Check`, `Infer`, `Resolve`, `BuildFunction` and
`BuildStruct` are the functions of those names, from a state to a type and a
state). What the resolver found is part of the input. Nodes are known by their
path. The order of the assignments is kept: a function type is in the table
before its parameters are, a struct's symbol has its type before its members do.
**`CheckerProperties`** has a typing that is defined on the text alone
(`Meaning`), **`MCChecker`** the programs.

**`Arena`** is the class: blocks where the heap puts them, an offset in each,
and `allocate` with the call it makes of itself. The heap may refuse a block:
`allocate` then leaves everything as it was (`OutOfMemory`), `reset` leaves no
block at all (`ResetOutOfMemory`). `back()` of no block would be undefined; nothing
in the repository catches the exception, so nobody allocates after it. **`Allocating`**
is what an allocator promises.

**`Diagnostics`** goes from a report to the lines under the source line.
`Report*` are the report functions with the slices they give, the empty one for
what has no place in the text (the `bool` that a condition should be) included;
the diagnostic with its primary slice and labels is chosen among all that a file
of these tokens can have. `CutLine` is `LineCutter::cut`, byte by byte;
`PrepareLabel` and `SortAnnotations` are the loop and the sort of
`prepare_labels`. A byte knows whether it begins a character, how many bytes
that has and how many columns. **`DiagnosticsProperties`** counts characters and
columns instead.

Operators named in a comment `Variant:` are alternatives to the definition after
them, each a plausible mistake (a dropped guard, an early return, a missing
reset). TLC finds the property that `PROJECT.json` names beside each violated
when the variant takes the definition's place; the specification uses none.

## 4. Runs

| Run | Instance | What it shows |
|---|---|---|
| `modules` | script and two files, every pair of 12 texts for the files and 6 for the script; and script and three files of two modules | circles of files are refused, and nothing else (`CycleIsReal`, `CycleIsFound`), exactly what is needed is loaded (`LoadsOnlyNeeded`), and every step of the pipeline is a step of `BuildOrder` or changes nothing there (`ImplementsOrder`) |
| `edits` | fewer texts; any file may be rewritten or removed at any time; each stage requested under four rule sets | what is compiled stays what was read (`SourceFrozen`), `require` fails exactly when the rules are wrong for the request (`StageErrorIsReal`), an import leaves its module checked (`ImportsChecked`), the program ends (`Termination`), and the invariant of the proofs is one (`Inductive`) |
| `names` | one file, every pair of 12 declarations of x, y and a builtin name; and 4 scripts with every pair of 10 texts for two files | scopes follow the nesting of the text (`ScopesFollowTree`), a name has one meaning in one place (`OneMeaning`), exactly the clashes are reported and stay without symbols (`Redeclarations`), names are bound to the innermost declaration (`BindsInnermost`) and the order within a file does not matter (`NothingMissed`), also where modules share a scope and imports nest the walks; after an import a qualified name finds what the module declares (`ImportedNamesResolve`); files are resolved in an order that `BuildOrder` allows (`ImplementsOrder`) |
| `parser` | `let x = E` for every E of up to four tokens and chains of three operators with parentheses and prefix operators; 12 texts with every declaration and expression, all their beginnings, and every text with one token dropped or replaced | the tree is the one that precedence and associativity ask for (`OperatorsNest`), exactly the well-formed expressions are read to their end (`ExpressionsRead`), slices contain those of their parts (`SlicesNest`), the parser ends (`Terminates`); who says "no match" has consumed nothing, with the exceptions listed (`NoMatchConsumesNothing`); sound texts pass without a word (`SoundIsAccepted`); and three things the grammar does not lead one to expect (`UnbuiltForms`, see below) |
| `lexer` | every source of up to 4 of 16 kinds of bytes, up to 5 of quotes, backslashes and comment marks | tokens are the longest possible (`LongestMatch`), what is between them is blank, comment, unknown or an unterminated string (`NothingLost`), line and column of a place count the newlines and characters before it, and the line of that number that `SourceBuffer` cuts is the one the place is on (`LinesAgree`); no position is behind the end of the source unless the source ends in half a character (`TypeOK`) |
| `type_table` | three symbols, four types, instances of up to two arguments, nested | a type is given one id and keeps it (`KeepsPromise`), and the recursion of `is_assignable` finds nothing that comparing ids has not (`AssignableIsSame`) |
| `checker` | two of some two hundred declarations, in one unit or two, in every order, and many threes | types given are those of the text (`TypesAreRight`), what can be known is accepted (`WellTypedIsAccepted`), what is lost is reported (`LossesReported`: operands alone fail silently, annotations bind, every field is accounted for), no half-built type is in use (`NoHalfBuilt`), returns belong to their function (`ReturnsMatch`) |
| `arena` | blocks of 4 bytes at even addresses of a small memory, five kinds of objects | the invariant of the proofs (`Inductive`), objects are aligned (`Aligned`), and the arena implements `Allocating` (`Allocates`): each step makes one object apart from all others |
| `diagnostics_snippets` | files of up to 3 pieces of 7 kinds and 5 of 3 (letters, accents, ideographs, emoji, combining marks, blanks, newlines); every report on their tokens | the cut is made of whole characters of the line, with dots where it was cut (`CutIsOfTheLine`), marks stand under what they mark (`MarksUnderLabels`), each visible label is explained once, in order (`EachLabelOnce`) |

Three runs end in a violation, of something the code or its messages say:

* `module_cycle` (`OnlyModuleCyclesRefused`). The exception of
  `CompilationPipeline.hpp:18` says "cyclic module dependency", but what is
  active is a unit, that is a file. A file that holds module A, which imports B,
  and then module B, provides B to itself: importing A is refused, although no
  module depends on itself.
* `no_script` (`MissingScriptReported`). `AylaMain.cpp:27-30` reports "script not
  found" when `add_script` returns null, and `Compiler.cpp:16` tests for a null
  source. Neither can happen: `Source`'s constructor loads the file and throws.
* `diagnostics_labels` (`LabelsAreShown`). A redeclaration is reported without a
  primary slice, so its label is never shown. A type mismatch is shown at the
  last token of the file, and its labels are dropped when they are on another
  line.

`UnbuiltForms` records what the parser does against the look of the grammar,
where nothing in the repository says otherwise: a member access, an index and a
call are written with their first token twice (`PostfixIsDoubled`), `<` is never
a comparison (`LessIsNoComparison`), a block holds one item at most
(`BlocksHoldOne`).

The models also have the following, which no run is about: a call that the end
of the file leaves open after a comma is built as if it were closed
(`ParserExpression.cpp:740`); the ways out of `parse_while_expression` marked
"report error" report nothing; a word that ends in half a character at the end of
the file has a slice behind its end, against the assertion of
`SourceBuffer.hpp:46`; of the mismatches that `../ayla/src/primitive_mismatch.ayla`
lists, the character is accepted as a String, because the lexer knows one kind of
quotes; a function declared in a block that a variable is initialized with is
resolved but never collected, so it has no symbol and no report; an import in an
`impl`, or one that is the value of a block, is never loaded (`NothingMissed` and
`UsedBy` leave both aside).

**Bounds.** Texts have at most four items; two files suffice for a file that
imports itself, two that import each other, and a module in two files, three for
a longer circle and for a file imported along two paths. Modules are A, B,
`builtin` and the implicit names of the files. `Edits` are a removal and one new
text. For `Names` two declarations of the same names are enough for a clash, for one
that hides the other, and for a use before, inside and after; the script adds a
use of its own before both. Two files give a module in two parts, a module that
a file of another imports, and a circle. `Int` stands for the builtin types.
For the parser, expressions of four tokens and chains of
three operators put every pair of levels, and each associativity, next to one
another, and a token sequence one edit away from a sound one is where recovery
happens; the nesting of brackets is at most three. For the lexer four bytes hold
every operator of the table with what may follow it, a comment with its end, and
a number with two dots. The context of a cut is 2 characters instead of 30
(`StartContext`, `EndContext`), so that a line of five characters is cut on both
sides. `MaxTypes` is 4 in `type_table`, enough for an instance of an instance
beside another, and 12 in the checker, which never reaches it. For `Pipeline`
and `Names` there is no bound on the depth of the stack: it is finite because the
program is, which `Termination` checks.

**Fairness.** `FairSpec` adds `WF_vars(Compile)`, where `Compile` is the
disjunction of the program's own actions: the one thread keeps running until the
program ends. Nothing is assumed of `Edit`. `Termination` needs no more: it says
that the recursion itself ends. `Parser` adds `WF_vars(Next)` for the same reason:
it is a loop on the one thread, which nothing else can stop. `Names`, `Lexer`,
`Checker`, `Arena`, `TypeTable` and `Diagnostics` have no liveness property; in
the first, no step repeats a state and deadlock is checked. A program that has ended stays as it is
(`Terminated`, `Ended`), so a deadlock of `Pipeline` or `Names` is a place where the model
has no answer for what the code does; there is none. `Parser`, `Lexer`,
`Checker`, `TypeTable` and `Diagnostics` simply stop when they are through, and
deadlock is not checked for them; `Terminates` tells where they may stop.

## 5. Proofs

Everything in this section is proved for all values of the constants. TLC checks
the same formulas on the instances of section 4; where a run has the formula as
a property, the table says which.

### Pipeline

For every set of files, every text, every rule set and every edit:

| Theorem | Statement | Run |
|---|---|---|
| `TypeCorrect` | `Spec => []TypeOK` | |
| `ActiveSetsAreTheStack` | `Spec => []ActiveIsStack` | |
| `StagesInOrder` | `Spec => []DependenciesFirst` | |
| `ImportsAreChecked` | `Spec => []ImportsChecked` | `edits` |
| `SourcesAreFrozen` | `Spec => SourceFrozen` | `edits` |
| `InvariantHolds` | `Spec => []Inductive` | `edits` |
| `CyclesAreReal` | `Spec => []CycleIsReal` | `modules` |
| `CyclesAreFound` | `Spec => []CycleIsFound` | `modules` |
| `OnlyNeededIsLoaded` | `Spec => []LoadsOnlyNeeded` | `modules` |
| `StageErrorsAreReal` | `Spec => []StageErrorIsReal` | `edits` |
| `PipelineImplementsOrder` | `Spec => ImplementsOrder`, that is `BuildOrder!Spec` under the mapping | `modules` |

They rest on the assumptions `Pipeline` declares: the script and the listed files
are files, the builtin module is a module, texts are sequences of items, a
caller's rule set agrees with `normal()` on the stages that `normal()` defines.
The first three say what the constants are. The last one is what the code
relies on when it gives `CompilationRules::normal()` to every nested `require`:
`completed_` is shared by all rule sets.

The argument. `ImportsChecked` is not inductive: that the resolver has passed an
import says nothing unless the frames below it are known to be in the loop that
loaded it. The invariant has layers, each proved on top of the one before.

1. *Typed* (`TypeOK`, `Chain`, `Loaded`): each frame waits for the one above it
   in the only way the code allows (a `require` for its `ensure`, an `ensure`
   for its next dependency or for the resolver's walk, the walk for the load of
   the module it stands at, a load for the `require` of its next file), and only
   files with a text have frames.
2. *Entries* (`ActiveIsStack`): an active entry is a frame, and one frame. Here
   the guards of `require` and `ensure` are used.
3. *Built* (`Progress`, `DependenciesFirst`, `ImportsChecked`): every frame has
   achieved what its position says. A frame that returns hands what it has
   achieved to the one below, which is what that one needs to move on.
4. *Waiting*: a load is of a module that the unit below imports, and each unit
   on the stack other than the top one waits for the next `require`. So the
   units from an active file to the top are a chain of imports, and a `require`
   of that file closes a circle (`CycleIsReal`).
5. *Ruled*: the rule set of a frame is the caller's for the script and
   `normal()` elsewhere, where every dependency stands before its stage
   (`Place`): no error of rules can come from a file that is imported
   (`StageErrorIsReal`).
6. *Compiled*: whatever was required is in progress or through, and no set of
   files behind their Resolver stage has a circle: the file that gets there last
   would import one that is not there yet (`CycleIsFound`).
7. *Ended*: what the outcome says of the stack it leaves.

For `BuildOrder` the steps are mapped one by one: a stage that completes has the
stages before it, and the Resolver stage the checks of the units used; all else
is a stutter. `BuildOrder!Spec` has no fairness, so this is all of it; that the
program ends is `Termination`.

### Names

For any files, modules, names and trees (`ProgramsAssumption`: the list of nodes
is a forest in the order of the text with one root for each file, and has the
shape that the parser gives it):

| Theorem | Statement | Run |
|---|---|---|
| `InvariantHolds` | `Spec => []Inductive` (module `NamesInvariant`) | |
| `ScopesAreDeclarations` | `Spec => []ScopesFollowTree` | `names` |
| `NamesMeanOneThing` | `Spec => []OneMeaning` | `names` |
| `RedeclarationsAreReported` | `Spec => []Redeclarations` | `names` |
| `NamesBindInnermost` | `Spec => BindsInnermost` | `names` |
| `NamesAreNotMissed` | `Spec => []NothingMissed` | `names` |
| `ImportedNamesAreFound` | `Spec => []ImportedNamesResolve` | `names` |
| `NamesImplementOrder` | `Spec => ImplementsOrder`, that is `BuildOrder!Spec` under the mapping | `names` |

None of the properties is inductive: what `declare_symbol` enters depends on the
scope on top of a `ContextStack`, which depends on every push and pop before, in
walks that were interrupted by the walks of other files. The invariant says, in
this order:

1. *Calls* (`Chain`): each call is at a node of its file and waits at the child,
   the stage or the file that the one above it works on. `Supported` and
   `Nested` say what the stack looks like for one file: a compilation in the
   right stage at the bottom, then nodes each below the child the one before has
   come to. A file is therefore in one walk at a time, and a walk that waits in
   an import finds its own tree as it left it.
2. *Pending*: what a walk has still before it is as it was at the start: no
   symbol, no scope, no report; names unbound until the resolver comes by. So a
   declaration never overwrites, and a name is bound once.
3. *Contexts* (`InContext`): the `ContextStack` of a walk holds exactly the
   scopes of the declarations around it, outermost first. The scope that is
   current at a node is then that of its innermost declaration (`HomeScope`),
   even though the depth of the two stacks differs.
4. *Tables* (`Scoped`, `ScopesFollowTree`, `Entries`): a parent is an older
   scope, a scope belongs to one declaration or one module, an entry of a table
   is a symbol of that scope and name, and every symbol is entered. `OneMeaning`
   follows: two symbols of one name and home would be one entry.
5. *Redeclarations* (`Accounted`, `Avoided`, `RedeclaredStaysDark`): a reported
   declaration has nothing in the tables, because its name has an entry; below
   it the collector never goes, and the resolver goes only with the invalid scope
   on its stack, in which every lookup fails.
6. *Settled*: what the collector has come by and could reach has a symbol, a
   scope or a report.

`Lookup` recurs over parents, which are smaller numbers. `FindExists` shows that
the recursion has a value; that it finds the innermost declaring home
(`LookupFromHome`) is shown with the least home for which it would not, and the
one around that. A qualified name starts at the scope of its module, which all
parts of the module share, and goes on to the builtin one.

The build order needs the calls alone and one more invariant, `Linked`: a load
that has come past a file, a walk that has come past an import and a compilation
that has come past its resolver have left the files compiled that this takes.
What makes it inductive is that the resolver comes to every import that counts
(`OnTheWay`): nothing it may skip, in whatever state the symbols are, has such
an import below it. A stage is completed by the return of its walk to the
compilation, once for each file, because a file has one compilation on the stack
(`Nested`) and none when it is compiled.

What the resolver leaves behind takes one invariant more, `Passed`: in a file
that has come to its resolver, a name that the resolver visits is still before
one of the walks in progress (`Upcoming`) or is `Served`: if it is unbound, no
symbol of its name is in a scope around it but those that files collected later
have entered (`Elsewhere`); if an imported module qualifies it and exports it, it
is bound to what the module declares. A name is served at the moment the resolver
comes to it. The scope it looks in is that of the innermost declaration, the
lookup goes through all the others, each of which has a scope by now (`Settled`,
and `Homed`: a declaration with a symbol has its scope), and the import before it
has been loaded to the last file (`Linked`), so that what those files declare is
in the tables. It stays served, because the tables only grow, and only by
declarations of files that have not come to their resolver (`Grows`). Whether a
node is visited changes while the walk goes on, since a generic type or an
assignment opens its children only once it has a symbol; a name that becomes
visited this way is still before the walk (`NewlyVisited`). Nothing is before a
walk in a file that is through, which gives both theorems.

### Type table

`TypeTableProofs` proves, for any symbols, bounds and arities:

| Theorem | Statement | Run |
|---|---|---|
| `TypesAreInterned` | `Spec => []Interned` | |
| `TableKeepsPromise` | `Spec => KeepsPromise`, that is `Interning!Spec` under the mapping | `type_table` |
| `OnlyItselfIsAssignable` | `Spec => []AssignableIsSame` | `type_table` |

`Interned` is inductive as it stands: the table is only appended to, by an entry
that the search did not find, and the ids by symbol point to the types of those
symbols. For the refinement, the key that a new type is asked for by is not among
those given out, and its id is the next one. The recursion of `is_assignable`
goes from an instance to its arguments, which have smaller ids. Equality of ids
is a solution of it, because equal arguments make one entry, and the only one:
of the pairs on which two solutions differ, the one with the smallest first id
has arguments on which they agree.

### Arena

`ArenaProofs` proves, for any block size, any requests of positive size and
alignment, and any addresses the heap may choose:

| Theorem | Statement | Run |
|---|---|---|
| `ArenaInvariant` | `Spec => []Inductive` | `arena` |
| `ObjectsAreDisjoint` | `Spec => []Disjoint` | |
| `ObjectsAreInBlocks` | `Spec => []InBlocks` | |
| `ObjectsAreAligned` | `Spec => []Aligned` | `arena` |
| `AllocateGrowsOnce` | `Spec => []GrowsOnce` | |
| `ArenaAllocates` | `Spec => Allocates`, that is `Allocating!Spec` under the mapping | `arena` |

That objects are apart does not follow from itself: a new object is apart from
the old ones because those lie in the used part of its own block (`InBlocks`) or
in other blocks, which are apart from it (`BlocksApart`, an assumption about the
heap, `FreeFor`). That `allocate` calls itself once rests on `SecondCallFits`:
the second call finds an empty block with room for the object and its alignment.
That there is a last block during a call is part of `TypeOK`: only a `reset` that
fails leaves none, and no call begins after it.

### Lexer

For any sources and any table of operators and keywords:

| Theorem | Statement | Run |
|---|---|---|
| `LexerTypes` | `Spec => []TypeOK` | `lexer` |
| `NothingIsLost` | `Spec => []NothingLost` | `lexer` |
| `TokensAreLongest` | `Spec => []LongestMatch` | `lexer` |
| `LinesAreRight` | `Spec => []LinesAgree` | `lexer` |

`TablesAssumption` is what `Tokens.cpp` shows of the tables: their entries are
ASCII and not empty, a keyword begins with a letter or an underscore, no operator
begins with a blank. Nothing is assumed of a source but that it is bytes: the
first theorem holds where characters are cut in half. The other three speak of
well-formed sources, as the properties do.

The invariant `Lexed` says that the stream and the ends of all tokens are at
places it can have come to (`Reached`), and in a well-formed source at exact ones
(`Exact`: at the beginning of a character, with the line and the column that the
bytes before it have), and that the tokens so far are the longest, with nothing
lost up to where the stream is. What it takes:

1. *Loops* (`LoopEnds`): a loop whose every round goes from a good state to a
   good state, with something that grows and has a bound, ends in a good state at
   which it stops. That the function `Until` is defined from has a value is shown
   on the states by how much they have left to grow (`LoopExists`).
2. *One lemma for each match function* says on the bytes where its loop stops:
   `AfterLineEnds`, `BlockEndEnds`, `CommentsEnd`, `StringEnds`, `NumberEnds`,
   `WordEnds`, `OperatorEnds`. The good states are those between which the loop
   has found nothing. For a string they are the places behind an even number of
   backslashes, which is why a backslash takes the character after it along. For
   an operator they are the nodes of the trie that agree with the text, with the
   longest entry passed so far; an operator that fits is on the path, since all
   its beginnings are nodes.
3. *Gaps* (`VoidFacts`): gaps put together are a gap, so what a round passes over
   is added to what came before it.
4. *Counting* (`AdvanceExact`): one character adds one to the column, or a
   newline to the lines. As every loop moves by characters, places stay exact
   (`ExactKept`).
5. *Lines* (`CountedFound`): the lines of `SourceBuffer` that begin up to a place
   are the first, and one behind each newline before it (`BegunFacts`), and the
   last of these is the line the place is on (`LastLine`). A place counted right is
   therefore found on the line of that number, except behind a newline that ends
   the source: there the number is one more than the lines there are.

### How the proofs are laid out

Each step of a program is a case, and under it there is one step for each part of
the invariant it can disturb. Where several actions move a stack in the same way,
the move has its own lemmas (push, return, enter, stay) and the action says which
one it makes. Facts about recursive definitions are proved on sets of numbers:
the least counterexample, or the least number up to which no function exists. The
induction theorems of the library, which take an operator, are not needed.

### Checked by TLC only

* Liveness: `Termination` of `Pipeline`, `Terminates` of `Parser`. The prover has
  no rule for fairness here.
* All of `Checker`: it recurs over trees with `RECURSIVE` operators, which the
  prover does not take.
* All of `Parser` and `Diagnostics`. What their properties compare with (a
  reading of a whole text by precedence, the columns of a line) is computed by
  recursion over the input, so that a proof would have to follow the recursive
  descent, rule by rule; no theorem about them has been attempted.

## 6. Not modelled

* *The command line, bootstrap as a sequence of calls, and the text of
  diagnostics and dumps* are straight-line code; what the tables hold
  afterwards is in the initial states and the constants of `Names`, `Checker`,
  `Lexer` and `ParserExpressions`.
* *Lowering, IR and the C transpiler*: the bodies of both stages are commented
  out and nothing calls the rest. *File discovery* is unused as well.
* *Paths*. Two paths that name one file (a symbolic link) are two files to the
  code and to the model. `load_module` ignores the path of `import ... from`,
  which is therefore not part of an item.
* *`Names`* leaves out what no lookup reads: the kind and visibility of a symbol
  and the list of imports of a module (a qualified name is looked up whether the
  module is imported or not, and falls back on the builtin module through the
  parent scope). Expressions that the resolver has no case for (match) are not
  visited by the code and not in the trees. A name that only a later file of the
  same module declares stays unbound, or bound to a builtin: `NothingMissed`
  therefore speaks of one file.
* *`Checker`* leaves out what no program reaches: struct literals, which
  `parse_struct_literal` would build and nobody calls, and the check of an array
  against an expected instance, since a generic annotation never resolves
  (`infer` has no case for a type). Names in patterns other than plain ones have
  no type in the code.
* *`Lexer`* reads bytes of two-byte characters only; `Diagnostics` has one to
  four bytes. `LongestMatch`,
  `NothingLost` and `LinesAgree` speak of well-formed text only.
* *`Diagnostics`* assumes well-formed text, and leaves out `caret()`, which
  nothing calls, and the connectors' drawing. What lies in front of the buffer,
  which a cut without a line reads, is not modelled; where it begins is.
* *Stages are not composed into one state machine*: `Pipeline` has each stage as
  far as it can come back to the pipeline, and the other modules take what the
  stage before hands over as their input.
