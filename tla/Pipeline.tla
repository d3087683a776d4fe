------------------------------ MODULE Pipeline ------------------------------
(***************************************************************************)
(* The compilation driver: ModuleIndexer, Compiler::add_script,            *)
(* CompilationPipeline and load_module, from the indexing of the module    *)
(* files to the end of AylaApplication::run.                               *)
(*                                                                         *)
(* One thread runs it all, by recursion: require() calls ensure(), ensure()*)
(* calls itself for the stages a stage depends on and then runs the stage; *)
(* the Resolver stage reaches an import, which calls load_module(), which  *)
(* calls require() for another unit.  The C++ call stack is therefore the  *)
(* state that decides everything, and it is a variable here.  No call of   *)
(* this chain catches an exception, so a throw ends the program.           *)
(*                                                                         *)
(* A unit is named by the normalised path of its file: units_by_path_ is   *)
(* one to one.                                                             *)
(***************************************************************************)
EXTENDS SourceText, FiniteSets

CONSTANTS Builtin,      \* the module every environment starts with
          File,         \* paths of source files
          Main,         \* the script given on the command line
          Listed,       \* the .ayla files found under the environment's root
          Unreadable,   \* in place of a text: the file cannot be opened
          Disks,        \* the contents of the disk to start from
          Edits,        \* what a file may be overwritten with meanwhile
          ImplicitName, \* ImplicitName[f]: the module name made from f's path
          RuleBook,     \* the rule sets a caller may pass to require()
          Requests      \* the top level calls: a stage and a rule set

StageId == {"Lex", "ModuleParser", "BuiltinModule", "Parser", "ModuleSetup", "Resolver",
            "Check", "Lowering", "Transpile", "SymbolCollector"}

(* CompilationRules::normal(): the stages it defines, and after which.     *)
Normal ==
  [s \in {"Lex", "Parser", "SymbolCollector", "Resolver", "Check", "Lowering", "Transpile"} |->
     CASE s = "Lex"             -> << >>
       [] s = "Parser"          -> <<"Lex">>
       [] s = "SymbolCollector" -> <<"Parser">>
       [] s = "Resolver"        -> <<"SymbolCollector">>
       [] s = "Check"           -> <<"Resolver">>
       [] s = "Lowering"        -> <<"Check">>
       [] s = "Transpile"       -> <<"Lowering">>]

(* CompilationRules::discovery().                                          *)
Discovery == [s \in {"Lex", "Parser"} |-> Normal[s]]

Failure == {"cyclic module dependency", "cyclic stage dependency", "stage not found",
            "file not readable"}

Text == Seq(Item) \cup {Unreadable}

ASSUME FilesAssumption == Builtin \in Module /\ Main \in File /\ Listed \subseteq File

ASSUME TextsAssumption ==
  /\ Unreadable \notin Seq(Item)
  /\ Disks \subseteq [File -> Text]
  /\ Edits \subseteq Text
  /\ ImplicitName \in [File -> Module]

(* Rule sets agree with normal() on the stages it defines; other stages    *)
(* are a caller's own.                                                     *)
ASSUME RulesAssumption ==
  /\ "normal" \in DOMAIN RuleBook
  /\ RuleBook["normal"] = Normal
  /\ \A r \in DOMAIN RuleBook :
       /\ DOMAIN RuleBook[r] \subseteq StageId
       /\ \A s \in DOMAIN RuleBook[r] :
            /\ RuleBook[r][s] \in Seq(StageId)
            /\ s \in DOMAIN Normal => RuleBook[r][s] = Normal[s]
  /\ Requests \subseteq [stage : StageId, rules : DOMAIN RuleBook]

VARIABLES
  request,      \* the top level require() of this run
  disk,         \* what the file system holds
  toIndex,      \* files ModuleIndexer::run has not linked yet
  registered,   \* the names in ModuleManager
  providers,    \* ModuleIndex: the files that declare a module, in order
  units,        \* UnitManager: the files that have a unit, in order of creation
  source,       \* Source: the text each unit has read, once and for all
  rooted,       \* the units whose _root the parser has set
  completed,    \* CompilationPipeline::completed_
  activeStages, \* CompilationPipeline::active_stages_
  activeUnits,  \* CompilationPipeline::active_units_
  stack,        \* the calls in progress, innermost last
  outcome       \* "running", "ok", or the exception that ended the program

index == <<toIndex, providers>>
pipe == <<completed, activeStages, activeUnits>>
vars == <<request, disk, toIndex, registered, providers, units, source, rooted,
          completed, activeStages, activeUnits, stack, outcome>>

(* A call in progress.  arg is the stage of a require, an ensure or a      *)
(* resolve, and the module of a load.  at is how far the call has got: the *)
(* next dependency, item or provider, counted from 1.                      *)
Frame == [op : {"require", "ensure", "resolve", "load"}, unit : File,
          arg : StageId \cup Module, rules : DOMAIN RuleBook, at : Nat]

Call(op, u, arg, r, at) == [op |-> op, unit |-> u, arg |-> arg, rules |-> r, at |-> at]

Elements(seq) == {seq[i] : i \in DOMAIN seq}

Top == stack[Len(stack)]
Running == outcome = "running"
In(op) == Running /\ stack # << >> /\ Top.op = op

Advance(st) == [st EXCEPT ![Len(st)].at = @ + 1]

(* The innermost call returns and its caller goes on to its next step.     *)
Return == LET rest == SubSeq(stack, 1, Len(stack) - 1)
          IN  IF rest = << >> THEN << >> ELSE Advance(rest)

(* A step that only moves through the calls.                               *)
GoTo(calls) ==
  /\ stack' = calls
  /\ UNCHANGED <<request, disk, index, registered, units, source, rooted, pipe, outcome>>

Throw(why) ==
  /\ outcome' = why
  /\ UNCHANGED <<request, disk, index, registered, units, source, rooted, pipe, stack>>

Init ==
  /\ request \in Requests
  /\ disk \in Disks
  /\ toIndex = Listed
  /\ registered = {Builtin}
  /\ providers = [m \in Module |-> << >>]
  /\ units = << >>
  /\ source = [f \in File |-> Unreadable]
  /\ rooted = {}
  /\ completed = [f \in File |-> {}]
  /\ activeStages = [f \in File |-> {}]
  /\ activeUnits = {}
  /\ stack = << >>
  /\ outcome = "running"
-----------------------------------------------------------------------------
(* ModuleIndexer::run: one file of the directory listing, whose order the  *)
(* standard leaves open.  Each file is opened here and, if it is ever      *)
(* loaded, opened again by add_script.                                     *)
IndexFile(f) ==
  /\ Running
  /\ f \in toIndex
  /\ disk[f] # Unreadable
  /\ toIndex' = toIndex \ {f}
  /\ registered' = registered \cup Declared(disk[f])
  /\ providers' = [m \in Module |->
                     IF m \in Declared(disk[f]) /\ f \notin Elements(providers[m])
                     THEN Append(providers[m], f)
                     ELSE providers[m]]
  /\ UNCHANGED <<request, disk, units, source, rooted, pipe, stack, outcome>>

IndexUnreadable(f) ==
  /\ Running
  /\ f \in toIndex
  /\ disk[f] = Unreadable
  /\ Throw("file not readable")

(* Compiler::add_script: the unit of a path is created once, with what the *)
(* file holds at that moment.                                              *)
CanAdd(f) == f \in Elements(units) \/ disk[f] # Unreadable

\* Variant: the text is read again for a path that has its unit.
AddScriptRereads(f) ==
  /\ units' = IF f \in Elements(units) THEN units ELSE Append(units, f)
  /\ source' = [source EXCEPT ![f] = disk[f]]

AddScript(f) ==
  IF f \in Elements(units)
  THEN UNCHANGED <<units, source>>
  ELSE /\ units' = Append(units, f)
       /\ source' = [source EXCEPT ![f] = disk[f]]

(* CompilationPipeline::require on a unit that is not active: it enters    *)
(* ensure() at once.                                                       *)
Require(f, s, r) ==
  /\ f \notin activeUnits
  /\ activeUnits' = activeUnits \cup {f}
  /\ stack' = stack \o <<Call("require", f, s, r, 0), Call("ensure", f, s, r, 0)>>

(* AylaApplication::run after the indexing.                                *)
Start ==
  /\ Running
  /\ toIndex = {}
  /\ units = << >>
  /\ CanAdd(Main)
  /\ AddScript(Main)
  /\ Require(Main, request.stage, request.rules)
  /\ UNCHANGED <<request, disk, index, registered, rooted, completed, activeStages, outcome>>

StartUnreadable ==
  /\ Running
  /\ toIndex = {}
  /\ units = << >>
  /\ ~CanAdd(Main)
  /\ Throw("file not readable")

\* Variant: the unit stays in active_units_.
RequireReturnKeepsUnit ==
  /\ In("require")
  /\ stack' = Return
  /\ UNCHANGED <<request, disk, index, registered, units, source, rooted, pipe, outcome>>

RequireReturn ==
  /\ In("require")
  /\ activeUnits' = activeUnits \ {Top.unit}
  /\ stack' = Return
  /\ UNCHANGED <<request, disk, index, registered, units, source, rooted, completed,
                 activeStages, outcome>>

Finish ==
  /\ Running
  /\ units # << >>
  /\ stack = << >>
  /\ outcome' = "ok"
  /\ UNCHANGED <<request, disk, index, registered, units, source, rooted, pipe, stack>>
-----------------------------------------------------------------------------
(* CompilationPipeline::ensure, from its entry (at = 0) through the        *)
(* dependencies of the stage (at in 1 .. Len(rule)), its run and its end.  *)
Rule == RuleBook[Top.rules][Top.arg]
Pending == Top.arg \notin completed[Top.unit]

EnsureCompleted ==
  /\ In("ensure")
  /\ Top.at = 0
  /\ ~Pending
  /\ GoTo(Return)

\* Variant: a stage that is already complete counts as active.
EnsureCyclicAgain ==
  /\ In("ensure")
  /\ Top.at = 0
  /\ Top.arg \in activeStages[Top.unit] \cup completed[Top.unit]
  /\ Throw("cyclic stage dependency")

EnsureCyclic ==
  /\ In("ensure")
  /\ Top.at = 0
  /\ Pending
  /\ Top.arg \in activeStages[Top.unit]
  /\ Throw("cyclic stage dependency")

(* The stage is made active, not found, and made inactive again.           *)
EnsureUnknown ==
  /\ In("ensure")
  /\ Top.at = 0
  /\ Pending
  /\ Top.arg \notin activeStages[Top.unit]
  /\ Top.arg \notin DOMAIN RuleBook[Top.rules]
  /\ Throw("stage not found")

EnsureEnter ==
  /\ In("ensure")
  /\ Top.at = 0
  /\ Pending
  /\ Top.arg \notin activeStages[Top.unit]
  /\ Top.arg \in DOMAIN RuleBook[Top.rules]
  /\ activeStages' = [activeStages EXCEPT ![Top.unit] = @ \cup {Top.arg}]
  /\ stack' = Advance(stack)
  /\ UNCHANGED <<request, disk, index, registered, units, source, rooted, completed,
                 activeUnits, outcome>>

EnsureDependency ==
  /\ In("ensure")
  /\ Top.at > 0
  /\ Top.at <= Len(Rule)
  /\ GoTo(Append(stack, Call("ensure", Top.unit, Rule[Top.at], Top.rules, 0)))

(* The code tests again that the stage is not complete before running it.  *)
(* Were it ever complete here, this model would deadlock.                  *)
AtRun == In("ensure") /\ Top.at > 0 /\ Top.at = Len(Rule) + 1 /\ Pending

(* The stages that run to their end without coming back to the pipeline.   *)
(* Of what they do, only a parsed root and the modules the collector       *)
(* registers matter to it; a stage that reports errors completes too.      *)
RunStage ==
  /\ AtRun
  /\ Top.arg # "Resolver"
  /\ rooted' = IF Top.arg = "Parser" /\ Parses(source[Top.unit])
               THEN rooted \cup {Top.unit} ELSE rooted
  /\ registered' = IF Top.arg = "SymbolCollector" /\ Top.unit \in rooted
                   THEN registered \cup Declared(source[Top.unit])
                          \cup {ImplicitName[f] : f \in {g \in {Top.unit} : StartsImplicit(source[g])}}
                   ELSE registered
  /\ stack' = Advance(stack)
  /\ UNCHANGED <<request, disk, index, units, source, pipe, outcome>>

RunResolver ==
  /\ AtRun
  /\ Top.arg = "Resolver"
  /\ GoTo(Append(stack, Call("resolve", Top.unit, "Resolver", Top.rules, 1)))

\* Variant: the stage stays in active_stages_.
EnsureReturnKeepsStage ==
  /\ In("ensure")
  /\ Top.at > 0
  /\ Top.at = Len(Rule) + 2
  /\ completed' = [completed EXCEPT ![Top.unit] = @ \cup {Top.arg}]
  /\ stack' = Return
  /\ UNCHANGED <<request, disk, index, registered, units, source, rooted, activeStages,
                 activeUnits, outcome>>

EnsureReturn ==
  /\ In("ensure")
  /\ Top.at > 0
  /\ Top.at = Len(Rule) + 2
  /\ completed' = [completed EXCEPT ![Top.unit] = @ \cup {Top.arg}]
  /\ activeStages' = [activeStages EXCEPT ![Top.unit] = @ \ {Top.arg}]
  /\ stack' = Return
  /\ UNCHANGED <<request, disk, index, registered, units, source, rooted, activeUnits, outcome>>
-----------------------------------------------------------------------------
(* Resolver::resolve_root walks the declarations in order.                 *)
ItemCount == IF Top.unit \in rooted THEN Len(source[Top.unit]) ELSE 0
\* Variant: what follows a rejected declaration is resolved too.
ImportsAbandoned(i) == source[Top.unit][i].kind = "import"
Imports(i) == IsImport(source[Top.unit], i)
ImportName == source[Top.unit][Top.at].name

ResolveOther ==
  /\ In("resolve")
  /\ Top.at <= ItemCount
  /\ ~Imports(Top.at)
  /\ GoTo(Advance(stack))

(* load_module of a name nobody registered: false, which the resolver      *)
(* drops.                                                                  *)
ImportUnknown ==
  /\ In("resolve")
  /\ Top.at <= ItemCount
  /\ Imports(Top.at)
  /\ ImportName \notin registered
  /\ GoTo(Advance(stack))

ImportKnown ==
  /\ In("resolve")
  /\ Top.at <= ItemCount
  /\ Imports(Top.at)
  /\ ImportName \in registered
  /\ GoTo(Append(stack, Call("load", Top.unit, ImportName, "normal", 1)))

\* Variant: the walk ends after the first item.
ResolveReturnEarly ==
  /\ In("resolve")
  /\ Top.at > 1
  /\ GoTo(Return)

ResolveReturn ==
  /\ In("resolve")
  /\ Top.at > ItemCount
  /\ GoTo(Return)

(* load_module: the files of the module, one after the other.              *)
Provider == providers[Top.arg][Top.at]
HasProvider == In("load") /\ Top.at <= Len(providers[Top.arg])

LoadProvider ==
  /\ HasProvider
  /\ CanAdd(Provider)
  /\ AddScript(Provider)
  /\ Require(Provider, "Check", "normal")
  /\ UNCHANGED <<request, disk, index, registered, rooted, completed, activeStages, outcome>>

LoadUnreadable ==
  /\ HasProvider
  /\ ~CanAdd(Provider)
  /\ Throw("file not readable")

\* Variants: an active unit is passed over, or waited for.
LoadActiveSkips ==
  /\ HasProvider
  /\ Provider \in activeUnits
  /\ GoTo(Advance(stack))

LoadActiveWaits ==
  /\ HasProvider
  /\ Provider \in activeUnits
  /\ UNCHANGED vars

(* require() of a unit whose own require() has not returned.               *)
LoadActive ==
  /\ HasProvider
  /\ Provider \in activeUnits
  /\ Throw("cyclic module dependency")

\* Variant: only the first file of a module is loaded.
LoadReturnFirst ==
  /\ In("load")
  /\ Top.at > 1
  /\ GoTo(Return)

LoadReturn ==
  /\ In("load")
  /\ Top.at > Len(providers[Top.arg])
  /\ GoTo(Return)
-----------------------------------------------------------------------------
(* The environment: somebody overwrites or removes a file.                 *)
Edit(f, t) ==
  /\ Running
  /\ disk[f] # t
  /\ disk' = [disk EXCEPT ![f] = t]
  /\ UNCHANGED <<request, index, registered, units, source, rooted, pipe, stack, outcome>>

Terminated == ~Running /\ UNCHANGED vars

Index == \E f \in File : IndexFile(f) \/ IndexUnreadable(f)

Ensure == \/ EnsureCompleted \/ EnsureCyclic \/ EnsureUnknown \/ EnsureEnter
          \/ EnsureDependency \/ RunStage \/ RunResolver \/ EnsureReturn

Resolve == ResolveOther \/ ImportUnknown \/ ImportKnown \/ ResolveReturn

Load == LoadProvider \/ LoadUnreadable \/ LoadActive \/ LoadReturn

Compile == \/ Index \/ Start \/ StartUnreadable \/ RequireReturn \/ Finish
           \/ Ensure \/ Resolve \/ Load

Next == Compile \/ (\E f \in File, t \in Edits : Edit(f, t)) \/ Terminated

Spec == Init /\ [][Next]_vars

(* The one thread of the program keeps running; nothing is assumed of who  *)
(* edits the files.                                                        *)
FairSpec == Spec /\ WF_vars(Compile)
=============================================================================
