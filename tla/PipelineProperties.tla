------------------------- MODULE PipelineProperties -------------------------
(***************************************************************************)
(* What must hold of Pipeline.                                             *)
(***************************************************************************)
EXTENDS Pipeline

TypeOK ==
  /\ request \in Requests
  /\ disk \in [File -> Text]
  /\ toIndex \subseteq File
  /\ registered \subseteq Module
  /\ providers \in [Module -> Seq(File)]
  /\ units \in Seq(File)
  /\ source \in [File -> Text]
  /\ rooted \subseteq File
  /\ completed \in [File -> SUBSET StageId]
  /\ activeStages \in [File -> SUBSET StageId]
  /\ activeUnits \subseteq File
  /\ stack \in Seq(Frame)
  /\ outcome \in {"running", "ok"} \cup Failure

Depth == 1 .. Len(stack)
Requiring(i) == stack[i].op = "require"
Ensuring(i) == stack[i].op = "ensure" /\ stack[i].at > 0

(* active_units_ and active_stages_ are exactly the calls in progress, one *)
(* call for each entry: an entry that outlived its call would make a later *)
(* require() report a cycle that does not exist, and a missing one would   *)
(* let the recursion run for ever (CompilationPipeline.hpp:18-22, 33-56).  *)
ActiveIsStack ==
  /\ activeUnits = {stack[i].unit : i \in {j \in Depth : Requiring(j)}}
  /\ \A f \in File :
       activeStages[f] = {stack[i].arg : i \in {j \in Depth : Ensuring(j) /\ stack[j].unit = f}}
  /\ \A i, j \in Depth :
       /\ Requiring(i) /\ Requiring(j) /\ stack[i].unit = stack[j].unit => i = j
       /\ Ensuring(i) /\ Ensuring(j) /\ stack[i].unit = stack[j].unit
            /\ stack[i].arg = stack[j].arg => i = j

(* A completed stage has the stages it depends on behind it, and a stage   *)
(* that is being run is not complete yet (the second test of ensure()).    *)
DependenciesFirst ==
  \A f \in File, s \in DOMAIN Normal :
    /\ s \in completed[f] => Elements(Normal[s]) \subseteq completed[f]
    /\ completed[f] \cap activeStages[f] = {}

(* The files that the imports of a loaded unit stand for.                  *)
Uses(f) ==
  IF f \in Elements(units)
  THEN UNION {Elements(providers[m]) : m \in ImportsOf(source[f])}
  ELSE {}

(* When the Resolver stage of a unit is complete, every file of every      *)
(* module it imports has been checked: no import was passed over because   *)
(* of another file of the same module, a registered name without files, an *)
(* earlier import or a nested load (ModuleLoader.hpp:16-23).               *)
ImportsChecked ==
  \A f \in File : "Resolver" \in completed[f] => \A g \in Uses(f) : "Check" \in completed[g]

(* A set of files that each use another file of the set.                   *)
Cyclic(S) == S # {} /\ \A f \in S : Uses(f) \cap S # {}

(* "cyclic module dependency" is thrown only if the files really use one   *)
(* another in a circle, never because an import was met twice.             *)
CycleIsReal ==
  outcome = "cyclic module dependency" => \E S \in SUBSET Elements(units) : Cyclic(S)

(* And no circle escapes: a compilation that ends well has none.           *)
CycleIsFound ==
  outcome = "ok" /\ request.stage \in {"Resolver", "Check", "Lowering", "Transpile"}
    => \A S \in SUBSET Elements(units) : ~Cyclic(S)

(* Nothing is compiled that the script does not need: every unit lies in   *)
(* every set of files that holds the script and what its files use.        *)
LoadsOnlyNeeded ==
  \A S \in SUBSET File :
    Main \in S /\ (\A f \in S : Uses(f) \subseteq S) => Elements(units) \subseteq S

(* The stages that ensure() needs for a stage under a rule set: those in   *)
(* every set that holds the stage and, with one, those it depends on.      *)
Depends(r, s) == IF s \in DOMAIN RuleBook[r] THEN Elements(RuleBook[r][s]) ELSE {}
NeededFor ==
  [r \in DOMAIN RuleBook |-> [target \in StageId |->
     {s \in StageId : \A S \in SUBSET StageId :
        target \in S /\ (\A t \in S : Depends(r, t) \subseteq S) => s \in S}]]

Book == RuleBook[request.rules]
DependsOn(s) == Depends(request.rules, s)
Needed == NeededFor[request.rules][request.stage]

(* ensure() refuses a rule set exactly when it is wrong: "cyclic stage     *)
(* dependency" and "stage not found" are thrown only for a circle among    *)
(* the stages the request needs or for one that has no rule, and a request *)
(* that succeeds has completed every stage it needs.                       *)
StageErrorIsReal ==
  /\ outcome = "cyclic stage dependency" =>
       \E S \in SUBSET Needed : S # {} /\ \A s \in S : DependsOn(s) \cap S # {}
  /\ outcome = "stage not found" => ~(Needed \subseteq DOMAIN Book)
  /\ outcome = "ok" => Needed \subseteq completed[Main]

(* The recursion ends: the program terminates or throws, whatever the      *)
(* files import and even if they are edited meanwhile.                     *)
Termination == <>(outcome # "running")

(* A unit reads its file once; what it was compiled from does not change   *)
(* under it when the file is edited later.                                 *)
SourceFrozen ==
  [][\A f \in File : f \in Elements(units) => source'[f] = source[f] /\ f \in Elements(units')]_vars

(* The message of CompilationPipeline.hpp:18 speaks of modules: modules    *)
(* that do not import one another in a circle can be compiled.             *)
Enclosing(f, i) ==
  LET heads == {j \in 1 .. i : source[f][j].kind = "module"}
  IN  IF heads = {} THEN ImplicitName[f]
      ELSE source[f][CHOOSE j \in heads : \A k \in heads : k <= j].name
ModuleImports(m) ==
  UNION {{source[f][i].name :
            i \in {j \in DOMAIN source[f] : IsImport(source[f], j) /\ Enclosing(f, j) = m}} :
         f \in Elements(units)}
OnlyModuleCyclesRefused ==
  outcome = "cyclic module dependency" =>
    \E S \in SUBSET Module : S # {} /\ \A m \in S : ModuleImports(m) \cap S # {}

(* AylaMain.cpp:27-30 answers a script that cannot be opened with "script  *)
(* not found" and exit status 1, not with an exception.                    *)
MissingScriptReported ==
  ~(outcome = "file not readable" /\ toIndex = {} /\ units = << >>)

(* The pipeline builds in the order that BuildOrder allows.                *)
Order == INSTANCE BuildOrder WITH
  Stage <- StageId,
  Before <- [s \in StageId |-> IF s \in DOMAIN Normal THEN Elements(Normal[s]) ELSE {}],
  Linking <- "Resolver",
  Built <- "Check",
  uses <- [f \in File |-> Uses(f)],
  done <- completed,
  goal <- IF units = << >> THEN << >> ELSE <<Main, request.stage>>

(* Stages run once, after their dependencies, and the linking stage of a   *)
(* unit after the check of every file it uses; the run succeeds only with  *)
(* the requested stage of the script complete.                             *)
ImplementsOrder == Order!Spec
(***************************************************************************)
(* The inductive invariant: what each call in progress is, which call can  *)
(* be waiting for which, and what a call has achieved by the time it has   *)
(* got to `at`.                                                            *)
(***************************************************************************)
RuleOf(c) == RuleBook[c.rules][c.arg]
Checked(m) == \A f \in Elements(providers[m]) : "Check" \in completed[f]

FrameOK(c) ==
  /\ c.op # "load" => c.arg \in StageId
  /\ c.op = "load" => c.arg \in Module
  /\ c.op = "ensure" /\ c.at > 0 =>
       c.arg \in DOMAIN RuleBook[c.rules] /\ c.at <= Len(RuleOf(c)) + 2
  /\ c.op = "resolve" => c.at > 0
  /\ c.op = "load" => c.at > 0

Awaits(c, d) ==
  /\ c.op = "require" => d.op = "ensure" /\ d.unit = c.unit /\ d.arg = c.arg
  /\ c.op = "ensure"  => /\ c.at > 0
                         /\ d.unit = c.unit
                         /\ \/ /\ d.op = "ensure"
                               /\ c.at <= Len(RuleOf(c))
                               /\ d.arg = RuleOf(c)[c.at]
                            \/ /\ d.op = "resolve"
                               /\ c.at = Len(RuleOf(c)) + 1
                               /\ c.arg = "Resolver"
  /\ c.op = "resolve" => /\ d.op = "load"
                         /\ d.unit = c.unit
                         /\ d.arg = source[c.unit][c.at].name
  /\ c.op = "load"    => /\ d.op = "require"
                         /\ c.at <= Len(providers[c.arg])
                         /\ d.unit = providers[c.arg][c.at]
                         /\ d.arg = "Check"

Achieved(c) ==
  /\ c.op = "require" /\ c.at > 0 => c.arg \in completed[c.unit]
  /\ c.op = "ensure" /\ c.at > 0 =>
       /\ \A j \in 1 .. Len(RuleOf(c)) : j < c.at => RuleOf(c)[j] \in completed[c.unit]
       /\ c.at = Len(RuleOf(c)) + 2 =>
            /\ c.arg = "Parser" /\ Parses(source[c.unit]) => c.unit \in rooted
            /\ c.arg = "Resolver" => \A m \in ImportsOf(source[c.unit]) : Checked(m)
  /\ c.op = "resolve" =>
       \A j \in DOMAIN source[c.unit] :
         j < c.at /\ IsImport(source[c.unit], j) => Checked(source[c.unit][j].name)
  /\ c.op = "load" =>
       \A j \in DOMAIN providers[c.arg] :
         j < c.at => "Check" \in completed[providers[c.arg][j]]

(* The calls in progress are a chain of calls that wait for one another.   *)
Chain ==
  /\ \A i \in Depth : FrameOK(stack[i])
  /\ \A i \in 1 .. Len(stack) - 1 : Awaits(stack[i], stack[i + 1])
  /\ stack # << >> => stack[1].op = "require"

(* Indexing is over before the first unit exists; only units are compiled, *)
(* and each has a text.                                                    *)
Loaded ==
  /\ units # << >> => toIndex = {}
  /\ \A i \in Depth : stack[i].unit \in Elements(units)
  /\ \A f \in File : completed[f] # {} => f \in Elements(units)
  /\ rooted \subseteq Elements(units)
  /\ \A f \in Elements(units) : source[f] # Unreadable

(* A call has done what its position says, and a require() on top has been *)
(* through its ensure(); a module with files is registered; a parsed unit  *)
(* has a root unless a header was malformed.                               *)
Progress ==
  /\ \A i \in Depth : Achieved(stack[i])
  /\ stack # << >> /\ Top.op = "require" => Top.at > 0
  /\ \A m \in Module : providers[m] # << >> => m \in registered
  /\ \A f \in rooted : Parses(source[f])
  /\ \A f \in File : "Parser" \in completed[f] /\ Parses(source[f]) => f \in rooted

(* The calls for a unit lie together and, where another unit's lie above   *)
(* them, end with the load() that waits for it; a load() is of an import.  *)
Waiting ==
  /\ \A i \in Depth : stack[i].op = "load" => stack[i].arg \in ImportsOf(source[stack[i].unit])
  /\ \A i \in Depth : \E k \in 1 .. i : Requiring(k) /\ stack[k].unit = stack[i].unit
  /\ \A i \in Depth : \/ stack[i].unit = Top.unit
                      \/ \E j \in 2 .. Len(stack) : Requiring(j) /\ stack[j - 1].unit = stack[i].unit
  /\ \A i, j \in Depth :
       i < j /\ stack[i].unit = stack[j].unit /\ stack[j].op = "ensure" => stack[i].op \in {"require", "ensure"}

(* The script is compiled as requested, every other unit up to Check under *)
(* normal(), whose stages come one after the other.                        *)
Place == [s \in DOMAIN Normal |->
  CASE s = "Lex"             -> 1
    [] s = "Parser"          -> 2
    [] s = "SymbolCollector" -> 3
    [] s = "Resolver"        -> 4
    [] s = "Check"           -> 5
    [] s = "Lowering"        -> 6
    [] s = "Transpile"       -> 7]
Ruled ==
  /\ stack # << >> => stack[1].unit = Main
  /\ \A i \in Depth : stack[i].unit = Main /\ stack[i].op \in {"require", "ensure"} =>
       /\ stack[i].rules = request.rules
       /\ stack[i].arg \in Needed
       /\ Requiring(i) => stack[i].arg = request.stage
  /\ \A i \in Depth : stack[i].unit # Main /\ stack[i].op \in {"require", "ensure"} =>
       /\ stack[i].rules = "normal"
       /\ stack[i].arg \in DOMAIN Normal
       /\ Requiring(i) => stack[i].arg = "Check"
  /\ \A i, j \in Depth :
       i < j /\ stack[i].unit = stack[j].unit /\ stack[i].unit # Main
         /\ stack[i].op = "ensure" /\ stack[j].op = "ensure" => Place[stack[j].arg] < Place[stack[i].arg]

(* What was required is being compiled or compiled; the stages of the      *)
(* script have those they depend on behind them, and no circle of files is *)
(* behind its Resolver stage.                                              *)
Target(f) == IF f = Main THEN request.stage ELSE "Check"
Compiled ==
  /\ \A f \in Elements(units) : f \in activeUnits \/ Target(f) \in completed[f]
  /\ \A s \in completed[Main] : DependsOn(s) \subseteq completed[Main]
  /\ \A S \in SUBSET {f \in File : "Resolver" \in completed[f]} : ~Cyclic(S)

(* An exception left everything as it was.                                 *)
Ended ==
  /\ outcome = "ok" => stack = << >> /\ units # << >>
  /\ units # << >> /\ stack = << >> => Main \in Elements(units)

Inductive ==
  /\ TypeOK /\ Chain /\ Loaded /\ Progress /\ ActiveIsStack /\ DependenciesFirst /\ ImportsChecked
  /\ Waiting /\ Ruled /\ Compiled
  /\ Ended
=============================================================================
