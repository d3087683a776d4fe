----------------------------- MODULE MCPipeline -----------------------------
(***************************************************************************)
(* Small instances of Pipeline: a script m outside the root, two or three  *)
(* listed files, modules A and B and the implicit names of the files.      *)
(***************************************************************************)
EXTENDS PipelineProperties

Mod(n) == [kind |-> "module", name |-> n]
Imp(n) == [kind |-> "import", name |-> n]
BadHeader == [kind |-> "badheader", name |-> "A"]
BadDecl == [kind |-> "baddecl", name |-> "A"]

MCModule == {"builtin", "A", "B", "of m", "of a", "of b", "of c"}
MCImplicitName == [f \in File |-> "of " \o f]

NormalOnly == [r \in {"normal"} |-> Normal]
CheckRequest == {[stage |-> "Check", rules |-> "normal"]}

(* The scripts: imports known and unknown, before and after an error.      *)
Scripts ==
  {<<Imp("A")>>, <<Imp("A"), Imp("B")>>, <<Imp("B"), Imp("A"), Imp("B")>>,
   <<Imp("builtin"), Imp("of a"), Imp("A")>>, <<BadDecl, Imp("A"), Mod("of m"), Imp("B")>>, <<Imp("A"), BadHeader>>}

(* The module files: one or two modules in a file, a module in two files,  *)
(* imports of oneself, of each other, after an error or under a bad header.*)
Bodies == {<< >>, <<Imp("A")>>, <<Imp("B")>>, <<BadDecl, Imp("B")>>}
Libraries ==
  {<<Mod(n)>> \o b : n \in {"A", "B"}, b \in Bodies}
    \cup {<<Mod("A"), Imp("B"), Mod("B")>>, <<Mod("A"), BadHeader, Imp("B")>>,
          <<BadDecl, Imp("A"), Mod("B")>>, << >>}

TwoLibraries ==
  {[f \in {"m", "a", "b", "c"} |-> CASE f = "m" -> s [] f = "a" -> p [] f = "b" -> q [] f = "c" -> << >>] :
     s \in Scripts, p \in Libraries, q \in Libraries}

(* Three files of two modules: circles of three units, shared imports.     *)
ThreeLibraries ==
  {[f \in {"m", "a", "b", "c"} |->
      CASE f = "m" -> <<Imp("A"), Imp("B")>> [] f = "a" -> p [] f = "b" -> q [] f = "c" -> r] :
     p, q, r \in {<<Mod(n)>> \o b : n \in {"A", "B"}, b \in {<< >>, <<Imp("A")>>, <<Imp("B")>>}}}

ManyLibraries == TwoLibraries \cup ThreeLibraries

(* Fewer texts, with files that change or vanish while they are compiled.  *)
FewLibraries ==
  {[f \in {"m", "a", "b"} |-> CASE f = "m" -> s [] f = "a" -> p [] f = "b" -> q] :
     s \in {<<Imp("B"), Imp("A")>>},
     p \in {<<Mod("A")>>, <<Mod("A"), Imp("B")>>},
     q \in {<<Mod("B")>>, <<Mod("B"), Imp("A")>>}}
MCEdits == {Unreadable, <<Mod("B"), Imp("A")>>}

(* Rule sets a caller of Compiler::require may build: discovery(), stages  *)
(* of its own that share dependencies, that lack a rule, in a circle.      *)
OwnRules ==
  [s \in DOMAIN Normal \cup {"ModuleSetup", "BuiltinModule"} |->
     CASE s = "ModuleSetup"   -> <<"Parser", "SymbolCollector", "Parser">>
       [] s = "BuiltinModule" -> <<"ModuleSetup", "ModuleParser">>
       [] OTHER               -> Normal[s]]
CircularRules ==
  [s \in DOMAIN OwnRules \cup {"ModuleParser"} |->
     IF s = "ModuleParser" THEN <<"Lex", "BuiltinModule">> ELSE OwnRules[s]]
MCRuleBook ==
  [r \in {"normal", "discovery", "own", "circular"} |->
     CASE r = "normal" -> Normal [] r = "discovery" -> Discovery
       [] r = "own" -> OwnRules [] r = "circular" -> CircularRules]
AnyRequest == [stage : StageId, rules : DOMAIN MCRuleBook]

ModulePairs ==
  {[f \in {"m", "a", "b"} |-> CASE f = "m" -> s [] f = "a" -> p [] f = "b" -> q] :
     s \in Scripts, p \in {<<Mod("A"), Imp("B"), Mod("B")>>, <<Mod("A")>>},
     q \in {<<Mod("B")>>, <<Mod("A"), Imp("B")>>}}
NoScript == {[f \in {"m"} |-> Unreadable]}
=============================================================================
