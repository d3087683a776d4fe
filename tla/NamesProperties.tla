--------------------------- MODULE NamesProperties ---------------------------
(***************************************************************************)
(* What must hold of Names.  The reference is the tree: scopes, contexts   *)
(* and parents do not occur in it, only which declaration encloses which.  *)
(***************************************************************************)
EXTENDS Names, FiniteSets

-----------------------------------------------------------------------------
(* The tree: the declarations that enclose a node, and its home, the       *)
(* innermost of them.  All declarations of a module are one home, named by *)
(* the lowest of them, and 0 is the builtin module.                        *)
HomeKinds == Opening \cup {"module", "impl"}

Ancestors(n) == {m \in 1 .. n - 1 : IsAbove(m, n)}
Homes(n) == {a \in Ancestors(n) : Kind(a) \in HomeKinds}
FileOf(n) == CHOOSE f \in File : Root(f) = n \/ IsAbove(Root(f), n)

Canon(h) == CASE Kind(h) # "module" -> h
              [] Kind(h) = "module" /\ NameOf(h) = Builtin -> 0
              [] Kind(h) = "module" /\ NameOf(h) # Builtin ->
                   Least({m \in Node : Kind(m) = "module" /\ NameOf(m) = NameOf(h)})
HomeOf(n) == Canon(Greatest(Homes(n)))

(* The home of a symbol, and the symbols that x has in a home.             *)
HomeOfSymbol(i) == IF symbols[i].node = 0 THEN 0 ELSE HomeOf(symbols[i].node)
Within(h, x) == {i \in DOMAIN symbols : symbols[i].name = x /\ HomeOfSymbol(i) = h}

(* What a name ought to mean: of the homes around it that declare it, the  *)
(* innermost; of a qualified name, the module's own; else the builtin one. *)
Around(n) ==
  IF Of(n) = Unqualified THEN Homes(n)
  ELSE {m \in Node : Kind(m) = "module" /\ NameOf(m) = Of(n) /\ scopeOf[m] # 0}
Candidates(n) ==
  LET declaring == {h \in Around(n) : Within(Canon(h), NameOf(n)) # {}}
  IN  IF declaring # {} THEN Within(Canon(Greatest(declaring)), NameOf(n))
      ELSE IF Around(n) # {} \/ Of(n) = Builtin THEN Within(0, NameOf(n))
      ELSE {}

-----------------------------------------------------------------------------
(* A name means one thing: no two symbols of one name in the same function,*)
(* struct, enum, type, capability or module, even if the module is spread  *)
(* over files that are collected at different times.                       *)
OneMeaning ==
  \A i, j \in DOMAIN symbols :
    i < j /\ symbols[i].name = symbols[j].name => HomeOfSymbol(i) # HomeOfSymbol(j)

(* The tree of scopes is the tree of declarations: the scope of a          *)
(* declaration hangs under that of the declaration around it, all parts of *)
(* a module share a scope, no others do, and that of a module hangs under  *)
(* the builtin one.  A walk that forgets to leave a scope breaks this.     *)
ScopesFollowTree ==
  /\ \A n \in Node : scopeOf[n] # 0 =>
       /\ Kind(n) = "init" => scopeOf[n] = scopeOf[Greatest(Homes(n))]
       /\ Kind(n) \notin {"module", "init"} => scopes[scopeOf[n]].parent = scopeOf[Greatest(Homes(n))]
       /\ Kind(n) = "module" => /\ scopeOf[n] = modules[NameOf(n)]
                                /\ scopes[scopeOf[n]].parent = IF NameOf(n) = Builtin THEN 0 ELSE 1
  /\ \A m, n \in Node : scopeOf[m] # 0 /\ scopeOf[m] = scopeOf[n] /\ "init" \notin {Kind(m), Kind(n)} =>
       Canon(m) = Canon(n)

(* Every declaration the collector reached, that is every child it visits  *)
(* below declarations that are not reported themselves, has a symbol or was*)
(* reported, not both; and it was reported only because another one has    *)
(* taken its name in the same place.  No clash goes unnoticed.             *)
Reached(n) ==
  \A a \in Ancestors(n) : a \notin reported /\
    \A k \in Kids(a) : k \in Ancestors(n) \cup {n} => k \in Collected(a)
IsCollected(f) == f \in compiled \/ \E i \in DOMAIN stack : stack[i].unit = f /\ stack[i].op = "resolve"
ClashesReported ==
  \A n \in Node : Kind(n) \in Opening \cup Leaf =>
    /\ symbolOf[n] = 0 /\ n \notin reported => ~(IsCollected(FileOf(n)) /\ Reached(n))
    /\ n \in reported => symbolOf[n] = 0 /\ Within(HomeOf(n), NameOf(n)) # {}

(* Nothing below a reported declaration ever gets a scope or a symbol: the *)
(* resolver walks through a function, struct or enum in the invalid scope, *)
(* and leaves out the rest.  Only the type of a field or of the payload of *)
(* a variant is resolved all the same.                                     *)
RedeclaredStaysDark ==
  \A a \in reported, n \in Node :
    Kind(a) \notin {"field", "variant"} /\ IsAbove(a, n) => symbolOf[n] = 0 /\ scopeOf[n] = 0

(* What becomes of redeclarations: each clash is reported, and what stands *)
(* below it stays out of the tables.                                       *)
Redeclarations == ClashesReported /\ RedeclaredStaysDark

(* A name is bound to the innermost declaration around it at that moment,  *)
(* whatever files were collected, in whatever order, and is never bound    *)
(* again.                                                                  *)
BindsInnermost ==
  [][\A n \in Node : symbolOf'[n] # symbolOf[n] =>
       /\ symbolOf[n] = 0
       /\ Kind(n) \in Use => symbolOf'[n] \in Candidates(n)]_vars

(* The resolver visits n: all the children on the way to it, none of them  *)
(* under a declaration without scope, that is one that was reported or one *)
(* that the collector does not come to (a function in the block that a     *)
(* variable is initialized with).                                          *)
Visited(n) ==
  \A a \in Ancestors(n) :
    /\ a \notin reported \/ Kind(a) \in {"field", "variant"}
    /\ Kind(a) \in HomeKinds => Reached(a)
    /\ \A k \in Kids(a) : k \in Ancestors(n) \cup {n} => k \in Resolved(a)

(* Within a file the order of declarations does not matter: a name that is *)
(* left unbound has no declaration around it in its own file, before or    *)
(* after it, and none in a builtin or a file compiled before.              *)
NothingMissed ==
  \A n \in Node :
    /\ Kind(n) \in Use /\ Of(n) = Unqualified /\ symbolOf[n] = 0
    /\ FileOf(n) \in compiled /\ Visited(n)
    => \A i \in Candidates(n) : symbols[i].node # 0 /\ FileOf(symbols[i].node) # FileOf(n)

(* After an import of a module, a qualified name of it finds what any of   *)
(* the module's files declares.                                            *)
ImportedBefore(n) ==
  \E m \in 1 .. n - 1 : /\ Kind(m) = "import" /\ NameOf(m) = Of(n) /\ FileOf(m) = FileOf(n)
                        /\ \E h \in Node : Kind(h) = "module" /\ m \in Kids(h)
Exported(n) ==
  \E d \in Node : /\ Kind(d) \in Opening \cup Leaf /\ NameOf(d) = NameOf(n) /\ Reached(d) /\ d \notin reported
                 /\ Kind(Greatest(Homes(d))) = "module"
                 /\ NameOf(Greatest(Homes(d))) = Of(n)
                 /\ FileOf(d) \in Elements(Listed)
ImportedNamesResolve ==
  \A n \in Node :
    /\ Kind(n) \in Use /\ Of(n) # Unqualified
    /\ FileOf(n) \in compiled /\ Visited(n) /\ ImportedBefore(n) /\ Exported(n)
    => /\ symbolOf[n] # 0
       /\ symbols[symbolOf[n]].node # 0

(* A file is resolved after it is collected, and after all files of the    *)
(* modules it imports are resolved, whatever walks are nested: the loads of*)
(* this module keep to the build order that Pipeline implements, too.      *)
(* An import counts if the resolver comes to it: not in an impl, nor in    *)
(* what a block has as its value.                                          *)
AlwaysVisited(n) ==
  \A a \in Ancestors(n) :
    /\ Kind(a) \notin Skipped \cup NeedsSymbol \cup {"assignment", "struct literal"}
    /\ Kind(a) = "block" => \A k \in Kids(a) : k \in Ancestors(n) \cup {n} => k \in Items(a)
UsedBy(f) ==
  {g \in Elements(Listed) :
     \E n \in Node : /\ Kind(n) = "import" /\ IsAbove(Root(f), n) /\ AlwaysVisited(n)
                     /\ Declares(g, NameOf(n))}
StagesDone(i) == \* by the pipeline's call at i, which waits for the walk above it
  CASE stack[i].at = 1 /\ i = Len(stack) -> {"Collector"}
    [] stack[i].at = 2 /\ i = Len(stack) -> {"Collector", "Resolver"}
    [] stack[i].at = 2 /\ i < Len(stack) -> {"Collector"}
    [] OTHER -> {}
CompileOf(f) == {i \in DOMAIN stack : stack[i].op = "compile" /\ stack[i].unit = f}
Order == INSTANCE BuildOrder WITH
  Stage <- {"Collector", "Resolver"},
  Before <- [s \in {"Collector", "Resolver"} |-> {"Collector"} \ {s}],
  Linking <- "Resolver",
  Built <- "Resolver",
  Failure <- {"cyclic"},
  uses <- [f \in File |-> UsedBy(f)],
  done <- [f \in File |-> IF f \in compiled THEN {"Collector", "Resolver"} ELSE UNION {StagesDone(i) : i \in CompileOf(f)}],
  goal <- IF compiled = {} /\ Len(stack) = 1 /\ stack[1].at = 0 THEN << >> ELSE <<Main, "Resolver">>
ImplementsOrder == Order!Spec
=============================================================================
