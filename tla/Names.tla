------------------------------- MODULE Names -------------------------------
(***************************************************************************)
(* Names and scopes: what SymbolCollector enters in the tables of the      *)
(* environment, file after file, and what Resolver finds there.            *)
(*                                                                         *)
(* Both are recursive walks over the tree of one file, each with a         *)
(* ContextStack of scopes of its own.  The tables (ScopeManager,           *)
(* SymbolManager, ModuleManager) are shared by all files, and the walks of *)
(* several files are nested: a resolver that meets an import stands still  *)
(* until the files of the module have been collected, resolved and checked.*)
(* In what order files are compiled is the business of module Pipeline;    *)
(* here load_module() goes through the files of a module that are not      *)
(* compiled yet, and throws at one that is being compiled.                 *)
(*                                                                         *)
(* The trees of all files are one list of nodes, in the order of the text, *)
(* a root for each file, and each node with its depth.  A node keeps what  *)
(* the two walks look at: its kind, its name, the module that qualifies the*)
(* name; below it are the children that either walk may visit.             *)
(***************************************************************************)
EXTENDS Integers, Sequences

CONSTANTS File,        \* source files
          Main,        \* the script
          Listed,      \* the files ModuleIndexer has linked, in order
          Module,      \* module names
          Builtin,     \* the module that exists from the start
          Unqualified, \* in place of a module: the name has one part
          Name,        \* identifiers
          BuiltinName, \* the builtin types, in order of registration
          Programs     \* the trees to start from, of all files

(* Declarations that enter a scope of their own, and those that do not.    *)
Opening == {"function", "struct", "enum", "type", "capability"}
Leaf == {"field", "generic", "variant", "pattern"}
(* Names that are looked up: IdentifierExpression, NamedType, GenericType. *)
Use == {"identifier", "named type", "generic type"}
(* "expression" stands for every expression whose children are all visited *)
(* and that does nothing else: binary (assignments among them), unary,     *)
(* call, index, if, while, array; "statement" for return and expression    *)
(* statements, "function type" for the one type the resolver skips, "init" *)
(* for the expressions of a module.  No parser builds an "assignment" or a *)
(* "struct literal", which the resolver has functions for.                 *)
Expression == {"expression", "identifier", "assignment", "member", "struct literal", "block"}
Kinds == Opening \cup Leaf \cup Use \cup Expression
           \cup {"root", "module", "init", "import", "impl", "variable", "statement", "function type"}

TreeNode == [kind : Kinds, name : Name \cup Module \cup File, of : Module \cup {Unqualified}, depth : Nat]

ASSUME NamesAssumption ==
  /\ Main \in File /\ Listed \in Seq(File)
  /\ Builtin \in Module /\ Unqualified \notin Module
  /\ BuiltinName \in Seq(Name)
  /\ \A i, j \in DOMAIN BuiltinName : BuiltinName[i] = BuiltinName[j] => i = j

(* The list of nodes of a program is that of a forest, a tree for each     *)
(* file.  Below a root are modules; one that stands elsewhere has nothing  *)
(* below it (parse_declaration reads its head only).                       *)
IsForest(node) ==
  /\ \A n \in DOMAIN node : /\ node[n].kind = "root" <=> node[n].depth = 0
                            /\ node[n].depth > 0 => n > 1 /\ node[n].depth <= node[n - 1].depth + 1
  /\ \A f \in File : \E n \in DOMAIN node :
       \A m \in DOMAIN node : node[m].kind = "root" /\ node[m].name = f <=> m = n

HasChild(node, n) == n + 1 \in DOMAIN node /\ node[n + 1].depth = node[n].depth + 1
IsParsed(node) ==
  \A n \in DOMAIN node :
    /\ node[n].kind = "root" => node[n].name \in File
    /\ node[n].kind \in {"module", "import"} => node[n].name \in Module
    /\ node[n].kind \in Opening \cup Leaf \cup Use => node[n].name \in Name
    /\ node[n].depth = 1 => node[n].kind = "module"
    /\ node[n].kind = "module" => node[n].depth = 1 \/ ~HasChild(node, n)
    /\ node[n].kind \in {"member", "assignment"} => HasChild(node, n)

ASSUME ProgramsAssumption ==
  /\ Programs \in Seq(Seq(TreeNode))
  /\ \A p \in DOMAIN Programs : IsForest(Programs[p]) /\ IsParsed(Programs[p])

VARIABLES
  tree,      \* the trees of this run, one of Programs
  modules,   \* ModuleManager: the scope of a registered module, 0 if there is none
  scopes,    \* ScopeManager: parent (0: invalid) and SymbolTable (0: no entry)
  symbols,   \* SymbolManager: name and declaring node (0: none)
  symbolOf,  \* SemanticInfo::symbols of all units: 0 is the invalid id
  scopeOf,   \* SemanticInfo::scopes
  reported,  \* the nodes reported as redeclarations
  context,   \* the ContextStack of the walk each file is in
  compiled,  \* the files that are through
  stack,     \* the calls in progress, innermost last
  outcome    \* "running", "ok" or "cyclic"

tables == <<modules, scopes, symbols, symbolOf, scopeOf, reported>>
vars == <<tree, tables, context, compiled, stack, outcome>>

Node == DOMAIN tree
Kind(n) == tree[n].kind
NameOf(n) == tree[n].name
Of(n) == tree[n].of
Root(f) == CHOOSE n \in Node : Kind(n) = "root" /\ NameOf(n) = f

(* m is above n: every node from m on to n is deeper than m.               *)
IsAbove(m, n) == m < n /\ \A k \in m + 1 .. n : tree[k].depth > tree[m].depth
Kids(n) == {k \in n + 1 .. Len(tree) : tree[k].depth = tree[n].depth + 1 /\ IsAbove(n, k)}
First(n) == Kids(n) \cap {n + 1}

Least(S) == CHOOSE x \in S : \A y \in S : x <= y
Greatest(S) == CHOOSE x \in S : \A y \in S : y <= x
Elements(seq) == {seq[i] : i \in DOMAIN seq}

NoEntries == [x \in Name |-> 0]
Fresh == [current |-> 0, saved |-> << >>]

Init ==
  /\ tree \in Elements(Programs)
  /\ modules = [m \in Module |-> IF m = Builtin THEN 1 ELSE 0]
  /\ scopes = <<[parent |-> 0,
                 table |-> [x \in Name |-> IF x \in Elements(BuiltinName)
                                           THEN CHOOSE i \in DOMAIN BuiltinName : BuiltinName[i] = x
                                           ELSE 0]]>>
  /\ symbols = [i \in DOMAIN BuiltinName |-> [name |-> BuiltinName[i], node |-> 0]]
  /\ symbolOf = [n \in Node |-> 0]
  /\ scopeOf = [n \in Node |-> 0]
  /\ reported = {}
  /\ context = [f \in File |-> Fresh]
  /\ compiled = {}
  /\ stack = <<[op |-> "compile", unit |-> Main, node |-> Root(Main), at |-> 0]>>
  /\ outcome = "running"
-----------------------------------------------------------------------------
(* A call: compile is the pipeline on one file, collect and resolve are    *)
(* collect_node and resolve_node on one node, load is load_module on an    *)
(* import.  at counts the stages it is through with; in a walk it is the   *)
(* child it has come to, in a load the position of the file in Listed.     *)
Call(op, f, n) == [op |-> op, unit |-> f, node |-> n, at |-> 0]

Top == stack[Len(stack)]
In(op) == outcome = "running" /\ stack # << >> /\ Top.op = op
Below == SubSeq(stack, 1, Len(stack) - 1)
At(k) == [stack EXCEPT ![Len(stack)].at = k]
Enter(op, n) == Append(At(n), Call(op, Top.unit, n))
Left(S) == {k \in S : k > Top.at}

(* ContextStack::push and pop, on the stack of the walk on top.            *)
Current == context[Top.unit].current
Push(s) == [context EXCEPT ![Top.unit] =
              [current |-> s, saved |-> Append(@.saved, @.current)]]
Pop == [context EXCEPT ![Top.unit] =
          [current |-> @.saved[Len(@.saved)], saved |-> SubSeq(@.saved, 1, Len(@.saved) - 1)]]

NewScope(parent) == Append(scopes, [parent |-> parent, table |-> NoEntries])

(* ScopeLookup::lookup: outwards from a scope to the first entry.  A scope *)
(* is created after its parent, so the recursion is over smaller numbers.  *)
LookupHere(scope, x) == \* Variant: looks at no other scope.
  IF scope = 0 THEN 0 ELSE scopes[scope].table[x]
LookupOutermost(scope, x) == \* Variant: the outermost entry wins.
  LET find[s \in 0 .. Len(scopes)] ==
        IF s = 0 THEN 0
        ELSE IF find[scopes[s].parent] # 0 THEN find[scopes[s].parent] ELSE scopes[s].table[x]
  IN  find[scope]
Lookup(scope, x) ==
  LET find[s \in 0 .. Len(scopes)] ==
        CASE s = 0                      -> 0
          [] s # 0 /\ scopes[s].table[x] # 0 -> scopes[s].table[x]
          [] OTHER                      -> find[scopes[s].parent]
  IN  find[scope]
-----------------------------------------------------------------------------
(* The stages of a file that matter here; each starts with a new context.  *)
Compile ==
  /\ In("compile")
  /\ context' = [context EXCEPT ![Top.unit] = Fresh]
  /\ \/ Top.at = 0 /\ stack' = Append(At(1), Call("collect", Top.unit, Top.node)) /\ UNCHANGED <<compiled, outcome>>
     \/ Top.at = 1 /\ stack' = Append(At(2), Call("resolve", Top.unit, Top.node)) /\ UNCHANGED <<compiled, outcome>>
     \/ /\ Top.at = 2
        /\ compiled' = compiled \cup {Top.unit}
        /\ stack' = Below
        /\ outcome' = IF Len(stack) = 1 THEN "ok" ELSE outcome
  /\ UNCHANGED <<tree, tables>>

(* The parser leaves the last item of a block out of the items if it is an *)
(* expression, as the block's value, which neither walk ever visits.  An   *)
(* earlier expression is the child of a statement.                         *)
Items(n) == {k \in Kids(n) : Kind(k) \in Expression => \E l \in Kids(n) : k < l}

(* The children the collector visits: of a variable only the pattern, and  *)
(* no child of an expression other than a block.                           *)
Collected(n) ==
  CASE Kind(n) = "block"                                       -> Items(n)
    [] Kind(n) = "variable"                                    -> First(n)
    [] Kind(n) \in Opening \cup {"root", "module", "init", "impl"} -> Kids(n)
    [] Kind(n) \notin Opening \cup {"root", "module", "init", "impl", "block", "variable"} -> {}

Collecting == In("collect") /\ Left(Collected(Top.node)) # {}
Collectee == Least(Left(Collected(Top.node)))

FreeInAll(x) == Lookup(Current, x) = 0 \* Variant: asks the enclosing scopes too.
Free(x) == scopes[Current].table[x] = 0

(* declare_symbol on a name that is free in the current scope.             *)
Declared(n) == [scopes EXCEPT ![Current].table[NameOf(n)] = Len(symbols) + 1]
Declare(n) ==
  /\ symbols' = Append(symbols, [name |-> NameOf(n), node |-> n])
  /\ symbolOf' = [symbolOf EXCEPT ![n] = Len(symbols) + 1]

CollectOpening ==
  /\ Collecting
  /\ LET n == Collectee IN
       /\ Kind(n) \in Opening
       /\ Free(NameOf(n))
       /\ Declare(n)
       /\ scopes' = Append(Declared(n), [parent |-> Current, table |-> NoEntries])
       /\ scopeOf' = [scopeOf EXCEPT ![n] = Len(scopes) + 1]
       /\ context' = Push(Len(scopes) + 1)
       /\ stack' = Enter("collect", n)
  /\ UNCHANGED <<tree, modules, reported, compiled, outcome>>

CollectLeaf ==
  /\ Collecting
  /\ LET n == Collectee IN
       /\ Kind(n) \in Leaf
       /\ Free(NameOf(n))
       /\ Declare(n)
       /\ scopes' = Declared(n)
  /\ stack' = At(Collectee)
  /\ UNCHANGED <<tree, modules, scopeOf, reported, context, compiled, outcome>>

(* A name that is taken: the declaration is reported and not entered.      *)
CollectRedeclared ==
  /\ Collecting
  /\ LET n == Collectee IN
       /\ Kind(n) \in Opening \cup Leaf
       /\ ~Free(NameOf(n))
       /\ reported' = reported \cup {n}
  /\ stack' = At(Collectee)
  /\ UNCHANGED <<tree, modules, scopes, symbols, symbolOf, scopeOf, context, compiled, outcome>>

CollectImpl ==
  /\ Collecting
  /\ LET n == Collectee IN
       /\ Kind(n) = "impl"
       /\ scopes' = NewScope(Current)
       /\ scopeOf' = [scopeOf EXCEPT ![n] = Len(scopes) + 1]
       /\ context' = Push(Len(scopes) + 1)
       /\ stack' = Enter("collect", n)
  /\ UNCHANGED <<tree, modules, symbols, symbolOf, reported, compiled, outcome>>

(* A module has one scope, made by the first file that declares it.        *)
CollectModuleAnew == \* Variant: makes a scope for each declaration of a module.
  /\ Collecting
  /\ LET n == Collectee
         scope == Len(scopes) + 1
     IN  /\ Kind(n) = "module"
         /\ scopes' = NewScope(modules[Builtin])
         /\ modules' = [modules EXCEPT ![NameOf(n)] = scope]
         /\ scopeOf' = [scopeOf EXCEPT ![n] = scope]
         /\ context' = Push(scope)
         /\ stack' = Enter("collect", n)
  /\ UNCHANGED <<tree, symbols, symbolOf, reported, compiled, outcome>>
CollectModule ==
  /\ Collecting
  /\ LET n == Collectee
         known == modules[NameOf(n)]
         scope == IF known # 0 THEN known ELSE Len(scopes) + 1
     IN  /\ Kind(n) = "module"
         /\ scopes' = IF known # 0 THEN scopes ELSE NewScope(modules[Builtin])
         /\ modules' = [modules EXCEPT ![NameOf(n)] = scope]
         /\ scopeOf' = [scopeOf EXCEPT ![n] = scope]
         /\ context' = Push(scope)
         /\ stack' = Enter("collect", n)
  /\ UNCHANGED <<tree, symbols, symbolOf, reported, compiled, outcome>>

(* The expressions of a module belong to its scope.                        *)
CollectInit ==
  /\ Collecting
  /\ LET n == Collectee IN
       /\ Kind(n) = "init"
       /\ scopeOf' = [scopeOf EXCEPT ![n] = Current]
       /\ stack' = Enter("collect", n)
  /\ UNCHANGED <<tree, modules, scopes, symbols, symbolOf, reported, context, compiled, outcome>>

CollectOther ==
  /\ Collecting
  /\ LET n == Collectee IN
       /\ Kind(n) \notin Opening \cup Leaf \cup {"impl", "module", "init"}
       /\ stack' = IF Collected(n) = {} THEN At(n) ELSE Enter("collect", n)
  /\ UNCHANGED <<tree, tables, context, compiled, outcome>>

CollectReturnInside == \* Variant: an enum or a capability stays on the context.
  /\ In("collect")
  /\ Left(Collected(Top.node)) = {}
  /\ context' = IF Kind(Top.node) \in {"function", "struct", "type", "impl", "module"} THEN Pop ELSE context
  /\ stack' = Below
  /\ UNCHANGED <<tree, tables, compiled, outcome>>
CollectReturn ==
  /\ In("collect")
  /\ Left(Collected(Top.node)) = {}
  /\ context' = IF Kind(Top.node) \in Opening \cup {"impl", "module"} THEN Pop ELSE context
  /\ stack' = Below
  /\ UNCHANGED <<tree, tables, compiled, outcome>>
-----------------------------------------------------------------------------
(* The children the resolver visits, as far as it knows when it is asked:  *)
(* a pattern, a generic parameter or a generic type goes on only with a    *)
(* symbol, an assignment only if its target has one, and a struct literal  *)
(* returns after its type, whose TypeId nobody has set at this stage.      *)
NeedsSymbol == {"pattern", "generic", "generic type"}
Skipped == {"type", "capability", "impl", "import", "identifier", "named type", "function type"}

Resolved(n) ==
  CASE Kind(n) = "block"           -> Items(n)
    [] Kind(n) = "struct literal"  -> First(n)
    [] Kind(n) = "assignment"      -> IF symbolOf[n + 1] = 0 THEN First(n) ELSE Kids(n)
    [] Kind(n) \in NeedsSymbol     -> IF symbolOf[n] = 0 THEN {} ELSE Kids(n)
    [] Kind(n) \in Skipped         -> {}
    [] Kind(n) \in {"root", "module", "init", "function", "struct", "enum", "field", "variant",
                    "variable", "statement", "expression", "member"} -> Kids(n)

(* The declarations whose scope the resolver enters.                       *)
Entered == {"module", "function", "struct", "enum"}

Resolving == In("resolve") /\ Left(Resolved(Top.node)) # {}
Resolvee == Least(Left(Resolved(Top.node)))

(* The scope of a redeclared function, struct or enum is the invalid one.  *)
ResolveEntered ==
  /\ Resolving
  /\ LET n == Resolvee IN
       /\ Kind(n) \in Entered
       /\ context' = Push(scopeOf[n])
       /\ stack' = Enter("resolve", n)
  /\ UNCHANGED <<tree, tables, compiled, outcome>>

(* NameLookup::lookup.  A qualified name is looked up from the scope of its*)
(* module, imported or not, but only inside a valid scope.                 *)
Meaning(n) ==
  CASE Current = 0                               -> 0
    [] Current # 0 /\ Of(n) = Unqualified        -> Lookup(Current, NameOf(n))
    [] Current # 0 /\ Of(n) # Unqualified        -> Lookup(modules[Of(n)], NameOf(n))

ResolveUse ==
  /\ Resolving
  /\ LET n == Resolvee IN
       /\ Kind(n) \in Use
       /\ symbolOf' = IF Meaning(n) = 0 THEN symbolOf ELSE [symbolOf EXCEPT ![n] = Meaning(n)]
       /\ stack' = IF Kind(n) = "generic type" THEN Enter("resolve", n) ELSE At(n)
  /\ UNCHANGED <<tree, modules, scopes, symbols, scopeOf, reported, context, compiled, outcome>>

ResolveImport ==
  /\ Resolving
  /\ Kind(Resolvee) = "import"
  /\ stack' = Enter("load", Resolvee)
  /\ UNCHANGED <<tree, tables, context, compiled, outcome>>

ResolveOther ==
  /\ Resolving
  /\ LET n == Resolvee IN
       /\ Kind(n) \notin Entered \cup Use \cup {"import"}
       /\ stack' = IF Resolved(n) = {} THEN At(n) ELSE Enter("resolve", n)
  /\ UNCHANGED <<tree, tables, context, compiled, outcome>>

(* A member access takes the symbol of its base.                           *)
ResolveReturn ==
  /\ In("resolve")
  /\ Left(Resolved(Top.node)) = {}
  /\ symbolOf' = IF Kind(Top.node) = "member" /\ symbolOf[Top.node + 1] # 0
                 THEN [symbolOf EXCEPT ![Top.node] = symbolOf[Top.node + 1]]
                 ELSE symbolOf
  /\ context' = IF Kind(Top.node) \in Entered THEN Pop ELSE context
  /\ stack' = Below
  /\ UNCHANGED <<tree, modules, scopes, symbols, scopeOf, reported, compiled, outcome>>
-----------------------------------------------------------------------------
(* The files that declare a module, by their position in Listed, and       *)
(* load_module(), which goes through them in that order.                   *)
Declares(f, m) == \E n \in Kids(Root(f)) : NameOf(n) = m
ProvidersFirst(m) == \* Variant: one file of a module.
  {i \in DOMAIN Listed : Declares(Listed[i], m) /\ \A j \in 1 .. i - 1 : ~Declares(Listed[j], m)}
Providers(m) == {i \in DOMAIN Listed : Declares(Listed[i], m)}

Compiling == {stack[i].unit : i \in DOMAIN stack}
Loading == In("load") /\ Left(Providers(NameOf(Top.node))) # {}
NextListed == Least(Left(Providers(NameOf(Top.node))))
Provider == Listed[NextListed]

LoadCompiled ==
  /\ Loading
  /\ Provider \in compiled
  /\ stack' = At(NextListed)
  /\ UNCHANGED <<tree, tables, context, compiled, outcome>>

LoadProvider ==
  /\ Loading
  /\ Provider \notin compiled \cup Compiling
  /\ stack' = Append(At(NextListed), Call("compile", Provider, Root(Provider)))
  /\ UNCHANGED <<tree, tables, context, compiled, outcome>>

LoadCyclic ==
  /\ Loading
  /\ Provider \in Compiling
  /\ outcome' = "cyclic"
  /\ UNCHANGED <<tree, tables, context, compiled, stack>>

LoadReturnFirst == \* Variant: goes on after the first file of a module.
  /\ In("load")
  /\ Top.at > 0 \/ Left(Providers(NameOf(Top.node))) = {}
  /\ stack' = Below
  /\ UNCHANGED <<tree, tables, context, compiled, outcome>>
LoadReturn ==
  /\ In("load")
  /\ Left(Providers(NameOf(Top.node))) = {}
  /\ stack' = Below
  /\ UNCHANGED <<tree, tables, context, compiled, outcome>>
-----------------------------------------------------------------------------
Step ==
  \/ Compile
  \/ CollectOpening \/ CollectLeaf \/ CollectRedeclared \/ CollectImpl \/ CollectModule
  \/ CollectInit \/ CollectOther \/ CollectReturn
  \/ ResolveEntered \/ ResolveUse \/ ResolveImport \/ ResolveOther \/ ResolveReturn
  \/ LoadCompiled \/ LoadProvider \/ LoadCyclic \/ LoadReturn

Ended == outcome # "running" /\ UNCHANGED vars

Next == Step \/ Ended

Spec == Init /\ [][Next]_vars
=============================================================================
