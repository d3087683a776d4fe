---------------------------- MODULE NamesInvariant ----------------------------
(***************************************************************************)
(* The inductive invariant behind the theorems about Names: what is true   *)
(* of the calls in progress, of the scopes they stand in, and of the       *)
(* tables, at every moment and not only when a file is through.            *)
(***************************************************************************)
EXTENDS NamesProperties

Scope == [parent : Nat, table : [Name -> Nat]]
Symbol == [name : Name, node : Nat]
Context == [current : Nat, saved : Seq(Nat)]
Frame == [op : {"compile", "collect", "resolve", "load"}, unit : File, node : Nat, at : Nat]

TypeOK ==
  /\ tree \in Elements(Programs)
  /\ modules \in [Module -> 0 .. Len(scopes)]
  /\ scopes \in Seq(Scope)
  /\ symbols \in Seq(Symbol)
  /\ symbolOf \in [Node -> 0 .. Len(symbols)]
  /\ scopeOf \in [Node -> 0 .. Len(scopes)]
  /\ reported \subseteq Node
  /\ context \in [File -> Context]
  /\ compiled \subseteq File
  /\ stack \in Seq(Frame)
  /\ outcome \in {"running", "ok", "cyclic"}
-----------------------------------------------------------------------------
(* The calls.  Each is at a node of its file, and waits for the one above  *)
(* it at the child, the stage or the file that it has come to.             *)
Walk == {"collect", "resolve"}
Depth == 1 .. Len(stack)
Subtree(k) == {k} \cup {n \in Node : IsAbove(k, n)}

FrameOK(c) ==
  /\ c.node \in Subtree(Root(c.unit))
  /\ c.op = "compile" => c.node = Root(c.unit) /\ c.at \in 0 .. 2 /\ c.unit \notin compiled
  /\ c.op \in Walk => c.at = 0 \/ c.at \in Kids(c.node)
  /\ c.op = "load" => Kind(c.node) = "import"
Awaits(b, c) ==
  /\ c.op = "compile" => b.op = "load"
  /\ c.op # "compile" => c.unit = b.unit
  /\ c.op \in Walk /\ b.op = "compile" => c.node = b.node /\ b.at = IF c.op = "collect" THEN 1 ELSE 2
  /\ c.op \in Walk /\ b.op # "compile" => b.op = c.op /\ c.node = b.at
  /\ c.op = "load" => b.op = "resolve" /\ c.node = b.at

(* Of the calls on one file the lowest is its compilation, in the stage    *)
(* that the others belong to, each is at or below the child that a walk    *)
(* under it has come to, and the load of an import is the last.            *)
Supported ==
  \A i \in Depth : stack[i].op # "compile" =>
    \E j \in 1 .. i - 1 : /\ stack[j].op = "compile" /\ stack[j].unit = stack[i].unit
                         /\ stack[j].at = IF stack[i].op = "collect" THEN 1 ELSE 2
Nested ==
  \A i, j \in Depth : i < j /\ stack[i].unit = stack[j].unit =>
    /\ stack[i].op # "load" /\ stack[j].op # "compile"
    /\ stack[i].op \in Walk => stack[i].at \in Kids(stack[i].node) /\ stack[j].node \in Subtree(stack[i].at)

Chain ==
  /\ \A i \in Depth : FrameOK(stack[i])
  /\ \A i \in 1 .. Len(stack) - 1 : Awaits(stack[i], stack[i + 1])
  /\ stack # << >> => stack[1].op = "compile"
  /\ Supported
  /\ Nested
-----------------------------------------------------------------------------
(* What the walks have still before them is as it was at the start.        *)
Untouched(n) == symbolOf[n] = 0 /\ scopeOf[n] = 0 /\ n \notin reported
Bound == Use \cup {"member"}
Unbound(n) == Kind(n) \in Bound => symbolOf[n] = 0

Reaches(f, stage) ==
  f \in compiled \/ \E i \in Depth : stack[i].op = "compile" /\ stack[i].unit = f /\ stack[i].at >= stage
Pending ==
  /\ \A f \in File : ~Reaches(f, 1) => \A n \in Subtree(Root(f)) : Untouched(n)
  /\ \A f \in File : ~Reaches(f, 2) => \A n \in Subtree(Root(f)) : Unbound(n)
  /\ \A i \in Depth : stack[i].op = "collect" =>
       \A k \in Kids(stack[i].node) : k > stack[i].at => \A n \in Subtree(k) : Untouched(n)
  /\ \A i \in Depth : stack[i].op = "resolve" =>
       /\ Kind(stack[i].node) = "member" => symbolOf[stack[i].node] = 0
       /\ \A k \in Kids(stack[i].node) : k > stack[i].at => \A n \in Subtree(k) : Unbound(n)
-----------------------------------------------------------------------------
(* The scopes.  The context of a walk holds those of the declarations      *)
(* around what it visits, outermost first; the resolver goes into no       *)
(* declaration whose scope it does not enter.                              *)
Inside(n) == Homes(n) \cup {h \in {n} : Kind(h) \in HomeKinds}
Holds(held, n) ==
  /\ Len(held) = Cardinality(Inside(n)) + 1
  /\ \A a \in Inside(n) : held[Cardinality(Inside(a)) + 1] = scopeOf[a]
Held(f) == Append(context[f].saved, context[f].current)
Innermost(i) == stack[i].op \in Walk /\ (i < Len(stack) => stack[i + 1].op \notin Walk)
InContext ==
  /\ \A i \in Depth : Innermost(i) => Holds(Held(stack[i].unit), stack[i].node)
  /\ \A i \in Depth : stack[i].op \in Walk /\ Kind(stack[i].node) # "root" => Inside(stack[i].node) # {}
  /\ \A i \in Depth : stack[i].op = "resolve" /\ Kind(stack[i].node) \in HomeKinds => Kind(stack[i].node) \in Entered
  /\ \A i \in Depth : stack[i].op = "collect" => \A h \in Inside(stack[i].node) : scopeOf[h] # 0

(* A scope that a declaration has is no other declaration's, and was made  *)
(* after the one around it.                                                *)
HomeScope(n) == scopeOf[Greatest(Homes(n))]
Scoped ==
  /\ modules[Builtin] = 1 /\ 1 \in DOMAIN scopes /\ scopes[1].parent = 0
  /\ \A s \in DOMAIN scopes : scopes[s].parent < s
  /\ \A l, m \in Module : modules[l] # 0 /\ modules[l] = modules[m] => l = m
  /\ \A m \in Module : modules[m] # 0 /\ m # Builtin =>
       \E n \in Node : Kind(n) = "module" /\ NameOf(n) = m /\ scopeOf[n] # 0
  /\ \A n \in Node : scopeOf[n] # 0 =>
       /\ Kind(n) \in HomeKinds \cup {"init"}
       /\ Kind(n) \in HomeKinds \ {"module"} => \A m \in Module : modules[m] # scopeOf[n]
       /\ Kind(n) # "module" => Homes(n) # {} /\ HomeScope(n) # 0
-----------------------------------------------------------------------------
(* The tables.  An entry is a symbol of the scope and the name it is found *)
(* under, and every symbol is entered.                                     *)
ScopeOfSymbol(i) == IF symbols[i].node = 0 THEN 1 ELSE HomeScope(symbols[i].node)
Entries ==
  /\ \A s \in DOMAIN scopes : \A x \in Name : \A i \in {scopes[s].table[x]} \ {0} :
       i \in DOMAIN symbols /\ symbols[i].name = x /\ ScopeOfSymbol(i) = s
  /\ \A i \in DOMAIN symbols :
       /\ ScopeOfSymbol(i) \in DOMAIN scopes
       /\ scopes[ScopeOfSymbol(i)].table[symbols[i].name] = i
       /\ LET n == symbols[i].node
          IN  n # 0 => n \in Node /\ Kind(n) \in Opening \cup Leaf /\ NameOf(n) = symbols[i].name
                       /\ symbolOf[n] = i /\ Homes(n) # {}
  /\ \A n \in Node : Kind(n) \in Opening \cup Leaf /\ symbolOf[n] # 0 => symbols[symbolOf[n]].node = n
  /\ \A n \in Node : Kind(n) \in Opening /\ scopeOf[n] # 0 => symbolOf[n] # 0

(* A declaration that was reported has nothing in the tables, because of   *)
(* another one; no walk goes on below it except for types and into         *)
(* functions, structs and enums, whose scope is then the invalid one.      *)
Accounted ==
  \A a \in reported :
    /\ Kind(a) \in Opening \cup Leaf
    /\ symbolOf[a] = 0 /\ scopeOf[a] = 0
    /\ Homes(a) # {} /\ HomeScope(a) # 0
    /\ scopes[HomeScope(a)].table[NameOf(a)] # 0
Passable == {"function", "struct", "enum", "field", "variant"}
Avoided ==
  \A i \in Depth : stack[i].op \in Walk =>
    \A a \in reported : stack[i].node \in Subtree(a) => stack[i].op = "resolve" /\ Kind(a) \in Passable

(* A declaration the collector comes to has a symbol or a scope or is      *)
(* reported, once it has come by.                                          *)
Ahead(n) ==
  \E i \in Depth : /\ stack[i].op = "collect"
                   /\ \E k \in Collected(stack[i].node) : k > stack[i].at /\ n \in Subtree(k)
Settled ==
  \A f \in File : Reaches(f, 1) =>
    \A n \in Subtree(Root(f)) :
      Kind(n) \in HomeKinds \cup Leaf /\ Reached(n) => ~Untouched(n) \/ Ahead(n)

(* The order of the loads.  A walk that has come past an import, a load    *)
(* that has come past a file and a compilation that has come past a stage  *)
(* have left the files compiled that this takes.                           *)
Past(i, k) == k < stack[i].at \/ (k = stack[i].at /\ i = Len(stack))
Loaded(n) == \A j \in Providers(NameOf(n)) : Listed[j] \in compiled
Sure(n) == Kind(n) = "import" /\ AlwaysVisited(n)
LinkedAt(i) ==
  /\ stack[i].op = "compile" =>
       /\ i = 1 => stack[i].unit = Main
       /\ i > 1 => stack[i - 1].at \in DOMAIN Listed /\ stack[i].unit = Listed[stack[i - 1].at]
       /\ stack[i].at = 2 /\ i = Len(stack) => UsedBy(stack[i].unit) \subseteq compiled
  /\ stack[i].op = "resolve" =>
       /\ Kind(stack[i].node) # "import"
       /\ \A k \in Kids(stack[i].node) : Past(i, k) => \A n \in Subtree(k) : Sure(n) => Loaded(n)
  /\ stack[i].op = "load" =>
       \A j \in Providers(NameOf(stack[i].node)) : Past(i, j) => Listed[j] \in compiled
Linked ==
  /\ \A f \in compiled : UsedBy(f) \subseteq compiled
  /\ \A i \in Depth : LinkedAt(i)

(* What the resolver leaves behind.  A name it visits is before it still,  *)
(* or it is served: one that is bound to nothing has no declaration around *)
(* it but in files that are collected later, one that is qualified by an   *)
(* imported module is bound to what the module declares.                   *)
Upcoming(n) ==
  \E i \in Depth : /\ stack[i].op = "resolve"
                   /\ \E k \in Kids(stack[i].node) : k > stack[i].at /\ n \in Subtree(k)
Elsewhere(n) ==
  \A i \in DOMAIN symbols :
    symbols[i].name = NameOf(n) /\ ScopeOfSymbol(i) \in {1} \cup {scopeOf[h] : h \in Homes(n)} =>
      symbols[i].node # 0 /\ FileOf(symbols[i].node) # FileOf(n)
Served(n) ==
  /\ Of(n) = Unqualified /\ symbolOf[n] = 0 => Elsewhere(n)
  /\ Of(n) # Unqualified /\ ImportedBefore(n) /\ Exported(n) => symbolOf[n] # 0 /\ symbols[symbolOf[n]].node # 0
Passed ==
  \A f \in File : Reaches(f, 2) =>
    \A n \in Subtree(Root(f)) : Kind(n) \in Use /\ Visited(n) => Served(n) \/ Upcoming(n)
Homed == \A n \in Node : Kind(n) \in HomeKinds /\ symbolOf[n] # 0 => scopeOf[n] # 0

Inductive ==
  /\ TypeOK /\ Chain /\ Pending /\ InContext /\ Scoped /\ ScopesFollowTree
  /\ Entries /\ Accounted /\ Avoided /\ RedeclaredStaysDark /\ Settled
=============================================================================
