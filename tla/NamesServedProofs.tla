--------------------------- MODULE NamesServedProofs ---------------------------
(***************************************************************************)
(* Proofs about Names: what the resolver leaves behind in a file, once it  *)
(* is through with it.                                                     *)
(***************************************************************************)
EXTENDS NamesProofs

-----------------------------------------------------------------------------
(* What a step may change in the tables: entries are added and bindings    *)
(* made, nothing is taken back, and a file that has come to its resolver   *)
(* gets neither declarations nor scopes.                                   *)
Grows ==
  /\ tree' = tree /\ reported \subseteq reported'
  /\ ScopesStay
  /\ \A i \in DOMAIN symbols : i \in DOMAIN symbols' /\ symbols'[i] = symbols[i]
  /\ \A i \in DOMAIN symbols' : i \notin DOMAIN symbols =>
       symbols'[i].node \in Node /\ ~Reaches(FileOf(symbols'[i].node), 2)
  /\ \A f \in File : Reaches(f, 2) => \A n \in Subtree(Root(f)) : scopeOf'[n] = scopeOf[n]

LEMMA CollecteeFile ==
  ASSUME Control, WalksOK, Collecting
  PROVE  /\ Collectee \in Node /\ Untouched(Collectee)
         /\ ~Reaches(FileOf(Collectee), 2)
         /\ \A f \in File : Reaches(f, 2) => Collectee \notin Subtree(Root(f))
<1>1. /\ stack # << >> /\ Top.op = "collect" /\ Collectee \in Kids(Top.node) /\ Collectee > Top.at
      /\ Collectee \in Node /\ Untouched(Collectee)
  BY CollectFacts
<1>2. Len(stack) \in Depth /\ Top = stack[Len(stack)] /\ Top.unit \in File /\ InTree
  BY <1>1, TopFacts DEF Control
<1>3. /\ Collectee \in Subtree(Root(Top.unit))
      /\ \A f \in File : Collectee \in Subtree(Root(f)) => f = Top.unit
  BY <1>1, ComesTo DEF Walk
<1>4. FileOf(Collectee) = Top.unit
  BY <1>2, <1>3, FileOfNode
<1>5. ~Reaches(Top.unit, 2)
  BY <1>1, <1>2, StageOfCall
<1> QED
  BY <1>1, <1>3, <1>4, <1>5

LEMMA DeclareGrows ==
  ASSUME Control, WalksOK, Collecting, Declare(Collectee), tree' = tree, reported' = reported,
         scopeOf' = scopeOf \/ scopeOf' = [scopeOf EXCEPT ![Collectee] = Len(scopes) + 1]
  PROVE  Grows
<1>1. /\ Collectee \in Node /\ Untouched(Collectee)
      /\ ~Reaches(FileOf(Collectee), 2)
      /\ \A f \in File : Reaches(f, 2) => Collectee \notin Subtree(Root(f))
  BY CollecteeFile
<1>2. symbols \in Seq(Symbol) /\ scopeOf \in [Node -> 0 .. Len(scopes)] /\ InTree
  BY DEF WalksOK, Tables, TablesTyped
<1>3. symbols' = Append(symbols, [name |-> NameOf(Collectee), node |-> Collectee])
  BY DEF Declare
<1>4. /\ \A i \in DOMAIN symbols : i \in DOMAIN symbols' /\ symbols'[i] = symbols[i]
      /\ \A i \in DOMAIN symbols' : i \notin DOMAIN symbols => symbols'[i].node = Collectee
  BY <1>2, <1>3
<1>5. ScopesStay
  BY <1>1, <1>2 DEF ScopesStay, Untouched
<1>6. ASSUME NEW f \in File, Reaches(f, 2), NEW n \in Subtree(Root(f)) PROVE scopeOf'[n] = scopeOf[n]
  <2>1. n \in Node /\ n # Collectee
    BY <1>1, <1>6, FileTypes
  <2> QED
    BY <1>2, <2>1
<1> QED
  BY <1>1, <1>4, <1>5, <1>6 DEF Grows

LEMMA ScopeGrows ==
  ASSUME Control, WalksOK, Collecting, tree' = tree, symbols' = symbols, reported' = reported,
         NEW s, scopeOf' = [scopeOf EXCEPT ![Collectee] = s]
  PROVE  Grows
<1>1. /\ Collectee \in Node /\ Untouched(Collectee)
      /\ \A f \in File : Reaches(f, 2) => Collectee \notin Subtree(Root(f))
  BY CollecteeFile
<1>2. scopeOf \in [Node -> 0 .. Len(scopes)] /\ InTree
  BY DEF WalksOK, Tables, TablesTyped
<1>3. ScopesStay
  BY <1>1, <1>2 DEF ScopesStay, Untouched
<1>4. ASSUME NEW f \in File, Reaches(f, 2), NEW n \in Subtree(Root(f)) PROVE scopeOf'[n] = scopeOf[n]
  <2>1. n \in Node /\ n # Collectee
    BY <1>1, <1>4, FileTypes
  <2> QED
    BY <1>2, <2>1
<1> QED
  BY <1>3, <1>4 DEF Grows

LEMMA NothingGrows ==
  ASSUME tree' = tree, symbols' = symbols, scopeOf' = scopeOf, reported \subseteq reported'
  PROVE  Grows
BY DEF Grows, ScopesStay

LEMMA StepGrows ==
  ASSUME Control, WalksOK, [Next]_vars
  PROVE  Grows
<1>1. CASE CollectOpening
  BY <1>1, DeclareGrows DEF CollectOpening
<1>2. CASE CollectLeaf
  BY <1>2, DeclareGrows DEF CollectLeaf
<1>3. CASE CollectImpl
  BY <1>3, ScopeGrows DEF CollectImpl
<1>4. CASE CollectModule
  BY <1>4, ScopeGrows DEF CollectModule
<1>5. CASE CollectInit
  BY <1>5, ScopeGrows DEF CollectInit
<1>6. CASE CollectRedeclared
  BY <1>6, NothingGrows DEF CollectRedeclared
<1>7. CASE \/ Compile \/ CollectOther \/ CollectReturn
           \/ LoadCompiled \/ LoadProvider \/ LoadCyclic \/ LoadReturn \/ UNCHANGED vars
  BY <1>7, NothingGrows DEF Compile, CollectOther, CollectReturn, LoadCompiled, LoadProvider, LoadCyclic, LoadReturn,
     vars, tables
<1>8. CASE ResolveEntered \/ ResolveUse \/ ResolveImport \/ ResolveOther \/ ResolveReturn
  BY <1>8, NothingGrows DEF ResolveEntered, ResolveUse, ResolveImport, ResolveOther, ResolveReturn, tables
<1> QED
  BY <1>1, <1>2, <1>3, <1>4, <1>5, <1>6, <1>7, <1>8 DEF Next, Step, Ended

(* A declaration with a symbol has its scope.                              *)
LEMMA HomedStep ==
  ASSUME Control, WalksOK, Homed, [Next]_vars
  PROVE  Homed'
<1>0. /\ symbolOf \in [Node -> 0 .. Len(symbols)] /\ scopeOf \in [Node -> 0 .. Len(scopes)] /\ InTree
      /\ Len(scopes) \in Nat
  BY TableFacts DEF WalksOK, Tables, TablesTyped
<1>1. Grows /\ Node' = Node
  BY StepGrows, TreeStays DEF Grows
<1> SUFFICES ASSUME NEW n \in Node, Kind(n) \in HomeKinds, symbolOf'[n] # 0, symbolOf'[n] # symbolOf[n]
             PROVE  scopeOf'[n] # 0
  BY <1>1, TreeStays DEF Homed, Grows, ScopesStay
<1>2. Kind(n) \notin Leaf /\ Kind(n) \notin Use /\ Kind(n) # "member"
  BY DEF HomeKinds, Opening, Leaf, Use
<1>3. CASE CollectOpening
  BY <1>0, <1>3 DEF CollectOpening, Declare
<1>4. CASE CollectLeaf
  BY <1>0, <1>2, <1>4 DEF CollectLeaf, Declare
<1>5. CASE ResolveUse
  BY <1>0, <1>2, <1>5 DEF ResolveUse
<1>6. CASE ResolveReturn
  BY <1>0, <1>2, <1>6 DEF ResolveReturn
<1>7. \/ CollectOpening \/ CollectLeaf \/ ResolveUse \/ ResolveReturn
      \/ symbolOf' = symbolOf
  BY DEF Next, Step, Ended, vars, tables, Compile, CollectRedeclared, CollectImpl, CollectModule, CollectInit,
         CollectOther, CollectReturn, ResolveEntered, ResolveImport, ResolveOther,
         LoadCompiled, LoadProvider, LoadCyclic, LoadReturn
<1> QED
  BY <1>3, <1>4, <1>5, <1>6, <1>7
-----------------------------------------------------------------------------
(* A name that is served stays so.                                         *)
LEMMA ReachedAntitone ==
  ASSUME Grows
  PROVE  \A n : Reached(n)' => Reached(n)
<1>1. tree' = tree /\ reported \subseteq reported'
  BY DEF Grows
<1> QED
  BY <1>1, TreeStays DEF Reached

LEMMA FilesStay ==
  ASSUME tree' = tree
  PROVE  /\ \A n : FileOf(n)' = FileOf(n)
         /\ \A n : ImportedBefore(n)' <=> ImportedBefore(n)
<1>1. \A n : FileOf(n)' = FileOf(n)
  BY TreeStays DEF FileOf
<1> QED
  BY <1>1, TreeStays DEF ImportedBefore

LEMMA ExportedBefore ==
  ASSUME Grows
  PROVE  \A n : Exported(n)' => Exported(n)
<1>1. tree' = tree /\ reported \subseteq reported' /\ \A n : Reached(n)' => Reached(n)
  BY ReachedAntitone DEF Grows
<1> QED
  BY <1>1, TreeStays, FilesStay DEF Exported

(* All that is above a node is in its file.                                *)
LEMMA FileOfAbove ==
  ASSUME InTree, NEW f \in File, NEW n \in Subtree(Root(f)), NEW a \in Node, n \in Subtree(a)
  PROVE  a \in Subtree(Root(f))
<1>1. PICK g \in File : a \in Subtree(Root(g))
  BY EachNodeHasFile
<1>2. n \in Subtree(Root(g))
  BY <1>1, RootFacts, SubtreeFacts
<1> QED
  BY <1>1, <1>2, FilesApart

LEMMA ServedStays ==
  ASSUME Inductive, [Next]_vars, NEW f \in File, Reaches(f, 2), NEW n \in Subtree(Root(f)),
         Kind(n) \in Use, Served(n)
  PROVE  Served(n)'
<1>1. Control /\ WalksOK /\ Tables /\ InTree
  BY InductiveParts DEF WalksOK, Control
<1>2. Grows /\ tree' = tree /\ ScopesStay
  BY <1>1, StepGrows DEF Grows
<1>3. n \in Node /\ FileOf(n) = f
  BY <1>1, FileTypes, FileOfNode
<1>4. symbolOf[n] # 0 => symbolOf'[n] = symbolOf[n]
  BY <1>3, StepBinds
<1>5. symbolOf[n] \in 0 .. Len(symbols) /\ DOMAIN symbols = 1 .. Len(symbols) /\ Len(symbols) \in Nat
  BY <1>1, <1>3, TableFacts
<1>6. /\ Of(n)' = Of(n) /\ NameOf(n)' = NameOf(n) /\ Homes(n)' = Homes(n)
      /\ (ImportedBefore(n)' <=> ImportedBefore(n))
      /\ \A m : FileOf(m)' = FileOf(m)
  BY <1>2, TreeStays, FilesStay
<1>7. ASSUME Of(n) = Unqualified, symbolOf'[n] = 0, NEW i \in DOMAIN symbols',
             symbols'[i].name = NameOf(n), ScopeOfSymbol(i)' \in {1} \cup {scopeOf'[h] : h \in Homes(n)}
      PROVE  symbols'[i].node # 0 /\ FileOf(symbols'[i].node) # FileOf(n)
  <2>1. Elsewhere(n)
    BY <1>4, <1>7 DEF Served
  <2>2. \A h \in Homes(n) : scopeOf'[h] = scopeOf[h]
    <3>1. \A h \in Homes(n) : h \in Node /\ n \in Subtree(h)
      BY <1>1, <1>3, HomeFacts
    <3>2. \A h \in Homes(n) : h \in Subtree(Root(f))
      BY <1>1, <3>1, FileOfAbove
    <3> QED
      BY <1>2, <3>2 DEF Grows
  <2>3. CASE i \in DOMAIN symbols
    <3>1. symbols'[i] = symbols[i]
      BY <1>2, <2>3 DEF Grows
    <3>2. ScopeOfSymbol(i)' = ScopeOfSymbol(i)
      BY <1>1, <1>2, <2>3, <3>1, ScopeOfSymbolStays
    <3>3. ScopeOfSymbol(i) \in {1} \cup {scopeOf[h] : h \in Homes(n)}
      BY <1>7, <2>2, <3>2
    <3> QED
      BY <1>7, <2>1, <2>3, <3>1, <3>3 DEF Elsewhere
  <2>4. CASE i \notin DOMAIN symbols
    <3>1. symbols'[i].node \in Node /\ ~Reaches(FileOf(symbols'[i].node), 2)
      BY <1>2, <2>4 DEF Grows
    <3> QED
      BY <1>1, <1>3, <3>1, TreeFacts
  <2> QED
    BY <2>3, <2>4
<1>8. ASSUME Of(n) # Unqualified, ImportedBefore(n), Exported(n)'
      PROVE  symbolOf'[n] # 0 /\ symbols'[symbolOf'[n]].node # 0
  <2>1. symbolOf[n] # 0 /\ symbols[symbolOf[n]].node # 0
    BY <1>2, <1>8, ExportedBefore DEF Served
  <2>2. symbols'[symbolOf[n]] = symbols[symbolOf[n]]
    BY <1>2, <1>5, <2>1 DEF Grows
  <2> QED
    BY <1>4, <2>1, <2>2
<1>9. Of(n) = Unqualified /\ symbolOf'[n] = 0 => Elsewhere(n)'
  BY <1>6, <1>7 DEF Elsewhere
<1> QED
  BY <1>6, <1>8, <1>9 DEF Served

-----------------------------------------------------------------------------
(* What the resolver visits depends on what it has bound on the way: below *)
(* a generic type, and beside the target of an assignment.  Either opens   *)
(* only what the walk has still before it.                                 *)
LEMMA TargetFacts ==
  ASSUME InTree, NEW n \in Node, Kind(n) = "assignment"
  PROVE  n + 1 \in Kids(n) /\ n + 1 \in Node /\ First(n) = {n + 1}
<1>1. IsParsed(tree) /\ Node = 1 .. Len(tree) /\ Len(tree) \in Nat /\ \A m \in Node : tree[m].depth \in Nat
  BY TreeFacts
<1>2. n + 1 \in Node /\ tree[n + 1].depth = tree[n].depth + 1
  <2>1. HasChild(tree, n)
    BY <1>1 DEF IsParsed, Kind
  <2> QED
    BY <2>1 DEF HasChild, Node
<1>3. IsAbove(n, n + 1)
  <2>1. n \in Nat /\ \A k \in n + 1 .. n + 1 : k = n + 1
    BY <1>1
  <2> QED
    BY <1>1, <1>2, <2>1 DEF IsAbove
<1>4. n + 1 \in n + 1 .. Len(tree)
  BY <1>1, <1>2
<1> QED
  BY <1>2, <1>3, <1>4 DEF Kids, First

LEMMA OneParent ==
  ASSUME InTree, NEW a \in Node, NEW b \in Node, NEW k \in Kids(a), k \in Kids(b)
  PROVE  a = b
<1>1. Ancestors(a) \cup {a} = Ancestors(b) \cup {b}
  BY AncestorsOfKid
<1>2. a \in Nat /\ b \in Nat /\ (\A c \in Ancestors(a) : c < a) /\ (\A c \in Ancestors(b) : c < b)
  BY TreeFacts, AncestorFacts
<1> QED
  BY <1>1, <1>2

LEMMA ResolvedStays ==
  ASSUME InTree, tree' = tree, NEW a \in Node
  PROVE  \/ Resolved(a)' = Resolved(a)
         \/ Kind(a) \in NeedsSymbol /\ symbolOf'[a] # symbolOf[a]
         \/ Kind(a) = "assignment" /\ symbolOf'[a + 1] # symbolOf[a + 1]
<1>1. Kind(a)' = Kind(a) /\ Kids(a)' = Kids(a) /\ First(a)' = First(a) /\ Items(a)' = Items(a)
  BY TreeStays DEF First, Items
<1>2. CASE Kind(a) \in NeedsSymbol /\ symbolOf'[a] = symbolOf[a]
  BY <1>1, <1>2 DEF Resolved, NeedsSymbol, Skipped
<1>3. CASE Kind(a) = "assignment" /\ symbolOf'[a + 1] = symbolOf[a + 1]
  BY <1>1, <1>3 DEF Resolved, NeedsSymbol, Skipped
<1>4. CASE Kind(a) \notin NeedsSymbol \cup {"assignment"}
  <2>1. Kind(a) \in Kinds
    BY TreeFacts DEF TreeNode, Kind
  <2>2. CASE Kind(a) \in Skipped
    BY <1>1, <1>4, <2>2 DEF Resolved, NeedsSymbol, Skipped
  <2>3. CASE Kind(a) \in {"block", "struct literal"}
    BY <1>1, <2>3 DEF Resolved, NeedsSymbol, Skipped
  <2>4. CASE Kind(a) \in {"root", "module", "init", "function", "struct", "enum", "field", "variant",
                          "variable", "statement", "expression", "member"}
    BY <1>1, <2>4 DEF Resolved, NeedsSymbol, Skipped
  <2> QED
    BY <1>4, <2>1, <2>2, <2>3, <2>4 DEF Kinds, Opening, Leaf, Use, Expression, Skipped, NeedsSymbol
<1> QED
  BY <1>2, <1>3, <1>4

(* In a file that has come to its resolver only the walk on top binds.     *)
LEMMA ResolverBinds ==
  ASSUME Control, WalksOK, [Next]_vars, NEW f \in File, Reaches(f, 2), NEW n \in Subtree(Root(f)),
         symbolOf'[n] # symbolOf[n]
  PROVE  \/ ResolveUse /\ n = Resolvee /\ Kind(n) \in Use
         \/ ResolveReturn /\ n = Top.node /\ Kind(n) = "member"
<1>1. symbolOf \in [Node -> 0 .. Len(symbols)] /\ InTree /\ n \in Node
  BY FileTypes DEF WalksOK, Tables, TablesTyped
<1>2. CASE CollectOpening
  <2>1. n # Collectee
    BY <1>2, CollecteeFile DEF CollectOpening
  <2> QED
    BY <1>1, <1>2, <2>1 DEF CollectOpening, Declare
<1>3. CASE CollectLeaf
  <2>1. n # Collectee
    BY <1>3, CollecteeFile DEF CollectLeaf
  <2> QED
    BY <1>1, <1>3, <2>1 DEF CollectLeaf, Declare
<1>4. CASE ResolveUse
  BY <1>1, <1>4 DEF ResolveUse
<1>5. CASE ResolveReturn
  BY <1>1, <1>5 DEF ResolveReturn
<1>6. \/ CollectOpening \/ CollectLeaf \/ ResolveUse \/ ResolveReturn
      \/ symbolOf' = symbolOf
  BY DEF Next, Step, Ended, vars, tables, Compile, CollectRedeclared, CollectImpl, CollectModule, CollectInit,
         CollectOther, CollectReturn, ResolveEntered, ResolveImport, ResolveOther,
         LoadCompiled, LoadProvider, LoadCyclic, LoadReturn
<1> QED
  BY <1>2, <1>3, <1>4, <1>5, <1>6

LEMMA NewlyVisited ==
  ASSUME Control, WalksOK, [Next]_vars, NEW f \in File, Reaches(f, 2), NEW n \in Subtree(Root(f)),
         Visited(n)', ~Visited(n)
  PROVE  Upcoming(n)'
<1>1. Grows /\ tree' = tree /\ reported \subseteq reported' /\ InTree /\ n \in Node
  BY StepGrows, FileTypes DEF Grows, Control
<1>2. /\ Ancestors(n)' = Ancestors(n)
      /\ \A m : Reached(m)' => Reached(m)
      /\ \A m : Kind(m)' = Kind(m) /\ Kids(m)' = Kids(m)
      /\ \A m, l : m \in Subtree(l)' <=> m \in Subtree(l)
  BY <1>1, ReachedAntitone, TreeStays
<1>3. PICK a \in Ancestors(n) : \E k \in Kids(a) :
         k \in Ancestors(n) \cup {n} /\ k \notin Resolved(a) /\ k \in Resolved(a)'
  BY <1>1, <1>2 DEF Visited
<1>k. PICK k \in Kids(a) : k \in Ancestors(n) \cup {n} /\ k \notin Resolved(a) /\ k \in Resolved(a)'
  BY <1>3
<1>4. /\ a \in Node /\ n \in Subtree(a) /\ a \in Subtree(Root(f))
      /\ k \in Node /\ k > a /\ n \in Subtree(k) /\ a \in Nat /\ k \in Nat
  <2>1. a \in Node /\ n \in Subtree(a)
    BY <1>1, AncestorFacts
  <2>2. k \in Node /\ k > a
    BY <1>1, <1>k, <2>1, KidFacts
  <2>3. n \in Subtree(k)
    BY <1>1, <1>k, <2>2, AncestorFacts
  <2> QED
    BY <1>1, <2>1, <2>2, <2>3, FileOfAbove, TreeFacts
<1>5. CASE Kind(a) \in NeedsSymbol /\ symbolOf'[a] # symbolOf[a]
  <2>1. ResolveUse /\ a = Resolvee /\ Kind(a) \in Use
    BY <1>4, <1>5, ResolverBinds DEF NeedsSymbol
  <2>2. stack' = Enter("resolve", a) /\ Resolving
    BY <1>5, <2>1 DEF ResolveUse, NeedsSymbol, Use
  <2>3. stack # << >> /\ Top.unit \in File
    BY <2>2, ResolveeFacts, TopFacts
  <2>4. PICK N \in Nat : N = Len(stack)
    BY <2>3, TopFacts
  <2>5. /\ Call("resolve", Top.unit, a) \in Frame /\ Call("resolve", Top.unit, a).op = "resolve"
        /\ Call("resolve", Top.unit, a).node = a /\ Call("resolve", Top.unit, a).at = 0
    BY <1>4, <2>3, CallIsFrame
  <2>6. Len(stack') = N + 1 /\ stack'[N + 1] = Call("resolve", Top.unit, a)
    BY <1>4, <2>2, <2>3, <2>4, <2>5, TopEnters DEF Enter
  <2>7. N + 1 \in Depth' /\ stack'[N + 1].op = "resolve" /\ stack'[N + 1].node = a /\ k > stack'[N + 1].at
    BY <1>4, <2>4, <2>5, <2>6 DEF Depth
  <2> QED
    BY <1>2, <1>k, <1>4, <2>7 DEF Upcoming
<1>6. CASE Kind(a) = "assignment" /\ symbolOf'[a + 1] # symbolOf[a + 1]
  <2>1. a + 1 \in Kids(a) /\ a + 1 \in Node /\ First(a) = {a + 1}
    BY <1>1, <1>4, <1>6, TargetFacts
  <2>2. k # a + 1 /\ k > a + 1
    <3>1. a + 1 \in Resolved(a)
      BY <1>6, <2>1 DEF Resolved, NeedsSymbol, Skipped
    <3> QED
      BY <1>k, <1>4, <3>1
  <2>3. a + 1 \in Subtree(Root(f))
    BY <1>1, <1>4, <2>1, RootFacts, KidFacts, SubtreeFacts
  <2>4. \/ ResolveUse /\ a + 1 = Resolvee /\ Kind(a + 1) \in Use
        \/ ResolveReturn /\ a + 1 = Top.node /\ Kind(a + 1) = "member"
    BY <1>6, <2>3, ResolverBinds
  <2>5. CASE ResolveUse /\ a + 1 = Resolvee
    <3>1. Resolving /\ stack' \in {At(a + 1), Enter("resolve", a + 1)}
      BY <2>5 DEF ResolveUse
    <3>2. stack # << >> /\ Top.op = "resolve" /\ Top.node \in Node /\ Top.unit \in File /\ a + 1 \in Kids(Top.node)
      BY <2>5, <3>1, ResolveeFacts, TopFacts
    <3>3. Top.node = a
      BY <1>1, <1>4, <2>1, <3>2, OneParent
    <3>4. PICK N \in Nat : N = Len(stack) /\ N > 0
      BY <3>2, TopFacts
    <3>5. Call("resolve", Top.unit, a + 1) \in Frame
      BY <1>4, <3>2, CallIsFrame
    <3>6. /\ Len(stack') >= N /\ Len(stack') \in Nat
          /\ stack'[N].op = Top.op /\ stack'[N].node = Top.node /\ stack'[N].at = a + 1
      <4>1. CASE stack' = At(a + 1)
        BY <1>4, <3>2, <3>4, <4>1, TopMoves
      <4>2. CASE stack' = Enter("resolve", a + 1)
        BY <1>4, <3>2, <3>4, <3>5, <4>2, TopEnters DEF Enter
      <4> QED
        BY <3>1, <4>1, <4>2
    <3>7. N \in Depth'
      BY <3>4, <3>6 DEF Depth
    <3> QED
      BY <1>2, <1>k, <1>4, <2>2, <3>2, <3>3, <3>6, <3>7 DEF Upcoming
  <2>6. CASE ResolveReturn /\ a + 1 = Top.node /\ Kind(a + 1) = "member"
    <3>1. stack # << >> /\ Top.op = "resolve" /\ stack' = Below
      BY <2>6 DEF ResolveReturn, In
    <3>2. PICK N \in Nat : N = Len(stack) /\ N > 0 /\ Top = stack[N]
      BY <3>1, TopFacts
    <3>3. N # 1
      BY <3>1, <3>2 DEF Control, Chain
    <3>4. N - 1 \in Depth /\ Awaits(stack[N - 1], stack[N])
      <4>1. N - 1 \in 1 .. Len(stack) - 1 /\ (N - 1) + 1 = N
        BY <3>2, <3>3
      <4> QED
        BY <4>1 DEF Control, Chain, Depth
    <3>5. FrameOK(stack[N - 1]) /\ stack[N - 1].node \in Node /\ stack[N - 1].unit \in File
      BY <3>4, StackFacts
    <3>6. stack[N - 1].op # "compile"
      <4>1. Kind(Root(stack[N - 1].unit)) = "root"
        BY <1>1, <3>5, RootFacts
      <4> QED
        BY <2>6, <3>1, <3>2, <3>4, <3>5, <4>1 DEF Awaits, FrameOK, Walk
    <3>7. stack[N - 1].op = "resolve" /\ stack[N - 1].at = a + 1
      BY <2>6, <3>1, <3>2, <3>4, <3>6 DEF Awaits, Walk
    <3>8. a + 1 \in Kids(stack[N - 1].node)
      BY <1>4, <3>5, <3>7 DEF FrameOK, Walk
    <3>9. stack[N - 1].node = a
      BY <1>1, <1>4, <2>1, <3>5, <3>8, OneParent
    <3>10. N - 1 \in Depth' /\ stack'[N - 1] = stack[N - 1]
      BY <3>1, <3>2, <3>3, BelowStack DEF Depth
    <3> QED
      BY <1>2, <1>k, <1>4, <2>2, <3>7, <3>9, <3>10 DEF Upcoming
  <2> QED
    BY <2>4, <2>5, <2>6
<1> QED
  BY <1>1, <1>4, <1>k, <1>5, <1>6, ResolvedStays
-----------------------------------------------------------------------------
(* What is before a walk stays there until the walk comes to it.           *)
LEMMA VisitedKid ==
  ASSUME InTree, NEW p \in Node, NEW k \in Kids(p), NEW n \in Subtree(k), Visited(n)
  PROVE  k \in Resolved(p)
<1>1. k \in Node /\ k > p /\ k \in Subtree(p)
  BY KidFacts
<1>2. n \in Node /\ n >= k /\ n \in Subtree(p)
  BY <1>1, SubtreeFacts
<1>3. p \in Nat /\ k \in Nat /\ n \in Nat
  BY <1>1, <1>2, TreeFacts
<1>4. p \in Ancestors(n) /\ k \in Ancestors(n) \cup {n}
  BY <1>1, <1>2, <1>3, AncestorFacts
<1> QED
  BY <1>4 DEF Visited

LEMMA UpcomingKept ==
  ASSUME tree' = tree, \A i \in Depth : stack[i].op = "resolve" => i \in Depth' /\ stack'[i] = stack[i]
  PROVE  \A n : Upcoming(n) => Upcoming(n)'
<1>1. \A m : Kids(m)' = Kids(m) /\ Subtree(m)' = Subtree(m)
  BY TreeStays
<1> SUFFICES ASSUME NEW n, Upcoming(n) PROVE Upcoming(n)'
  OBVIOUS
<1>2. PICK i \in Depth : /\ stack[i].op = "resolve"
                         /\ \E k \in Kids(stack[i].node) : k > stack[i].at /\ n \in Subtree(k)
  BY DEF Upcoming
<1>3. i \in Depth' /\ stack'[i] = stack[i]
  BY <1>2
<1> QED
  BY <1>1, <1>2, <1>3 DEF Upcoming

LEMMA UpcomingMoves ==
  ASSUME Control, Resolving, tree' = tree, NEW r, r = Resolvee, NEW n \in Node, Visited(n), Upcoming(n),
         \/ stack' = Enter("resolve", r)
         \/ (stack' = At(r) \/ stack' = Enter("load", r)) /\ Resolved(r) = {}
  PROVE  n = r \/ Upcoming(n)'
<1>1. /\ \A m : Kids(m)' = Kids(m) /\ Subtree(m)' = Subtree(m)
      /\ InTree
  BY TreeStays DEF Control
<1>2. /\ stack # << >> /\ Top.op = "resolve" /\ Top.node \in Node /\ Top.unit \in File /\ r \in Kids(Top.node)
      /\ r \in Node /\ r \in Nat
      /\ \A k \in Resolved(Top.node) : k > Top.at => r <= k
  BY <1>1, ResolveeFacts, TopFacts, TreeFacts
<1>a. Len(stack) \in Nat \ {0} /\ Len(stack) \in Depth /\ Top = stack[Len(stack)] /\ Depth = 1 .. Len(stack)
  BY <1>2, TopFacts DEF Depth
<1>3. PICK N \in Nat : N = Len(stack) /\ N > 0 /\ N \in Depth /\ Top = stack[N] /\ Depth = 1 .. N
  BY <1>a
<1>4. \A op \in {"load", "resolve"} :
        /\ Call(op, Top.unit, r) \in Frame /\ Call(op, Top.unit, r).op = op
        /\ Call(op, Top.unit, r).node = r /\ Call(op, Top.unit, r).at = 0
  BY <1>2, CallIsFrame
<1>5. PICK i \in Depth : /\ stack[i].op = "resolve"
                         /\ \E k \in Kids(stack[i].node) : k > stack[i].at /\ n \in Subtree(k)
  BY DEF Upcoming
<1>6. /\ Len(stack') >= N /\ Len(stack') \in Nat
      /\ stack'[N].op = Top.op /\ stack'[N].node = Top.node /\ stack'[N].at = r
      /\ \A j \in 1 .. N - 1 : stack'[j] = stack[j]
  <2>1. CASE stack' = At(r)
    BY <1>2, <1>3, <2>1, TopMoves, AtStack
  <2>2. ASSUME NEW op \in {"load", "resolve"}, stack' = Enter(op, r)
        PROVE  /\ Len(stack') >= N /\ Len(stack') \in Nat
               /\ stack'[N].op = Top.op /\ stack'[N].node = Top.node /\ stack'[N].at = r
               /\ \A j \in 1 .. N - 1 : stack'[j] = stack[j]
    <3>1. PICK c \in Frame : stack' = Append(At(r), c)
      BY <1>4, <2>2 DEF Enter
    <3>a. stack # << >> /\ r \in Nat /\ N = Len(stack)
      BY <1>2, <1>3
    <3>2. \A j \in 1 .. N - 1 : stack'[j] = stack[j]
      BY <3>a, <3>1, UnderEnter
    <3>3. /\ Len(stack') = N + 1
          /\ stack'[N].op = Top.op /\ stack'[N].node = Top.node /\ stack'[N].at = r
      BY <3>a, <3>1, TopEnters
    <3> QED
      BY <3>2, <3>3
  <2> QED
    BY <2>1, <2>2
<1>7. N \in Depth' /\ \A j \in 1 .. N - 1 : j \in Depth'
  BY <1>3, <1>6 DEF Depth
<1>8. CASE i # N
  <2>1. i \in 1 .. N - 1
    BY <1>3, <1>8
  <2> QED
    BY <1>1, <1>5, <1>6, <1>7, <2>1 DEF Upcoming
<1>9. CASE i = N
  <2>1. PICK k \in Kids(Top.node) : k > Top.at /\ n \in Subtree(k)
    BY <1>3, <1>5, <1>9
  <2>2. k \in Resolved(Top.node) /\ r <= k /\ k \in Nat /\ k \in Node
    <3>1. k \in Resolved(Top.node)
      BY <1>1, <1>2, <2>1, VisitedKid
    <3>2. k \in Node /\ k \in Nat
      <4>1. k \in Node
        BY <1>1, <1>2, <2>1, KidFacts
      <4> QED
        BY <1>1, <4>1, TreeFacts
    <3> QED
      BY <1>2, <2>1, <3>1, <3>2
  <2>3. CASE r # k
    <3>1. k > stack'[N].at
      BY <1>2, <1>6, <2>2, <2>3
    <3> QED
      BY <1>1, <1>2, <1>6, <1>7, <2>1, <3>1 DEF Upcoming
  <2>4. CASE r = k /\ n # r
    <3>1. PICK l \in Kids(r) : n \in Subtree(l)
      BY <1>1, <1>2, <2>1, <2>4, BelowIsBelowKid
    <3>2. l \in Resolved(r) /\ l > 0
      <4>1. l \in Resolved(r)
        BY <1>1, <1>2, <3>1, VisitedKid
      <4>2. l > r /\ r \in 1 .. Len(tree) /\ l \in 1 .. Len(tree)
        <5>1. l \in Node /\ l > r
          BY <1>1, <1>2, <3>1, KidFacts
        <5> QED
          BY <1>1, <1>2, <5>1, TreeFacts
      <4> QED
        BY <4>1, <4>2
    <3>3. stack' = Enter("resolve", r)
      BY <3>2
    <3>4. Len(stack') = N + 1 /\ stack'[N + 1] = Call("resolve", Top.unit, r)
      <4>1. stack' = Append(At(r), Call("resolve", Top.unit, r))
        BY <3>3 DEF Enter
      <4>2. stack # << >> /\ r \in Nat /\ N = Len(stack) /\ Call("resolve", Top.unit, r) \in Frame
        BY <1>2, <1>3, <1>4
      <4> QED
        BY <4>1, <4>2, TopEnters
    <3>5. /\ N + 1 \in Depth' /\ stack'[N + 1].op = "resolve" /\ stack'[N + 1].node = r /\ l > stack'[N + 1].at
      BY <1>3, <1>4, <3>2, <3>4 DEF Depth
    <3> QED
      BY <1>1, <3>1, <3>5 DEF Upcoming
  <2> QED
    BY <2>3, <2>4
<1> QED
  BY <1>8, <1>9

LEMMA UpcomingReturns ==
  ASSUME Control, In("resolve"), Left(Resolved(Top.node)) = {}, tree' = tree, stack' = Below,
         NEW n \in Node, Visited(n), Upcoming(n)
  PROVE  Upcoming(n)'
<1>1. /\ \A m : Kids(m)' = Kids(m) /\ Subtree(m)' = Subtree(m)
      /\ InTree
  BY TreeStays DEF Control
<1>2. stack # << >>
  BY DEF In
<1>a. /\ Len(stack) \in Nat \ {0} /\ Top = stack[Len(stack)] /\ Depth = 1 .. Len(stack)
      /\ Top.node \in Node
  BY <1>2, TopFacts DEF Depth
<1>3. PICK N \in Nat : N = Len(stack) /\ N > 0 /\ Top = stack[N] /\ Depth = 1 .. N /\ Top.node \in Node
  BY <1>a
<1>4. PICK i \in Depth : /\ stack[i].op = "resolve"
                         /\ \E k \in Kids(stack[i].node) : k > stack[i].at /\ n \in Subtree(k)
  BY DEF Upcoming
<1>5. i # N
  <2> SUFFICES ASSUME i = N PROVE FALSE
    OBVIOUS
  <2>1. PICK k \in Kids(Top.node) : k > Top.at /\ n \in Subtree(k)
    BY <1>3, <1>4
  <2>2. k \in Resolved(Top.node)
    BY <1>1, <1>3, <2>1, VisitedKid
  <2> QED
    BY <2>1, <2>2 DEF Left
<1>6. i \in Depth' /\ stack'[i] = stack[i]
  BY <1>2, <1>3, <1>5, BelowStack DEF Depth
<1> QED
  BY <1>1, <1>4, <1>6 DEF Upcoming

-----------------------------------------------------------------------------
(* Around a name that is visited every declaration has its scope.          *)
LEMMA AheadInCollector ==
  ASSUME Control, NEW f \in File, NEW n \in Subtree(Root(f)), Ahead(n)
  PROVE  ~Reaches(f, 2)
<1>1. InTree
  BY DEF Control
<1>2. PICK i \in Depth : /\ stack[i].op = "collect"
                         /\ \E k \in Collected(stack[i].node) : k > stack[i].at /\ n \in Subtree(k)
  BY DEF Ahead
<1>3. stack[i].node \in Node /\ stack[i].node \in Subtree(Root(stack[i].unit)) /\ stack[i].unit \in File
  BY StackFacts DEF FrameOK
<1>4. PICK k \in Kids(stack[i].node) : n \in Subtree(k)
  BY <1>1, <1>2, <1>3, VisitedKids
<1>5. n \in Subtree(Root(stack[i].unit))
  <2>1. k \in Subtree(stack[i].node) /\ Root(stack[i].unit) \in Node
    BY <1>1, <1>3, KidFacts, RootFacts
  <2>2. n \in Subtree(stack[i].node)
    BY <1>1, <1>3, <1>4, <2>1, SubtreeFacts
  <2> QED
    BY <1>1, <1>3, <2>1, <2>2, SubtreeFacts
<1>6. stack[i].unit = f
  BY <1>1, <1>3, <1>5, FilesApart
<1> QED
  BY <1>2, <1>6, StageOfCall

LEMMA StagesInOrder ==
  ASSUME Control, NEW f, Reaches(f, 2)
  PROVE  Reaches(f, 1)
<1>1. \A i \in Depth : stack[i].at \in Nat
  BY StackFacts
<1> QED
  BY <1>1 DEF Reaches

LEMMA CollectedBefore ==
  ASSUME Control, Settled, NEW f \in File, Reaches(f, 2), NEW n \in Subtree(Root(f)),
         Kind(n) \in HomeKinds \cup Leaf, Reached(n)
  PROVE  ~Untouched(n)
BY StagesInOrder, AheadInCollector DEF Settled

LEMMA HomesScoped ==
  ASSUME Control, Settled, Homed, NEW f \in File, Reaches(f, 2), NEW n \in Subtree(Root(f)), Visited(n)
  PROVE  \A h \in Homes(n) : scopeOf[h] # 0
<1>1. InTree /\ n \in Node
  BY FileTypes DEF Control
<1> SUFFICES ASSUME NEW h \in Homes(n) PROVE scopeOf[h] # 0
  OBVIOUS
<1>2. h \in Ancestors(n) /\ Kind(h) \in HomeKinds /\ h \in Node /\ n \in Subtree(h)
  BY <1>1, HomeFacts DEF Homes
<1>3. h \notin reported /\ Reached(h)
  BY <1>2 DEF Visited, HomeKinds, Opening
<1>4. h \in Subtree(Root(f))
  BY <1>1, <1>2, FileOfAbove
<1>5. ~Untouched(h)
  BY <1>2, <1>3, <1>4, CollectedBefore
<1> QED
  BY <1>2, <1>3, <1>5 DEF Untouched, Homed

(* Where nothing is found, no table on the way out has an entry.           *)
LEMMA LookupNothing ==
  ASSUME Tables, NEW x \in Name
  PROVE  \A h \in Node : Kind(h) \in HomeKinds /\ Kids(h) # {} /\ scopeOf[h] # 0 /\ Lookup(scopeOf[h], x) = 0 =>
           /\ scopes[1].table[x] = 0
           /\ \A a \in Inside(h) : scopes[scopeOf[a]].table[x] = 0
<1> DEFINE Silent(h) == /\ scopes[1].table[x] = 0
                        /\ \A a \in Inside(h) : scopes[scopeOf[a]].table[x] = 0
           Bad == {h \in Node : /\ Kind(h) \in HomeKinds /\ Kids(h) # {} /\ scopeOf[h] # 0
                                /\ Lookup(scopeOf[h], x) = 0 /\ ~Silent(h)}
<1>1. InTree /\ Bad \in SUBSET Nat
  BY TreeFacts DEF Tables
<1> SUFFICES ASSUME Bad # {} PROVE FALSE
  OBVIOUS
<1>2. PICK h \in Bad : \A k \in Bad : h <= k
  BY <1>1, LeastMember
<1>3. /\ h \in Node /\ Kind(h) \in HomeKinds /\ Kids(h) # {} /\ scopeOf[h] # 0
      /\ Lookup(scopeOf[h], x) = 0 /\ ~Silent(h)
  BY <1>2
<1>4. /\ scopeOf[h] \in DOMAIN scopes /\ 1 \in DOMAIN scopes /\ scopes[1].parent = 0
      /\ modules[Builtin] = 1
  BY <1>3, TableFacts DEF Tables, Scoped
<1>5. /\ Lookup(scopeOf[h], x) = IF scopes[scopeOf[h]].table[x] # 0 THEN scopes[scopeOf[h]].table[x]
                                 ELSE Lookup(scopes[scopeOf[h]].parent, x)
      /\ Lookup(1, x) = scopes[1].table[x] /\ Lookup(0, x) = 0
  BY <1>4, LookupFacts
<1>6. scopes[scopeOf[h]].table[x] = 0 /\ Lookup(scopes[scopeOf[h]].parent, x) = 0
  BY <1>3, <1>5
<1>7. CASE Kind(h) = "module"
  <2>1. /\ Inside(h) = {h}
        /\ scopes[scopeOf[h]].parent = IF NameOf(h) = Builtin THEN 0 ELSE 1
    BY <1>3, <1>7, HomeOfHome
  <2>2. NameOf(h) = Builtin => scopeOf[h] = 1
    BY <1>3, <1>4, <1>7 DEF Tables, ScopesFollowTree
  <2>3. scopes[1].table[x] = 0
    BY <1>5, <1>6, <2>1, <2>2
  <2> QED
    BY <1>3, <1>6, <2>1, <2>3
<1>8. CASE Kind(h) # "module"
  <2>1. PICK g \in Node :
            /\ g < h /\ Kind(g) \in HomeKinds /\ Kids(g) # {} /\ scopeOf[g] # 0
            /\ Inside(h) = Inside(g) \cup {h} /\ h \notin Inside(g)
            /\ scopes[scopeOf[h]].parent = scopeOf[g]
    BY <1>3, <1>8, HomeOfHome
  <2>2. Lookup(scopeOf[g], x) = 0
    BY <1>6, <2>1
  <2>3. ~Silent(g)
    BY <1>3, <1>6, <2>1
  <2>4. g \in Bad
    BY <2>1, <2>2, <2>3
  <2>5. ~(h <= g)
    BY <1>1, <1>3, <2>1, TreeFacts
  <2> QED
    BY <1>2, <2>4, <2>5
<1> QED
  BY <1>7, <1>8
-----------------------------------------------------------------------------
(* A walk that has come to a name has come past the imports before it.     *)
LEMMA ImportIsSure ==
  ASSUME InTree, NEW f \in File, NEW h \in Node, Kind(h) = "module", NEW m \in Kids(h), Kind(m) = "import",
         m \in Subtree(Root(f))
  PROVE  h \in Kids(Root(f)) /\ Sure(m)
<1>1. /\ IsParsed(tree) /\ IsForest(tree) /\ Node = 1 .. Len(tree) /\ Len(tree) \in Nat
      /\ Root(f) \in Node /\ Kind(Root(f)) = "root"
  BY TreeFacts, RootFacts
<1>2. m \in Node /\ m > h /\ m \in Subtree(h)
  BY KidFacts
<1>3. h \in Subtree(Root(f))
  BY <1>2, FileOfAbove
<1>4. PICK a \in Kids(Root(f)) : h \in Subtree(a)
  BY <1>1, <1>3, BelowIsBelowKid
<1>5. a \in Node /\ Kind(a) = "module" /\ Ancestors(a) = Ancestors(Root(f)) \cup {Root(f)}
  BY <1>1, <1>4, RootInside, KidFacts, AncestorsOfKid
<1>6. h = a
  <2> SUFFICES ASSUME h # a PROVE FALSE
    OBVIOUS
  <2>1. a \in Ancestors(h)
    BY <1>4, <1>5, AncestorFacts
  <2>2. a \in Homes(h)
    BY <1>5, <2>1 DEF Homes, HomeKinds
  <2> QED
    BY <1>2, <2>2, ModuleAround
<1>7. Ancestors(m) = {h, Root(f)}
  BY <1>1, <1>5, <1>6, AncestorsOfKid, NothingAboveRoot
<1>8. AlwaysVisited(m)
  BY <1>1, <1>7 DEF AlwaysVisited, Skipped, NeedsSymbol
<1> QED
  BY <1>4, <1>6, <1>8 DEF Sure

LEMMA KidsInOrder ==
  ASSUME InTree, NEW p \in Node, NEW k \in Kids(p), NEW l \in Kids(p), NEW n \in Subtree(k), n >= l
  PROVE  l <= k
<1>1. /\ k \in Node /\ l \in Node /\ tree[k].depth = tree[p].depth + 1 /\ tree[l].depth = tree[p].depth + 1
      /\ p \in Nat /\ k \in Nat /\ l \in Nat /\ tree[p].depth \in Nat
  BY KidFacts, TreeFacts
<1>2. n \in Node /\ n \in Nat /\ n >= k /\ (n # k => IsAbove(k, n))
  BY <1>1, SubtreeFacts, TreeFacts
<1> SUFFICES ASSUME l > k PROVE FALSE
  BY <1>1
<1>3. IsAbove(k, n) /\ l \in k + 1 .. n
  BY <1>1, <1>2
<1> QED
  BY <1>1, <1>3 DEF IsAbove

LEMMA RootWalk ==
  ASSUME Control, stack # << >>, Top.op = "resolve"
  PROVE  \E i \in Depth : /\ stack[i].op = "resolve" /\ stack[i].unit = Top.unit
                          /\ stack[i].node = Root(Top.unit)
<1>1. Len(stack) \in Depth /\ Top = stack[Len(stack)] /\ Len(stack) \in Nat \ {0}
  BY TopFacts
<1>2. PICK j \in 1 .. Len(stack) - 1 :
         stack[j].op = "compile" /\ stack[j].unit = Top.unit /\ stack[j].at = 2
  BY <1>1 DEF Control, Chain, Supported
<1>3. j \in Depth /\ j + 1 \in Depth /\ Awaits(stack[j], stack[j + 1])
  BY <1>1, <1>2 DEF Control, Chain, Depth
<1>4. FrameOK(stack[j]) /\ stack[j + 1].op \in {"compile", "collect", "resolve", "load"}
  BY <1>3, StackFacts
<1>5. stack[j + 1].op = "resolve"
  BY <1>2, <1>3, <1>4 DEF Awaits, Walk
<1> QED
  BY <1>2, <1>3, <1>4, <1>5 DEF Awaits, FrameOK, Walk

LEMMA ImportLoaded ==
  ASSUME Linking, Resolving, NEW n, n = Resolvee, Kind(n) \in Use, Visited(n), ImportedBefore(n)
  PROVE  \A j \in Providers(Of(n)) : Listed[j] \in compiled
<1>1. Control /\ InTree /\ Linked
  BY DEF Linking, Control
<1>2. /\ stack # << >> /\ Top.op = "resolve" /\ n \in Kids(Top.node) /\ n \in Node /\ n > Top.at
      /\ Top.node \in Node /\ Top.unit \in File /\ n \in Nat
  BY <1>1, ResolveeFacts, TopFacts, TreeFacts
<1>3. n \in Subtree(Root(Top.unit)) /\ FileOf(n) = Top.unit
  BY <1>1, <1>2, ComesTo, FileOfNode DEF Walk
<1>4. PICK m \in 1 .. n - 1 : /\ Kind(m) = "import" /\ NameOf(m) = Of(n) /\ FileOf(m) = FileOf(n)
                              /\ \E h \in Node : Kind(h) = "module" /\ m \in Kids(h)
  BY DEF ImportedBefore
<1>5. PICK h \in Node : Kind(h) = "module" /\ m \in Kids(h)
  BY <1>4
<1>6. m \in Node /\ m < n /\ m > h /\ m \in Nat /\ h \in Nat /\ h < n
  BY <1>1, <1>2, <1>4, <1>5, KidFacts, TreeFacts
<1>7. m \in Subtree(Root(Top.unit))
  BY <1>1, <1>3, <1>4, <1>6, EachNodeHasFile
<1>8. h \in Kids(Root(Top.unit)) /\ Sure(m)
  BY <1>1, <1>2, <1>4, <1>5, <1>7, ImportIsSure
<1> SUFFICES Loaded(m)
  BY <1>4 DEF Loaded
<1>9. PICK N \in Nat : N = Len(stack) /\ N > 0 /\ N \in Depth /\ Top = stack[N] /\ Depth = 1 .. N
  <2>1. Len(stack) \in Nat \ {0} /\ Len(stack) \in Depth /\ Top = stack[Len(stack)] /\ Depth = 1 .. Len(stack)
    BY <1>1, <1>2, TopFacts DEF Depth
  <2> QED
    BY <2>1
<1>10. PICK i \in Depth : /\ stack[i].op = "resolve" /\ stack[i].unit = Top.unit
                          /\ stack[i].node = Root(Top.unit)
  BY <1>1, <1>2, RootWalk
<1>11. \A k \in Kids(stack[i].node) : k < stack[i].at => Settles(k)
  BY <1>1, <1>10 DEF Linked, LinkedAt, Past, Settles
<1>12. i # N
  <2> SUFFICES ASSUME i = N PROVE FALSE
    OBVIOUS
  <2>1. Kind(n) = "module"
    BY <1>1, <1>2, <1>9, <1>10, RootFacts, RootInside
  <2> QED
    BY <2>1 DEF Use
<1>13. i < N /\ i \in Nat
  BY <1>9, <1>12
<1>14. PICK c \in Kids(Root(Top.unit)) : c = stack[i].at /\ Top.node \in Subtree(c)
  BY <1>1, <1>9, <1>10, <1>13 DEF Control, Chain, Nested, Walk
<1>15. Root(Top.unit) \in Node /\ c \in Node /\ n \in Subtree(c) /\ c \in Nat
  <2>1. Root(Top.unit) \in Node
    BY <1>1, <1>2, RootFacts
  <2>2. c \in Node /\ c \in Nat
    BY <1>1, <1>14, <2>1, KidFacts, TreeFacts
  <2>3. n \in Subtree(Top.node)
    BY <1>1, <1>2, KidFacts
  <2> QED
    BY <1>1, <1>14, <2>1, <2>2, <2>3, SubtreeFacts
<1>16. h <= c
  <2>1. n >= h
    BY <1>2, <1>6
  <2> QED
    BY <1>1, <1>8, <1>14, <1>15, <2>1, KidsInOrder
<1>17. CASE h < c
  <2>1. Settles(h)
    BY <1>8, <1>10, <1>11, <1>14, <1>17
  <2>2. m \in Subtree(h)
    BY <1>1, <1>5, KidFacts
  <2> QED
    BY <1>8, <2>1, <2>2 DEF Settles
<1>18. CASE h = c
  <2>1. PICK j \in Nat : j = i + 1 /\ j \in Depth /\ Awaits(stack[i], stack[j])
    <3>1. i + 1 \in Depth /\ i \in 1 .. Len(stack) - 1
      BY <1>9, <1>13
    <3> QED
      BY <1>1, <1>13, <3>1 DEF Control, Chain
  <2>2. FrameOK(stack[j]) /\ stack[j].op \in {"compile", "collect", "resolve", "load"}
    BY <1>1, <2>1, StackFacts
  <2>3. stack[j].op = "resolve" /\ stack[j].node = h /\ stack[j].unit = Top.unit
    BY <1>5, <1>10, <1>14, <1>18, <2>1, <2>2 DEF Awaits, FrameOK, Walk
  <2>4. CASE j = N
    <3>1. Settles(m)
      BY <1>2, <1>5, <1>6, <1>9, <2>3, <2>4, ComesToSettled
    <3>2. m \in Subtree(m)
      BY <1>1, <1>6, SubtreeFacts
    <3> QED
      BY <1>8, <3>1, <3>2 DEF Settles
  <2>5. CASE j # N
    <3>1. j < N
      BY <1>9, <2>1, <2>5
    <3>2. PICK d \in Kids(h) : d = stack[j].at /\ Top.node \in Subtree(d)
      BY <1>1, <1>9, <2>1, <2>3, <3>1 DEF Control, Chain, Nested, Walk
    <3>3. d \in Node /\ d \in Nat /\ n \in Subtree(d)
      <4>1. d \in Node /\ d \in Nat
        BY <1>1, <1>5, <3>2, KidFacts, TreeFacts
      <4>2. n \in Subtree(Top.node)
        BY <1>1, <1>2, KidFacts
      <4> QED
        BY <1>1, <3>2, <4>1, <4>2, SubtreeFacts
    <3>4. m <= d
      BY <1>1, <1>2, <1>5, <1>6, <3>2, <3>3, KidsInOrder
    <3>5. m # d
      <4> SUFFICES ASSUME m = d PROVE FALSE
        OBVIOUS
      <4>1. PICK k \in Kids(m) : n \in Subtree(k)
        BY <1>1, <1>6, <3>3, BelowIsBelowKid
      <4>2. k \in Resolved(m)
        BY <1>1, <1>6, <4>1, VisitedKid
      <4> QED
        BY <1>4, <4>2 DEF Resolved, NeedsSymbol, Skipped
    <3>6. Past(j, m)
      BY <1>6, <3>2, <3>3, <3>4, <3>5 DEF Past
    <3>7. m \in Subtree(m)
      BY <1>1, <1>6, SubtreeFacts
    <3> QED
      BY <1>1, <1>5, <1>8, <2>1, <2>3, <3>6, <3>7 DEF Linked, LinkedAt
  <2> QED
    BY <2>4, <2>5
<1> QED
  BY <1>6, <1>15, <1>16, <1>17, <1>18
-----------------------------------------------------------------------------
(* What is exported by a file that is compiled is in its module's table.   *)
LEMMA ExportIsEntered ==
  ASSUME Control, Tables, Settled, NEW d \in Node, Kind(d) \in Opening \cup Leaf, Reached(d), d \notin reported,
         FileOf(d) \in compiled, Kind(Greatest(Homes(d))) = "module"
  PROVE  LET s == modules[NameOf(Greatest(Homes(d)))]
         IN  s \in DOMAIN scopes /\ symbols[scopes[s].table[NameOf(d)]].node = d /\ scopes[s].table[NameOf(d)] # 0
<1>1. InTree
  BY DEF Control
<1>2. PICK g \in File : g = FileOf(d) /\ d \in Subtree(Root(g))
  BY <1>1, EachNodeHasFile
<1>3. Reaches(g, 2)
  BY <1>2 DEF Reaches
<1>4. ~Untouched(d)
  BY <1>2, <1>3, CollectedBefore DEF HomeKinds
<1>5. symbolOf[d] # 0
  <2>1. CASE scopeOf[d] # 0
    <3>1. Kind(d) \in HomeKinds \cup {"init"}
      BY <2>1 DEF Tables, Scoped
    <3>2. Kind(d) \in Opening
      BY <3>1 DEF HomeKinds, Opening, Leaf
    <3> QED
      BY <2>1, <3>2 DEF Tables, Entries
  <2> QED
    BY <1>4, <2>1 DEF Untouched
<1>6. PICK i \in DOMAIN symbols : i = symbolOf[d] /\ symbols[i].node = d
  <2>1. symbolOf[d] \in DOMAIN symbols
    BY <1>5, TableFacts
  <2> QED
    BY <1>5, <2>1 DEF Tables, Entries
<1>7. d # 0
  BY <1>1, TreeFacts
<1>8. /\ symbols[i].name = NameOf(d) /\ Homes(d) # {}
      /\ ScopeOfSymbol(i) \in DOMAIN scopes /\ scopes[ScopeOfSymbol(i)].table[symbols[i].name] = i
  BY <1>6, <1>7 DEF Tables, Entries
<1>9. PICK h \in Node : h = Greatest(Homes(d))
  BY <1>1, <1>8, GreatestHome
<1>10. ScopeOfSymbol(i) = scopeOf[h]
  BY <1>6, <1>7, <1>9 DEF ScopeOfSymbol, HomeScope
<1>11. scopeOf[h] # 0
  BY <1>8, <1>10, TableFacts
<1>12. scopeOf[h] = modules[NameOf(h)]
  BY <1>9, <1>11 DEF Tables, ScopesFollowTree
<1>13. i # 0
  BY <1>5, <1>6
<1> QED
  BY <1>6, <1>8, <1>9, <1>10, <1>12, <1>13

(* The resolver serves a name when it comes to it.                         *)
LEMMA ServedHere ==
  ASSUME Linking, WalksOK, Homed, ResolveUse, NEW n, n = Resolvee, Visited(n)
  PROVE  Served(n)'
<1>1. Control /\ InTree /\ Tables /\ ContextTyped /\ InContext /\ Settled /\ Resolving
  BY DEF Linking, Control, WalksOK, ResolveUse
<1>2. /\ stack # << >> /\ Top.op = "resolve" /\ n \in Kids(Top.node) /\ n \in Node /\ n > Top.at
      /\ Top.node \in Node /\ Top.unit \in File
  BY <1>1, ResolveeFacts, TopFacts
<1>3. /\ Kind(n) \in Use /\ tree' = tree /\ scopes' = scopes /\ symbols' = symbols /\ scopeOf' = scopeOf
      /\ reported' = reported
      /\ symbolOf' = IF Meaning(n) = 0 THEN symbolOf ELSE [symbolOf EXCEPT ![n] = Meaning(n)]
  BY DEF ResolveUse
<1>4. symbolOf \in [Node -> 0 .. Len(symbols)] /\ symbolOf[n] = 0
  <2>1. \A m \in Subtree(n) : Unbound(m)
    <3>1. Len(stack) \in Depth /\ Top = stack[Len(stack)]
      BY <1>1, <1>2, TopFacts
    <3> QED
      BY <1>2, <3>1 DEF WalksOK, Pending
  <2>2. n \in Subtree(n)
    BY <1>1, <1>2, SubtreeFacts
  <2> QED
    BY <1>1, <1>3, <2>1, <2>2 DEF Unbound, Bound, Tables, TablesTyped
<1>5. symbolOf'[n] = Meaning(n)
  BY <1>2, <1>3, <1>4
<1>6. n \in Subtree(Root(Top.unit)) /\ Reaches(Top.unit, 2)
  <2>1. Len(stack) \in Depth /\ Top = stack[Len(stack)]
    BY <1>1, <1>2, TopFacts
  <2> QED
    BY <1>1, <1>2, <2>1, ComesTo, StageOfCall DEF Walk
<1>7. \A h \in Homes(n) : scopeOf[h] # 0
  BY <1>1, <1>2, <1>6, HomesScoped
<1>8. Homes(n) # {} /\ Current = HomeScope(n) /\ Homes(n) = Inside(Top.node)
  BY <1>1, <1>2, <1>3, MeaningBound, HomesOfKid DEF Walk
<1>9. PICK g \in Node : g = Greatest(Homes(n)) /\ g \in Homes(n) /\ Kind(g) \in HomeKinds
  BY <1>1, <1>2, <1>8, GreatestHome
<1>10. /\ Inside(g) = Homes(n) /\ Kids(g) # {} /\ scopeOf[g] # 0 /\ Current = scopeOf[g] /\ Current # 0
       /\ NameOf(n) \in Name
  <2>1. Inside(g) = Homes(n)
    BY <1>1, <1>2, <1>8, <1>9, InnermostHome
  <2>2. n \in Subtree(g) /\ n # g
    BY <1>1, <1>2, <1>9, HomeFacts
  <2>3. Kids(g) # {}
    BY <1>1, <1>9, <2>2, BelowIsBelowKid
  <2>4. scopeOf[g] # 0 /\ Current = scopeOf[g]
    BY <1>7, <1>8, <1>9 DEF HomeScope
  <2>5. NameOf(n) \in Name
    BY <1>1, <1>2, <1>3, UseFacts
  <2> QED
    BY <2>1, <2>3, <2>4, <2>5
<1>11. /\ Of(n)' = Of(n) /\ NameOf(n)' = NameOf(n) /\ Homes(n)' = Homes(n)
       /\ (ImportedBefore(n)' <=> ImportedBefore(n))
       /\ \A m : FileOf(m)' = FileOf(m)
       /\ \A i : ScopeOfSymbol(i)' = ScopeOfSymbol(i)
  <2>1. \A m : FileOf(m)' = FileOf(m) /\ Homes(m)' = Homes(m)
    BY <1>3, TreeStays, FilesStay
  <2>2. \A i : ScopeOfSymbol(i)' = ScopeOfSymbol(i)
    BY <1>3, <2>1 DEF ScopeOfSymbol, HomeScope
  <2> QED
    BY <1>3, <2>1, <2>2, TreeStays, FilesStay
<1>12. ASSUME Of(n) = Unqualified, Meaning(n) = 0 PROVE Elsewhere(n)
  <2>1. Lookup(scopeOf[g], NameOf(n)) = 0
    BY <1>10, <1>12 DEF Meaning
  <2>2. /\ scopes[1].table[NameOf(n)] = 0
        /\ \A a \in Homes(n) : scopes[scopeOf[a]].table[NameOf(n)] = 0
    BY <1>1, <1>9, <1>10, <2>1, LookupNothing
  <2>3. \A i \in DOMAIN symbols :
          i # 0 /\ scopes[ScopeOfSymbol(i)].table[symbols[i].name] = i
    BY <1>1, TableFacts DEF Tables, Entries
  <2> QED
    BY <2>2, <2>3 DEF Elsewhere
<1>13. ASSUME Of(n) # Unqualified, ImportedBefore(n), Exported(n)
       PROVE  Meaning(n) # 0 /\ symbols[Meaning(n)].node # 0
  <2>1. PICK d \in Node : /\ Kind(d) \in Opening \cup Leaf /\ NameOf(d) = NameOf(n) /\ Reached(d) /\ d \notin reported
                          /\ Kind(Greatest(Homes(d))) = "module"
                          /\ NameOf(Greatest(Homes(d))) = Of(n)
                          /\ FileOf(d) \in Elements(Listed)
    BY <1>13 DEF Exported
  <2>2. PICK j \in DOMAIN Listed : Listed[j] = FileOf(d)
    BY <2>1 DEF Elements
  <2>3. j \in Providers(Of(n))
    <3>1. PICK f \in File : f = FileOf(d) /\ d \in Subtree(Root(f)) /\ Root(f) \in Node /\ Kind(Root(f)) = "root"
      BY <1>1, EachNodeHasFile, RootFacts
    <3>2. Homes(d) # {}
      <4>1. d # Root(f)
        BY <2>1, <3>1 DEF Opening, Leaf
      <4>2. PICK a \in Kids(Root(f)) : d \in Subtree(a)
        BY <1>1, <3>1, <4>1, BelowIsBelowKid
      <4>3. a \in Node /\ Kind(a) = "module"
        BY <1>1, <3>1, <4>2, RootInside, KidFacts
      <4>4. a # d
        BY <2>1, <4>3 DEF Opening, Leaf
      <4> QED
        BY <1>1, <4>2, <4>3, <4>4, AncestorFacts DEF Homes, HomeKinds
    <3>3. PICK h \in Node : h = Greatest(Homes(d)) /\ h \in Homes(d) /\ Kind(h) = "module" /\ NameOf(h) = Of(n)
      BY <1>1, <2>1, <3>2, GreatestHome
    <3>4. h \in Subtree(Root(f)) /\ d \in Subtree(h) /\ d # h
      BY <1>1, <3>1, <3>3, HomeFacts, FileOfAbove
    <3>5. PICK k \in Kids(h) : d \in Subtree(k)
      BY <1>1, <3>3, <3>4, BelowIsBelowKid
    <3>6. PICK a \in Kids(Root(f)) : h \in Subtree(a)
      <4>1. h # Root(f)
        BY <3>1, <3>3
      <4> QED
        BY <1>1, <3>1, <3>4, <4>1, BelowIsBelowKid
    <3>7. a \in Node /\ Kind(a) = "module"
      BY <1>1, <3>1, <3>6, RootInside, KidFacts
    <3>8. h = a
      <4> SUFFICES ASSUME h # a PROVE FALSE
        OBVIOUS
      <4>1. a \in Homes(h)
        BY <1>1, <3>3, <3>6, <3>7, AncestorFacts DEF Homes, HomeKinds
      <4> QED
        BY <1>1, <3>3, <3>5, <4>1, ModuleAround
    <3> QED
      BY <2>2, <3>1, <3>3, <3>6, <3>8 DEF Providers, Declares
  <2>4. FileOf(d) \in compiled
    BY <1>1, <1>3, <1>13, <2>2, <2>3, ImportLoaded
  <2>5. PICK s : /\ s = modules[Of(n)] /\ s \in DOMAIN scopes
                 /\ symbols[scopes[s].table[NameOf(n)]].node = d /\ scopes[s].table[NameOf(n)] # 0
    BY <1>1, <2>1, <2>4, ExportIsEntered
  <2>6. Lookup(s, NameOf(n)) = scopes[s].table[NameOf(n)]
    BY <1>1, <1>10, <2>5, LookupFacts
  <2>7. Meaning(n) = Lookup(s, NameOf(n))
    BY <1>10, <1>13, <2>5 DEF Meaning
  <2>8. d # 0
    BY <1>1, <2>1, TreeFacts
  <2> QED
    BY <2>5, <2>6, <2>7, <2>8
<1>14. Of(n) = Unqualified /\ Meaning(n) = 0 => Elsewhere(n)'
  BY <1>3, <1>11, <1>12 DEF Elsewhere
<1>15. Exported(n)' => Exported(n)
  <2>1. Grows
    BY <1>3, NothingGrows
  <2> QED
    BY <2>1, ExportedBefore
<1> QED
  BY <1>3, <1>5, <1>11, <1>13, <1>14, <1>15 DEF Served
-----------------------------------------------------------------------------
(* A step is that of the pipeline, leaves the calls as they are, or moves  *)
(* the call on top.                                                        *)
ResolverStep == ResolveEntered \/ ResolveUse \/ ResolveImport \/ ResolveOther \/ ResolveReturn
MovesTop ==
  \E k \in Nat : \/ stack' = At(k)
                 \/ stack' = Below
                 \/ \E c \in Frame : stack' = Append(At(k), c) /\ (c.op = "compile" => c.at = 0)
LEMMA StepShape ==
  ASSUME Control, [Next]_vars
  PROVE  \/ Compile
         \/ UNCHANGED <<tree, stack, compiled>>
         \/ /\ stack # << >> /\ Top.op # "compile" /\ compiled' = compiled /\ tree' = tree
            /\ Top.op = "resolve" => ResolverStep
            /\ MovesTop
<1>0. 0 \in Nat /\ InTree
  BY DEF Control
<1>1. CASE CollectOpening \/ CollectLeaf \/ CollectRedeclared \/ CollectImpl \/ CollectModule \/ CollectInit \/ CollectOther
  <2>1. /\ Collecting /\ compiled' = compiled /\ tree' = tree
        /\ stack' = At(Collectee) \/ stack' = Enter("collect", Collectee)
    BY <1>1 DEF CollectOpening, CollectLeaf, CollectRedeclared, CollectImpl, CollectModule, CollectInit, CollectOther
  <2>2. /\ stack # << >> /\ Top.op = "collect" /\ Collectee \in Nat /\ Top.unit \in File
    BY <1>0, <2>1, CollecteeFacts, TopFacts, TreeFacts
  <2>3. PICK c \in Frame : c = Call("collect", Top.unit, Collectee) /\ c.op # "compile"
    BY <2>2, CallIsFrame
  <2>4. stack' = At(Collectee) \/ stack' = Append(At(Collectee), c)
    BY <2>1, <2>3 DEF Enter
  <2> QED
    BY <2>1, <2>2, <2>3, <2>4 DEF MovesTop
<1>2. CASE ResolveEntered \/ ResolveUse \/ ResolveImport \/ ResolveOther
  <2>1. /\ Resolving /\ compiled' = compiled /\ tree' = tree
        /\ stack' = At(Resolvee) \/ stack' = Enter("resolve", Resolvee) \/ stack' = Enter("load", Resolvee)
    BY <1>2 DEF ResolveEntered, ResolveUse, ResolveImport, ResolveOther
  <2>2. /\ stack # << >> /\ Top.op = "resolve" /\ Resolvee \in Nat /\ Top.unit \in File
    BY <1>0, <2>1, ResolveeFacts, TopFacts, TreeFacts
  <2>3. PICK c \in Frame : c = Call("resolve", Top.unit, Resolvee) /\ c.op # "compile"
    BY <2>2, CallIsFrame
  <2>4. PICK d \in Frame : d = Call("load", Top.unit, Resolvee) /\ d.op # "compile"
    BY <2>2, CallIsFrame
  <2>5. stack' = At(Resolvee) \/ stack' = Append(At(Resolvee), c) \/ stack' = Append(At(Resolvee), d)
    BY <2>1, <2>3, <2>4 DEF Enter
  <2>6. MovesTop
    BY <2>2, <2>3, <2>4, <2>5 DEF MovesTop
  <2> QED
    BY <1>2, <2>1, <2>2, <2>6 DEF ResolverStep
<1>3. CASE CollectReturn \/ LoadReturn \/ ResolveReturn
  <2>1. /\ stack # << >> /\ Top.op # "compile" /\ compiled' = compiled /\ tree' = tree /\ stack' = Below
        /\ Top.op = "resolve" => ResolveReturn
    BY <1>3 DEF CollectReturn, LoadReturn, ResolveReturn, In
  <2> QED
    BY <1>0, <2>1 DEF MovesTop, ResolverStep
<1>4. CASE LoadCompiled
  <2>1. stack # << >> /\ Top.op = "load" /\ NextListed \in Nat
    BY <1>4, ProviderFacts DEF LoadCompiled
  <2> QED
    BY <1>4, <2>1 DEF LoadCompiled, MovesTop
<1>5. CASE LoadProvider
  <2>1. stack # << >> /\ Top.op = "load" /\ NextListed \in Nat /\ Provider \in File
    BY <1>5, ProviderFacts DEF LoadProvider
  <2>2. Root(Provider) \in Nat
    BY <1>0, <2>1, RootFacts, TreeFacts
  <2>3. PICK c \in Frame : c = Call("compile", Provider, Root(Provider)) /\ c.at = 0
    BY <2>1, <2>2, CallIsFrame
  <2> QED
    BY <1>5, <2>1, <2>3 DEF LoadProvider, MovesTop
<1>6. CASE LoadCyclic \/ UNCHANGED vars
  BY <1>6 DEF LoadCyclic, vars, tables
<1> QED
  BY <1>1, <1>2, <1>3, <1>4, <1>5, <1>6 DEF Next, Step, Ended

(* While another call is on top, the resolvers under it wait.              *)
LEMMA ResolversWait ==
  ASSUME Control, [Next]_vars, ~ResolverStep
  PROVE  \A n : Upcoming(n) => Upcoming(n)'
<1>1. CASE Compile
  <2>1. PICK N \in Nat : N = Len(stack)
    BY StackFacts
  <2>2. /\ Depth = 1 .. N /\ N \in Depth /\ stack[N].op = "compile"
    BY <1>1, <2>1, CompileMoves, TopFacts DEF Depth
  <2>3. /\ tree' = tree /\ \A i \in 1 .. N - 1 : i \in Depth' /\ stack'[i] = stack[i]
    BY <1>1, <2>1, <2>2, CompileMoves, StackFacts DEF FrameOK
  <2>4. \A i \in Depth : stack[i].op = "resolve" => i \in 1 .. N - 1
    BY <2>2
  <2> QED
    BY <2>3, <2>4, UpcomingKept
<1>2. CASE UNCHANGED <<tree, stack, compiled>>
  BY <1>2, UpcomingKept DEF Depth
<1>3. CASE /\ stack # << >> /\ Top.op # "compile" /\ compiled' = compiled /\ tree' = tree
           /\ Top.op = "resolve" => ResolverStep
           /\ MovesTop
  <2>a. /\ stack # << >> /\ tree' = tree /\ Top.op # "resolve" /\ MovesTop
    BY <1>3
  <2>1. PICK N \in Nat : N = Len(stack)
    BY StackFacts
  <2>2. Depth = 1 .. N /\ N \in Depth /\ stack[N].op # "resolve"
    BY <2>a, <2>1, TopFacts DEF Depth
  <2>3. \A i \in 1 .. N - 1 : i \in Depth' /\ stack'[i] = stack[i]
    <3>1. PICK k \in Nat : \/ stack' = At(k)
                           \/ stack' = Below
                           \/ \E c \in Frame : stack' = Append(At(k), c) /\ (c.op = "compile" => c.at = 0)
      BY <2>a DEF MovesTop
    <3>2. CASE stack' = At(k)
      BY <2>a, <2>1, <3>1, <3>2, AtStack DEF Depth
    <3>3. CASE stack' = Below
      BY <2>a, <2>1, <3>3, BelowStack DEF Depth
    <3>4. CASE \E c \in Frame : stack' = Append(At(k), c)
      <4>1. PICK c \in Frame : stack' = Append(At(k), c)
        BY <3>4
      <4>2. /\ Len(Append(At(k), c)) = N + 1
            /\ \A i \in 1 .. N - 1 : Append(At(k), c)[i] = stack[i]
        BY <2>a, <2>1, EnterStack
      <4> QED
        BY <2>1, <4>1, <4>2 DEF Depth
    <3> QED
      BY <3>1, <3>2, <3>3, <3>4
  <2>4. \A i \in Depth : stack[i].op = "resolve" => i \in 1 .. N - 1
    BY <2>2
  <2> QED
    BY <2>a, <2>3, <2>4, UpcomingKept
<1> QED
  BY <1>1, <1>2, <1>3, StepShape

(* The name before a resolver stays before it until it is bound or left.   *)
LEMMA UpcomingStep ==
  ASSUME Linking, WalksOK, Homed, [Next]_vars, NEW n \in Node, Kind(n) \in Use, Visited(n), Upcoming(n)
  PROVE  Served(n)' \/ Upcoming(n)'
<1>0. Control
  BY DEF Linking
<1>1. CASE ~ResolverStep
  BY <1>0, <1>1, ResolversWait
<1>2. CASE ResolveReturn
  BY <1>0, <1>2, UpcomingReturns DEF ResolveReturn
<1>3. CASE ResolveEntered \/ ResolveOther \/ ResolveImport
  <2>1. Resolving /\ tree' = tree
    BY <1>3 DEF ResolveEntered, ResolveOther, ResolveImport
  <2>2. n # Resolvee
    BY <1>3 DEF ResolveEntered, ResolveOther, ResolveImport, Entered, Use
  <2>3. \/ stack' = Enter("resolve", Resolvee)
        \/ (stack' = At(Resolvee) \/ stack' = Enter("load", Resolvee)) /\ Resolved(Resolvee) = {}
    <3>1. Kind(Resolvee) = "import" => Resolved(Resolvee) = {}
      BY DEF Resolved, Skipped, NeedsSymbol
    <3> QED
      BY <1>3, <3>1 DEF ResolveEntered, ResolveOther, ResolveImport
  <2> QED
    BY <1>0, <2>1, <2>2, <2>3, UpcomingMoves
<1>4. CASE ResolveUse
  <2>1. Resolving /\ tree' = tree /\ Kind(Resolvee) \in Use
    BY <1>4 DEF ResolveUse
  <2>2. CASE n = Resolvee
    BY <1>4, <2>2, ServedHere
  <2>3. \/ stack' = Enter("resolve", Resolvee)
        \/ stack' = At(Resolvee) /\ Resolved(Resolvee) = {}
    <3>1. Kind(Resolvee) # "generic type" => Resolved(Resolvee) = {}
      BY <2>1 DEF Resolved, Skipped, NeedsSymbol, Use
    <3> QED
      BY <1>4, <3>1 DEF ResolveUse
  <2> QED
    BY <1>0, <2>1, <2>2, <2>3, UpcomingMoves
<1> QED
  BY <1>1, <1>2, <1>3, <1>4 DEF ResolverStep

(* The resolver of a file has all of it before it at the start.            *)
LEMMA ResolverStarts ==
  ASSUME Control, [Next]_vars, NEW f \in File, NEW n \in Subtree(Root(f)), Kind(n) \in Use,
         ~Reaches(f, 2), Reaches(f, 2)'
  PROVE  Upcoming(n)'
<1>1. Compile
  <2>1. CASE UNCHANGED <<tree, stack, compiled>>
    BY <2>1 DEF Reaches, Depth
  <2>2. CASE /\ stack # << >> /\ Top.op # "compile" /\ compiled' = compiled /\ MovesTop
    BY <2>2, ReachesStays DEF MovesTop
  <2> QED
    BY <2>1, <2>2, StepShape
<1>2. f = Top.unit /\ Top.at = 1
  <2>1. Reaches(f, 2)' <=> Reaches(f, 2) \/ (f = Top.unit /\ 2 = Top.at + 1)
    BY <1>1, CompileReaches
  <2>2. Top.at \in {0, 1, 2}
    BY <1>1, CompileMoves
  <2> QED
    BY <2>1, <2>2
<1>3. PICK N \in Nat : N = Len(stack)
  BY StackFacts
<1>4. /\ N + 1 \in Depth' /\ stack'[N + 1].op = "resolve"
      /\ stack'[N + 1].node = Root(f) /\ stack'[N + 1].at = 0
  BY <1>1, <1>2, <1>3, CompileMoves
<1>5. /\ InTree /\ Root(f) \in Node /\ n # Root(f)
      /\ \A m : Kids(m)' = Kids(m) /\ Subtree(m)' = Subtree(m)
  <2>1. tree' = tree
    BY <1>1 DEF Compile
  <2> QED
    BY <2>1, RootFacts, TreeStays DEF Control, Use
<1>6. PICK k \in Kids(Root(f)) : n \in Subtree(k)
  BY <1>5, BelowIsBelowKid
<1>7. k > 0
  BY <1>5, <1>6, KidFacts, TreeFacts
<1> QED
  BY <1>4, <1>5, <1>6, <1>7 DEF Upcoming
LEMMA PassedStep ==
  ASSUME Inductive, Linking, Homed, Passed, [Next]_vars
  PROVE  Passed'
<1>1. Control /\ WalksOK
  BY InductiveParts
<1>2. /\ tree' = tree
      /\ \A m : Kind(m)' = Kind(m) /\ Subtree(m)' = Subtree(m)
      /\ \A f : Root(f)' = Root(f)
  <2>1. tree' = tree
    BY <1>1, StepGrows DEF Grows
  <2> QED
    BY <2>1, TreeStays
<1> SUFFICES ASSUME NEW f \in File, Reaches(f, 2)', NEW n \in Subtree(Root(f)), Kind(n) \in Use, Visited(n)'
             PROVE  Served(n)' \/ Upcoming(n)'
  BY <1>2 DEF Passed
<1>3. n \in Node
  BY <1>1, FileTypes
<1>4. CASE ~Reaches(f, 2)
  BY <1>1, <1>4, ResolverStarts
<1>5. CASE Reaches(f, 2) /\ ~Visited(n)
  BY <1>1, <1>5, NewlyVisited
<1>6. CASE Reaches(f, 2) /\ Visited(n)
  <2>1. CASE Served(n)
    BY <1>6, <2>1, ServedStays
  <2>2. CASE Upcoming(n)
    BY <1>1, <1>3, <1>6, <2>2, UpcomingStep
  <2> QED
    BY <1>6, <2>1, <2>2 DEF Passed
<1> QED
  BY <1>4, <1>5, <1>6

LEMMA PassedInit ==
  ASSUME Init
  PROVE  Passed /\ Homed
<1>1. \A i \in Depth : stack[i].at = 0
  BY DEF Init, Depth
<1>2. \A f : ~Reaches(f, 2)
  <2>1. compiled = {} /\ \A i \in Depth : ~(stack[i].at >= 2)
    BY <1>1 DEF Init
  <2> QED
    BY <2>1 DEF Reaches
<1> QED
  BY <1>2 DEF Init, Passed, Homed, Node

LEMMA ServedHolds == Spec => [](Inductive /\ Linking /\ Passed /\ Homed)
<1>1. Inductive /\ Linking /\ Passed /\ Homed /\ [Next]_vars => (Passed /\ Homed)'
  BY PassedStep, HomedStep, InductiveParts
<1> QED
  BY <1>1, PassedInit, InvariantHolds, LinkingHolds, PTL DEF Spec
-----------------------------------------------------------------------------
(* A file that is through has nothing before a resolver.                   *)
LEMMA NothingUpcoming ==
  ASSUME Control, NEW f \in File, f \in compiled, NEW n \in Subtree(Root(f))
  PROVE  ~Upcoming(n)
<1> SUFFICES ASSUME Upcoming(n) PROVE FALSE
  OBVIOUS
<1>1. PICK i \in Depth : /\ stack[i].op = "resolve"
                         /\ \E k \in Kids(stack[i].node) : k > stack[i].at /\ n \in Subtree(k)
  BY DEF Upcoming
<1>2. PICK k \in Kids(stack[i].node) : n \in Subtree(k)
  BY <1>1
<1>3. /\ stack[i].unit \in File /\ stack[i].node \in Node /\ stack[i].node \in Subtree(Root(stack[i].unit))
      /\ stack[i].unit \notin compiled /\ InTree /\ Root(stack[i].unit) \in Node
  BY StackFacts, StageOfCall, RootFacts DEF FrameOK, Control
<1>4. k \in Subtree(stack[i].node) /\ k \in Node
  BY <1>2, <1>3, KidFacts
<1>5. n \in Subtree(Root(stack[i].unit))
  BY <1>2, <1>3, <1>4, SubtreeFacts
<1> QED
  BY <1>3, <1>5, FilesApart

LEMMA LeftServed ==
  ASSUME Control, Passed, NEW n \in Node, Kind(n) \in Use, FileOf(n) \in compiled, Visited(n)
  PROVE  Served(n)
<1>1. InTree
  BY DEF Control
<1>2. PICK f \in File : f = FileOf(n) /\ n \in Subtree(Root(f))
  BY <1>1, EachNodeHasFile
<1>3. Reaches(f, 2) /\ ~Upcoming(n)
  BY <1>2, NothingUpcoming DEF Reaches
<1> QED
  BY <1>2, <1>3 DEF Passed

(* A candidate for a name without module is a symbol of a scope around it. *)
LEMMA CandidatesAround ==
  ASSUME Control, Tables, NEW n \in Node, Of(n) = Unqualified,
         \A h \in Homes(n) : scopeOf[h] # 0, NEW i \in Candidates(n)
  PROVE  /\ i \in DOMAIN symbols /\ symbols[i].name = NameOf(n)
         /\ ScopeOfSymbol(i) \in {1} \cup {scopeOf[h] : h \in Homes(n)}
<1> DEFINE declaring == {h \in Homes(n) : Within(Canon(h), NameOf(n)) # {}}
<1>1. Unqualified # Builtin /\ InTree
  BY NamesAssumption DEF Control
<1>2. i \in IF declaring # {} THEN Within(Canon(Greatest(declaring)), NameOf(n)) ELSE Within(0, NameOf(n))
  BY <1>1 DEF Candidates, Around
<1>3. \A h \in Homes(n) : h \in Node /\ h <= n /\ Kind(h) \in HomeKinds /\ scopeOf[h] # 0
  BY <1>1, HomeFacts
<1>4. CASE declaring # {}
  <2>1. n \in Nat /\ declaring \in SUBSET (0 .. n)
    BY <1>1, HomeFacts
  <2>2. PICK h \in declaring : h = Greatest(declaring)
    BY <1>4, <2>1, GreatestMember
  <2>3. i \in DOMAIN symbols /\ symbols[i].name = NameOf(n) /\ HomeOfSymbol(i) = Canon(h)
    BY <1>2, <1>4, <2>2 DEF Within
  <2>4. ScopeOfSymbol(i) = scopeOf[h]
    BY <1>3, <2>2, <2>3, SymbolHome
  <2> QED
    BY <2>2, <2>3, <2>4
<1>5. CASE declaring = {}
  <2>1. i \in DOMAIN symbols /\ symbols[i].name = NameOf(n) /\ HomeOfSymbol(i) = 0
    BY <1>2, <1>5 DEF Within
  <2>2. ScopeOfSymbol(i) = 1
    BY <2>1, SymbolHome
  <2> QED
    BY <2>1, <2>2
<1> QED
  BY <1>4, <1>5

LEMMA NamesServed ==
  ASSUME Inductive, Passed, Homed
  PROVE  NothingMissed /\ ImportedNamesResolve
<1>1. Control /\ Tables /\ Settled
  BY InductiveParts DEF WalksOK
<1>2. NothingMissed
  <2> SUFFICES ASSUME NEW n \in Node, Kind(n) \in Use, Of(n) = Unqualified, symbolOf[n] = 0,
                      FileOf(n) \in compiled, Visited(n), NEW i \in Candidates(n)
               PROVE  symbols[i].node # 0 /\ FileOf(symbols[i].node) # FileOf(n)
    BY DEF NothingMissed
  <2>1. Elsewhere(n)
    BY <1>1, LeftServed DEF Served
  <2>2. PICK f \in File : f = FileOf(n) /\ n \in Subtree(Root(f))
    BY <1>1, EachNodeHasFile DEF Control
  <2>3. \A h \in Homes(n) : scopeOf[h] # 0
    BY <1>1, <2>2, HomesScoped DEF Reaches
  <2>4. /\ i \in DOMAIN symbols /\ symbols[i].name = NameOf(n)
        /\ ScopeOfSymbol(i) \in {1} \cup {scopeOf[h] : h \in Homes(n)}
    BY <1>1, <2>3, CandidatesAround
  <2> QED
    BY <2>1, <2>4 DEF Elsewhere
<1>3. ImportedNamesResolve
  BY <1>1, LeftServed DEF ImportedNamesResolve, Served
<1> QED
  BY <1>2, <1>3

(* Whatever the files and in whatever order they are compiled: a name that *)
(* the resolver leaves unbound has no declaration around it in its own     *)
(* file, before it or after it, and is not a builtin's (NothingMissed).    *)
THEOREM NamesAreNotMissed == Spec => []NothingMissed
<1>1. Inductive /\ Linking /\ Passed /\ Homed => NothingMissed
  BY NamesServed
<1> QED
  BY <1>1, ServedHolds, PTL

(* After its import a name of a module is bound, whichever of the module's *)
(* files declares it (ImportedNamesResolve): the load returns only when    *)
(* all of them are compiled, and what they declare stays in the tables.    *)
THEOREM ImportedNamesAreFound == Spec => []ImportedNamesResolve
<1>1. Inductive /\ Linking /\ Passed /\ Homed => ImportedNamesResolve
  BY NamesServed
<1> QED
  BY <1>1, ServedHolds, PTL
=============================================================================
