--------------------------- MODULE NamesCallsProofs ----------------------------
(***************************************************************************)
(* Lemmas about the trees of Names (which node is above which, what homes  *)
(* a node has, what its children are), and the calls in progress: the part *)
(* of the invariant that speaks of them alone, for any files and programs. *)
(***************************************************************************)
EXTENDS NamesInvariant, FiniteSetTheorems, SequenceTheorems, WellFoundedInduction, TLAPS

(* The trees: what follows for every program that ProgramsAssumption       *)
(* allows.  No state but the tree is in these lemmas.                      *)
InTree == tree \in Elements(Programs)

LEMMA TreeFacts ==
  ASSUME InTree
  PROVE  /\ tree \in Seq(TreeNode) /\ IsForest(tree) /\ IsParsed(tree)
         /\ Len(tree) \in Nat /\ Node = 1 .. Len(tree)
         /\ \A n \in Node : tree[n] \in TreeNode /\ tree[n].depth \in Nat
<1>1. PICK p \in DOMAIN Programs : tree = Programs[p]
  BY DEF InTree, Elements
<1>2. tree \in Seq(TreeNode) /\ IsForest(tree) /\ IsParsed(tree)
  <2>1. Programs \in Seq(Seq(TreeNode))
    BY ProgramsAssumption
  <2>2. Programs[p] \in Seq(TreeNode)
    BY <2>1, ElementOfSeq, LenProperties
  <2> QED
    BY <1>1, <2>2, ProgramsAssumption
<1>3. Len(tree) \in Nat /\ DOMAIN tree = 1 .. Len(tree)
  BY <1>2, LenProperties
<1>4. \A n \in DOMAIN tree : tree[n] \in TreeNode
  BY <1>2, <1>3, ElementOfSeq
<1> QED
  BY <1>2, <1>3, <1>4 DEF Node, TreeNode

(* Above is an order, and the nodes above one node are a chain.            *)
LEMMA AboveType ==
  ASSUME InTree, NEW n \in Node, NEW m \in Nat \ {0}, IsAbove(m, n)
  PROVE  m \in Node /\ m < n
<1>1. n \in 1 .. Len(tree) /\ Len(tree) \in Nat /\ Node = 1 .. Len(tree)
  BY TreeFacts
<1> QED
  BY <1>1 DEF IsAbove

LEMMA AboveTransitive ==
  ASSUME InTree, NEW a \in Node, NEW b \in Node, NEW c \in Node, IsAbove(a, b), IsAbove(b, c)
  PROVE  IsAbove(a, c)
<1>1. /\ Len(tree) \in Nat /\ Node = 1 .. Len(tree)
      /\ \A n \in Node : tree[n].depth \in Nat
  BY TreeFacts
<1>2. a < b /\ b < c /\ tree[b].depth > tree[a].depth
  BY <1>1 DEF IsAbove
<1>3. ASSUME NEW k \in a + 1 .. c PROVE tree[k].depth > tree[a].depth
  <2>1. k \in Node
    BY <1>1, <1>2
  <2>2. CASE k <= b
    BY <1>1, <1>2, <2>2 DEF IsAbove
  <2>3. CASE k > b
    <3>1. tree[k].depth > tree[b].depth
      BY <1>1, <1>2, <2>3 DEF IsAbove
    <3> QED
      BY <1>1, <1>2, <2>1, <3>1
  <2> QED
    BY <1>1, <2>1, <2>2, <2>3
<1> QED
  BY <1>1, <1>2, <1>3 DEF IsAbove

LEMMA AboveChain ==
  ASSUME InTree, NEW a \in Node, NEW b \in Node, NEW c \in Node, IsAbove(a, c), IsAbove(b, c), a < b
  PROVE  IsAbove(a, b)
<1>1. Len(tree) \in Nat /\ Node = 1 .. Len(tree)
  BY TreeFacts
<1> QED
  BY <1>1 DEF IsAbove

LEMMA DeeperBelow ==
  ASSUME InTree, NEW a \in Node, NEW b \in Node, IsAbove(a, b)
  PROVE  tree[a].depth < tree[b].depth
<1>1. /\ Len(tree) \in Nat /\ Node = 1 .. Len(tree)
      /\ \A n \in Node : tree[n].depth \in Nat
  BY TreeFacts
<1> QED
  BY <1>1 DEF IsAbove

(* Subtrees: one lies in the other or they are apart.                      *)
LEMMA SubtreeFacts ==
  ASSUME InTree, NEW a \in Node
  PROVE  /\ a \in Subtree(a) /\ Subtree(a) \subseteq Node
         /\ \A b \in Subtree(a) : b >= a /\ (b # a => IsAbove(a, b))
         /\ \A b \in Subtree(a) : Subtree(b) \subseteq Subtree(a)
<1>1. Len(tree) \in Nat /\ Node = 1 .. Len(tree)
  BY TreeFacts
<1>2. a \in Subtree(a) /\ Subtree(a) \subseteq Node
  BY DEF Subtree
<1>3. ASSUME NEW b \in Subtree(a) PROVE b >= a /\ (b # a => IsAbove(a, b))
  BY <1>1 DEF Subtree, IsAbove
<1>4. ASSUME NEW b \in Subtree(a), NEW c \in Subtree(b) PROVE c \in Subtree(a)
  <2>1. a \in Node /\ b \in Node /\ c \in Node
    BY DEF Subtree
  <2> QED
    BY <2>1, AboveTransitive DEF Subtree
<1> QED
  BY <1>2, <1>3, <1>4

LEMMA SubtreesApart ==
  ASSUME InTree, NEW a \in Node, NEW b \in Node, NEW c, c \in Subtree(a), c \in Subtree(b)
  PROVE  a \in Subtree(b) \/ b \in Subtree(a)
<1>1. c \in Node
  BY DEF Subtree
<1>2. Len(tree) \in Nat /\ Node = 1 .. Len(tree)
  BY TreeFacts
<1>3. CASE c = a \/ c = b
  BY <1>3 DEF Subtree
<1>4. CASE c # a /\ c # b
  <2>1. IsAbove(a, c) /\ IsAbove(b, c)
    BY <1>4 DEF Subtree
  <2>2. a < b => IsAbove(a, b)
    BY <1>1, <2>1, AboveChain
  <2>3. b < a => IsAbove(b, a)
    BY <1>1, <2>1, AboveChain
  <2> QED
    BY <1>2, <2>2, <2>3 DEF Subtree
<1> QED
  BY <1>3, <1>4
-----------------------------------------------------------------------------
(* Least and greatest members.                                             *)
Smaller == {p \in Nat \X Nat : p[1] < p[2]}

LEMMA LeastMember ==
  ASSUME NEW T \in SUBSET Nat, T # {}
  PROVE  Least(T) \in T /\ \A k \in T : Least(T) <= k
<1>1. IsWellFoundedOn(Smaller, Nat)
  BY NatLessThanWellFounded DEF Smaller, OpToRel
<1>2. PICK n \in T : \A k \in T : ~(<<k, n>> \in Smaller)
  BY <1>1, WFMin
<1>3. \A k \in T : n <= k
  <2> TAKE k \in T
  <2>1. k \in Nat /\ n \in Nat
    OBVIOUS
  <2>2. ~(k < n)
    BY <1>2, <2>1 DEF Smaller
  <2> QED
    BY <2>1, <2>2
<1> QED
  BY <1>3 DEF Least

LEMMA GreatestMember ==
  ASSUME NEW N \in Nat, NEW T \in SUBSET (0 .. N), T # {}
  PROVE  Greatest(T) \in T /\ \A k \in T : k <= Greatest(T)
<1> DEFINE U == {k \in Nat : \A t \in T : t <= k}
<1>1. U \in SUBSET Nat /\ N \in U
  OBVIOUS
<1>2. PICK b \in U : \A k \in U : b <= k
  BY <1>1, LeastMember
<1>3. b \in T
  <2> SUFFICES ASSUME b \notin T PROVE FALSE
    OBVIOUS
  <2>1. \A t \in T : t < b
    BY <1>2
  <2>2. b > 0
    <3>1. PICK t \in T : TRUE
      OBVIOUS
    <3>2. t < b /\ t \in Nat /\ b \in Nat
      BY <2>1
    <3> QED
      BY <3>2
  <2>3. b - 1 \in U
    BY <2>1, <2>2
  <2> QED
    BY <1>2, <2>2, <2>3
<1> QED
  BY <1>2, <1>3 DEF Greatest
-----------------------------------------------------------------------------
(* A child is just below its parent: what is above it is the parent, or    *)
(* above that, and the subtrees of two children are apart.                 *)
LEMMA KidFacts ==
  ASSUME InTree, NEW n \in Node, NEW k \in Kids(n)
  PROVE  /\ k \in Node /\ k > n /\ IsAbove(n, k) /\ k \in Subtree(n)
         /\ tree[k].depth = tree[n].depth + 1
         /\ Kind(k) # "root"
<1>1. Len(tree) \in Nat /\ Node = 1 .. Len(tree) /\ \A m \in Node : tree[m].depth \in Nat
  BY TreeFacts
<1>2. k \in Node /\ k > n /\ IsAbove(n, k) /\ tree[k].depth = tree[n].depth + 1
  BY <1>1 DEF Kids
<1>3. Kind(k) # "root"
  BY <1>1, <1>2, TreeFacts DEF IsForest, Kind, Node
<1> QED
  BY <1>2, <1>3 DEF Subtree

LEMMA AboveKid ==
  ASSUME InTree, NEW n \in Node, NEW k \in Kids(n), NEW a \in Node
  PROVE  IsAbove(a, k) <=> a = n \/ IsAbove(a, n)
<1>1. Len(tree) \in Nat /\ Node = 1 .. Len(tree) /\ \A m \in Node : tree[m].depth \in Nat
  BY TreeFacts
<1>2. k \in Node /\ IsAbove(n, k) /\ tree[k].depth = tree[n].depth + 1
  BY KidFacts
<1>3. a = n \/ IsAbove(a, n) => IsAbove(a, k)
  BY <1>2, AboveTransitive
<1>4. ASSUME IsAbove(a, k), a < n PROVE IsAbove(a, n)
  BY <1>2, <1>4, AboveChain
<1>5. ASSUME IsAbove(a, k), n < a PROVE FALSE
  <2>1. IsAbove(n, a)
    BY <1>2, <1>5, AboveChain
  <2>2. tree[n].depth < tree[a].depth /\ tree[a].depth < tree[k].depth
    BY <1>2, <1>5, <2>1, DeeperBelow
  <2> QED
    BY <1>1, <1>2, <2>2
<1> QED
  BY <1>1, <1>3, <1>4, <1>5

LEMMA AncestorsOfKid ==
  ASSUME InTree, NEW n \in Node, NEW k \in Kids(n)
  PROVE  Ancestors(k) = Ancestors(n) \cup {n}
<1>1. Len(tree) \in Nat /\ Node = 1 .. Len(tree)
  BY TreeFacts
<1>2. k \in Node /\ k > n
  BY KidFacts
<1>3. \A m \in Node : Ancestors(m) = {a \in Node : IsAbove(a, m)}
  BY <1>1 DEF Ancestors, IsAbove
<1> QED
  BY <1>2, <1>3, AboveKid

LEMMA AncestorFacts ==
  ASSUME InTree, NEW n \in Node
  PROVE  /\ Ancestors(n) = {a \in Node : IsAbove(a, n)}
         /\ \A a \in Ancestors(n) : a \in 1 .. n - 1
         /\ \A a \in Node : n \in Subtree(a) <=> a \in Ancestors(n) \cup {n}
<1>1. Len(tree) \in Nat /\ Node = 1 .. Len(tree)
  BY TreeFacts
<1>2. Ancestors(n) = {a \in Node : IsAbove(a, n)}
  BY <1>1 DEF Ancestors, IsAbove
<1> QED
  BY <1>1, <1>2 DEF Ancestors, Subtree

LEMMA KidsApart ==
  ASSUME InTree, NEW n \in Node, NEW k \in Kids(n), NEW l \in Kids(n), k # l
  PROVE  /\ l \notin Subtree(k)
         /\ Subtree(k) \cap Subtree(l) = {}
<1>1. /\ k \in Node /\ l \in Node
      /\ tree[k].depth = tree[n].depth + 1 /\ tree[l].depth = tree[n].depth + 1
  BY KidFacts
<1>2. \A m \in Node : tree[m].depth \in Nat
  BY TreeFacts
<1>3. ~IsAbove(k, l) /\ ~IsAbove(l, k)
  BY <1>1, <1>2, DeeperBelow
<1>4. l \notin Subtree(k) /\ k \notin Subtree(l)
  BY <1>3 DEF Subtree
<1> QED
  BY <1>1, <1>4, SubtreesApart

(* The parent itself is below none of its children.                        *)
LEMMA ParentOutside ==
  ASSUME InTree, NEW n \in Node, NEW k \in Kids(n)
  PROVE  n \notin Subtree(k)
<1>1. Len(tree) \in Nat /\ Node = 1 .. Len(tree)
  BY TreeFacts
<1> QED
  BY <1>1, KidFacts, SubtreeFacts

(* What lies below a node lies below one of its children or is the node.   *)
LEMMA BelowIsBelowKid ==
  ASSUME InTree, NEW n \in Node, NEW m \in Subtree(n), m # n
  PROVE  \E k \in Kids(n) : m \in Subtree(k)
<1>1. Len(tree) \in Nat /\ Node = 1 .. Len(tree) /\ \A l \in Node : tree[l].depth \in Nat
  BY TreeFacts
<1>2. m \in Node /\ IsAbove(n, m) /\ m > n
  BY <1>1 DEF Subtree, IsAbove
<1> DEFINE T == {k \in n + 1 .. m : tree[k].depth = tree[n].depth + 1}
<1>3. n + 1 \in Node /\ tree[n + 1].depth = tree[n].depth + 1
  <2>1. n + 1 \in Node /\ n + 1 \in n + 1 .. m
    BY <1>1, <1>2
  <2>2. tree[n + 1].depth > tree[n].depth
    BY <1>2, <2>1 DEF IsAbove
  <2>3. tree[n + 1].depth <= tree[n + 1 - 1].depth + 1
    BY <1>1, <2>1, <2>2, TreeFacts DEF IsForest, Node
  <2>4. n + 1 - 1 = n
    BY <1>1
  <2> QED
    BY <1>1, <2>1, <2>2, <2>3, <2>4
<1>4. T # {} /\ T \in SUBSET (0 .. m) /\ m \in Nat
  <2>1. m \in Nat /\ n \in Nat /\ n + 1 <= m
    BY <1>1, <1>2
  <2>2. n + 1 \in T
    BY <1>3, <2>1
  <2> QED
    BY <2>1, <2>2
<1>5. PICK k \in T : \A l \in T : l <= k
  BY <1>4, GreatestMember
<1>6. k \in Node /\ k > n /\ tree[k].depth = tree[n].depth + 1
  BY <1>1, <1>2, <1>5
<1>7. IsAbove(n, k)
  BY <1>1, <1>2, <1>6 DEF IsAbove
<1>8. k \in Kids(n)
  BY <1>1, <1>6, <1>7 DEF Kids
<1>9. \A l \in k + 1 .. m : tree[l].depth > tree[n].depth /\ tree[l].depth # tree[n].depth + 1
  BY <1>1, <1>2, <1>5, <1>6 DEF IsAbove
<1>10. m = k \/ IsAbove(k, m)
  <2>1. k <= m /\ k \in Nat /\ m \in Nat
    BY <1>1, <1>2, <1>5, <1>6
  <2>2. ASSUME NEW l \in k + 1 .. m PROVE tree[l].depth > tree[k].depth
    <3>1. l \in Node
      BY <1>1, <1>2, <1>6
    <3> QED
      BY <1>1, <1>6, <1>9, <3>1
  <2> QED
    BY <2>1, <2>2 DEF IsAbove
<1> QED
  BY <1>2, <1>8, <1>10 DEF Subtree
-----------------------------------------------------------------------------
(* Each node is in the tree of one file.                                   *)
LEMMA RootFacts ==
  ASSUME InTree, NEW f \in File
  PROVE  /\ Root(f) \in Node /\ Kind(Root(f)) = "root" /\ NameOf(Root(f)) = f
         /\ \A n \in Node : Kind(n) = "root" /\ NameOf(n) = f => n = Root(f)
<1>1. PICK n \in DOMAIN tree : \A m \in DOMAIN tree : tree[m].kind = "root" /\ tree[m].name = f <=> m = n
  BY TreeFacts DEF IsForest
<1>2. \A m \in Node : Kind(m) = "root" /\ NameOf(m) = f <=> m = n
  BY <1>1 DEF Node, Kind, NameOf
<1>3. n \in Node
  BY DEF Node
<1> QED
  BY <1>2, <1>3 DEF Root

LEMMA NothingAboveRoot ==
  ASSUME InTree, NEW n \in Node, Kind(n) = "root"
  PROVE  Ancestors(n) = {}
<1>1. /\ Len(tree) \in Nat /\ Node = 1 .. Len(tree) /\ \A m \in Node : tree[m].depth \in Nat
      /\ tree[n].depth = 0
  BY TreeFacts DEF IsForest, Kind, Node
<1>2. \A a \in Node : ~IsAbove(a, n)
  BY <1>1, DeeperBelow
<1> QED
  BY <1>2, AncestorFacts

LEMMA FilesApart ==
  ASSUME InTree, NEW f \in File, NEW g \in File, NEW n, n \in Subtree(Root(f)), n \in Subtree(Root(g))
  PROVE  f = g
<1>1. /\ Root(f) \in Node /\ Kind(Root(f)) = "root" /\ NameOf(Root(f)) = f
      /\ Root(g) \in Node /\ Kind(Root(g)) = "root" /\ NameOf(Root(g)) = g
  BY RootFacts
<1>2. Root(f) \in Subtree(Root(g)) \/ Root(g) \in Subtree(Root(f))
  BY <1>1, SubtreesApart
<1>3. Root(f) \in Ancestors(Root(g)) \cup {Root(g)} \/ Root(g) \in Ancestors(Root(f)) \cup {Root(f)}
  BY <1>1, <1>2, AncestorFacts
<1> QED
  BY <1>1, <1>3, NothingAboveRoot

LEMMA FileOfNode ==
  ASSUME InTree, NEW f \in File, NEW n \in Subtree(Root(f))
  PROVE  FileOf(n) = f
<1>1. Root(f) \in Node
  BY RootFacts
<1>2. \A g \in File : n \in Subtree(Root(g)) <=> Root(g) = n \/ IsAbove(Root(g), n)
  <2>1. n \in Node
    BY <1>1, SubtreeFacts
  <2> QED
    BY <2>1 DEF Subtree
<1>3. \A g \in File : (Root(g) = n \/ IsAbove(Root(g), n)) <=> g = f
  BY <1>2, FilesApart
<1> QED
  BY <1>3 DEF FileOf

LEMMA EachNodeHasFile ==
  ASSUME InTree, NEW n \in Node
  PROVE  FileOf(n) \in File /\ n \in Subtree(Root(FileOf(n)))
<1>1. /\ Len(tree) \in Nat /\ Node = 1 .. Len(tree) /\ \A m \in Node : tree[m].depth \in Nat
      /\ \A m \in Node : Kind(m) = "root" <=> tree[m].depth = 0
  BY TreeFacts DEF IsForest, Kind, Node
<1> DEFINE T == {m \in 1 .. n : tree[m].depth = 0}
<1>2. n \in Nat /\ 1 <= n
  BY <1>1
<1>3. 1 \in Node /\ tree[1].depth = 0
  BY <1>1, <1>2, TreeFacts DEF IsForest, Node
<1>4. T # {} /\ T \in SUBSET (0 .. n)
  BY <1>2, <1>3
<1>5. PICK r \in T : \A m \in T : m <= r
  BY <1>2, <1>4, GreatestMember
<1>6. r \in Node /\ Kind(r) = "root" /\ r <= n
  BY <1>1, <1>5
<1>7. r = n \/ IsAbove(r, n)
  <2>1. ASSUME NEW k \in r + 1 .. n PROVE tree[k].depth > tree[r].depth
    <3>1. k \in Node /\ k \notin T /\ k \in 1 .. n
      BY <1>1, <1>5, <1>6
    <3>2. tree[k].depth # 0 /\ tree[k].depth \in Nat /\ tree[r].depth = 0
      BY <1>1, <1>5, <3>1
    <3> QED
      BY <3>2
  <2> QED
    BY <1>1, <1>6, <2>1 DEF IsAbove
<1>8. n \in Subtree(r)
  BY <1>7 DEF Subtree
<1>9. NameOf(r) \in File
  BY <1>6, TreeFacts DEF IsParsed, Kind, NameOf, Node
<1>10. r = Root(NameOf(r))
  BY <1>6, <1>9, RootFacts
<1>11. n \in Subtree(Root(NameOf(r)))
  BY <1>8, <1>10
<1>12. FileOf(n) = NameOf(r)
  BY <1>9, <1>11, FileOfNode
<1> QED
  BY <1>9, <1>11, <1>12
-----------------------------------------------------------------------------
(* Homes: those of a child are those inside which its parent's children    *)
(* are, and the homes around a home are the beginning of the same list.    *)
LEMMA HomesOfKid ==
  ASSUME InTree, NEW n \in Node, NEW k \in Kids(n)
  PROVE  Homes(k) = Inside(n)
BY AncestorsOfKid DEF Homes, Inside

LEMMA HomeFacts ==
  ASSUME InTree, NEW n \in Node
  PROVE  /\ Homes(n) \subseteq Inside(n)
         /\ \A h \in Inside(n) : h \in Node /\ h <= n /\ Kind(h) \in HomeKinds /\ n \in Subtree(h)
         /\ \A h \in Homes(n) : h < n
         /\ n \notin Homes(n)
         /\ Inside(n) \in SUBSET (0 .. n)
         /\ n \in Nat
<1>1. Len(tree) \in Nat /\ Node = 1 .. Len(tree)
  BY TreeFacts
<1>2. \A h \in Ancestors(n) : h \in Node /\ h < n /\ n \in Subtree(h)
  BY <1>1, AncestorFacts
<1>3. n \in Subtree(n) /\ n \in Nat
  BY <1>1 DEF Subtree
<1> QED
  BY <1>1, <1>2, <1>3 DEF Homes, Inside

LEMMA InsideFinite ==
  ASSUME InTree, NEW n \in Node
  PROVE  /\ IsFiniteSet(Inside(n)) /\ Cardinality(Inside(n)) \in Nat
         /\ \A S \in SUBSET Inside(n) : IsFiniteSet(S) /\ Cardinality(S) <= Cardinality(Inside(n))
<1>1. n \in Nat /\ Inside(n) \subseteq 0 .. n
  BY HomeFacts
<1>2. IsFiniteSet(0 .. n)
  BY <1>1, FS_Interval
<1>3. IsFiniteSet(Inside(n))
  BY <1>1, <1>2, FS_Subset
<1> QED
  BY <1>3, FS_Subset, FS_CardinalityType

LEMMA InsideOfKid ==
  ASSUME InTree, NEW n \in Node, NEW k \in Kids(n)
  PROVE  /\ Kind(k) \notin HomeKinds => Inside(k) = Inside(n)
         /\ Kind(k) \in HomeKinds =>
              /\ Inside(k) = Inside(n) \cup {k} /\ k \notin Inside(n)
              /\ Cardinality(Inside(k)) = Cardinality(Inside(n)) + 1
<1>1. k \in Node /\ k > n
  BY KidFacts
<1>2. Homes(k) = Inside(n) /\ k \notin Homes(k)
  BY <1>1, HomesOfKid, HomeFacts
<1>3. Kind(k) \notin HomeKinds => Inside(k) = Inside(n)
  BY <1>2 DEF Inside
<1>4. Kind(k) \in HomeKinds => Inside(k) = Inside(n) \cup {k}
  BY <1>2 DEF Inside
<1>5. Cardinality(Inside(n) \cup {k}) = Cardinality(Inside(n)) + 1
  BY <1>2, InsideFinite, FS_AddElement
<1> QED
  BY <1>2, <1>3, <1>4, <1>5

LEMMA InsideOfHome ==
  ASSUME InTree, NEW n \in Node, NEW h \in Inside(n)
  PROVE  /\ h \in Inside(h)
         /\ Inside(h) = {a \in Inside(n) : a <= h}
         /\ Cardinality(Inside(h)) \in 1 .. Cardinality(Inside(n))
<1>1. Len(tree) \in Nat /\ Node = 1 .. Len(tree)
  BY TreeFacts
<1>2. h \in Node /\ h <= n /\ Kind(h) \in HomeKinds /\ n \in Subtree(h)
  BY HomeFacts
<1>3. \A m \in Node : Inside(m) = {a \in Node : Kind(a) \in HomeKinds /\ m \in Subtree(a)}
  <2> TAKE m \in Node
  <2>1. \A a \in Node : m \in Subtree(a) <=> a \in Ancestors(m) \cup {m}
    BY AncestorFacts
  <2>2. Ancestors(m) \subseteq Node
    BY AncestorFacts
  <2> QED
    BY <2>1, <2>2 DEF Inside, Homes
<1>4. h \in Subtree(h)
  BY DEF Subtree
<1>5. ASSUME NEW a \in Node, h \in Subtree(a) PROVE n \in Subtree(a) /\ a <= h
  BY <1>2, <1>5, SubtreeFacts
<1>6. ASSUME NEW a \in Node, n \in Subtree(a), a <= h PROVE h \in Subtree(a)
  <2>1. CASE a = h
    BY <1>4, <2>1
  <2>2. CASE a # h
    <3>1. a \in Subtree(h) \/ h \in Subtree(a)
      BY <1>2, <1>6, SubtreesApart
    <3>2. a \in Subtree(h) => a >= h
      BY <1>2, SubtreeFacts
    <3> QED
      BY <1>1, <1>2, <1>6, <2>2, <3>1, <3>2
  <2> QED
    BY <2>1, <2>2
<1>7. h \in Inside(h) /\ Inside(h) = {a \in Inside(n) : a <= h}
  BY <1>2, <1>3, <1>4, <1>5, <1>6
<1>8. Cardinality(Inside(h)) <= Cardinality(Inside(n)) /\ Cardinality(Inside(h)) \in Nat
  BY <1>2, <1>7, InsideFinite
<1>9. Cardinality(Inside(h)) # 0
  BY <1>2, <1>7, InsideFinite, FS_EmptySet
<1> QED
  BY <1>7, <1>8, <1>9, InsideFinite

LEMMA InnermostHome ==
  ASSUME InTree, NEW n \in Node, Inside(n) # {}
  PROVE  /\ Greatest(Inside(n)) \in Inside(n)
         /\ \A h \in Inside(n) : h <= Greatest(Inside(n))
         /\ Inside(Greatest(Inside(n))) = Inside(n)
<1>1. n \in Nat /\ Inside(n) \in SUBSET (0 .. n)
  BY HomeFacts
<1>2. /\ Greatest(Inside(n)) \in Inside(n)
      /\ \A h \in Inside(n) : h <= Greatest(Inside(n))
  BY <1>1, GreatestMember
<1> DEFINE g == Greatest(Inside(n))
<1>3. Inside(g) = {a \in Inside(n) : a <= g}
  BY <1>2, InsideOfHome
<1>4. Inside(g) = Inside(n)
  BY <1>2, <1>3
<1> QED
  BY <1>2, <1>4

LEMMA GreatestHome ==
  ASSUME InTree, NEW n \in Node, Homes(n) # {}
  PROVE  /\ Greatest(Homes(n)) \in Homes(n) /\ Greatest(Homes(n)) \in Node /\ Greatest(Homes(n)) < n
         /\ Kind(Greatest(Homes(n))) \in HomeKinds
         /\ \A h \in Homes(n) : h <= Greatest(Homes(n))
<1>1. n \in Nat /\ Homes(n) \in SUBSET (0 .. n)
  BY HomeFacts
<1>2. Greatest(Homes(n)) \in Homes(n) /\ \A h \in Homes(n) : h <= Greatest(Homes(n))
  BY <1>1, GreatestMember
<1> QED
  BY <1>2, HomeFacts

(* The children of a root are modules, and nothing is around those that    *)
(* have children.                                                          *)
LEMMA RootInside ==
  ASSUME InTree, NEW n \in Node, Kind(n) = "root"
  PROVE  /\ Inside(n) = {}
         /\ \A k \in Kids(n) : Kind(k) = "module"
<1>1. Inside(n) = {}
  BY NothingAboveRoot DEF Inside, Homes, HomeKinds, Opening
<1>2. ASSUME NEW k \in Kids(n) PROVE Kind(k) = "module"
  <2>1. tree[n].depth = 0
    BY TreeFacts DEF IsForest, Kind, Node
  <2>2. k \in Node /\ tree[k].depth = 1
    BY <2>1, KidFacts
  <2> QED
    BY <2>2, TreeFacts DEF IsParsed, Kind, Node
<1> QED
  BY <1>1, <1>2

LEMMA ModuleAround ==
  ASSUME InTree, NEW n \in Node, NEW k \in Kids(n), Kind(n) = "module"
  PROVE  Homes(n) = {}
<1>1. /\ Len(tree) \in Nat /\ Node = 1 .. Len(tree) /\ \A m \in Node : tree[m].depth \in Nat
      /\ \A m \in Node : Kind(m) = "root" <=> tree[m].depth = 0
  BY TreeFacts DEF IsForest, Kind, Node
<1>2. k \in Node /\ k > n /\ IsAbove(n, k)
  BY KidFacts
<1>3. HasChild(tree, n)
  <2>1. n + 1 \in Node /\ tree[n + 1].depth > tree[n].depth
    BY <1>1, <1>2 DEF IsAbove
  <2>2. tree[n + 1].depth <= tree[n + 1 - 1].depth + 1 /\ n + 1 - 1 = n
    BY <1>1, <2>1, TreeFacts DEF IsForest, Node
  <2> QED
    BY <1>1, <2>1, <2>2 DEF HasChild, Node
<1>4. tree[n].depth = 1
  BY <1>3, TreeFacts DEF IsParsed, Kind, Node
<1>5. ASSUME NEW a \in Ancestors(n) PROVE Kind(a) = "root"
  <2>1. a \in Node /\ IsAbove(a, n)
    BY AncestorFacts
  <2>2. tree[a].depth < 1
    BY <1>4, <2>1, DeeperBelow
  <2> QED
    BY <1>1, <2>1, <2>2
<1> QED
  BY <1>5 DEF Homes, HomeKinds, Opening
-----------------------------------------------------------------------------
(* The children that the walks visit.                                      *)
LEMMA VisitedKids ==
  ASSUME InTree, NEW n \in Node
  PROVE  Collected(n) \subseteq Kids(n) /\ Resolved(n) \subseteq Kids(n) /\ Kids(n) \in SUBSET Nat
<1>1. Kids(n) \in SUBSET Nat
  BY TreeFacts DEF Kids
<1>2. Items(n) \subseteq Kids(n) /\ First(n) \subseteq Kids(n)
  BY DEF Items, First
<1>3. Collected(n) \subseteq Kids(n)
  BY <1>2 DEF Collected
<1>4. Kind(n) \in Kinds
  BY TreeFacts DEF Kind, TreeNode
<1>5. Resolved(n) \subseteq Kids(n)
  BY <1>2, <1>4 DEF Resolved, NeedsSymbol, Skipped, Kinds, Opening, Leaf, Use, Expression
<1> QED
  BY <1>1, <1>3, <1>5

(* Nothing of this changes while the program runs.                         *)
LEMMA TreeStays ==
  ASSUME tree' = tree
  PROVE  /\ InTree' = InTree /\ Node' = Node
         /\ \A n : Kind(n)' = Kind(n) /\ NameOf(n)' = NameOf(n) /\ Of(n)' = Of(n)
         /\ \A m, n : IsAbove(m, n)' <=> IsAbove(m, n)
         /\ \A n : Kids(n)' = Kids(n) /\ Subtree(n)' = Subtree(n)
         /\ \A n : Ancestors(n)' = Ancestors(n) /\ Homes(n)' = Homes(n) /\ Inside(n)' = Inside(n)
         /\ \A f : Root(f)' = Root(f)
         /\ \A n : Collected(n)' = Collected(n)
<1>1. /\ InTree' = InTree /\ Node' = Node
      /\ \A n : Kind(n)' = Kind(n) /\ NameOf(n)' = NameOf(n) /\ Of(n)' = Of(n)
  BY DEF InTree, Node, Kind, NameOf, Of
<1>2. \A m, n : IsAbove(m, n)' <=> IsAbove(m, n)
  BY DEF IsAbove
<1>3. \A n : Kids(n)' = Kids(n)
  BY <1>2 DEF Kids
<1>4. \A n : Subtree(n)' = Subtree(n)
  BY <1>1, <1>2 DEF Subtree
<1>5. \A n : Ancestors(n)' = Ancestors(n)
  BY <1>2 DEF Ancestors
<1>6. \A n : Homes(n)' = Homes(n)
  BY <1>1, <1>5 DEF Homes
<1>7. \A n : Inside(n)' = Inside(n)
  BY <1>1, <1>6 DEF Inside
<1>8. \A f : Root(f)' = Root(f)
  BY <1>1 DEF Root
<1>9. \A n : Items(n)' = Items(n) /\ First(n)' = First(n)
  BY <1>1, <1>3 DEF Items, First
<1>10. \A n : Collected(n)' = Collected(n)
  BY <1>1, <1>3, <1>9 DEF Collected
<1> QED
  BY <1>1, <1>2, <1>3, <1>4, <1>5, <1>6, <1>7, <1>8, <1>10
-----------------------------------------------------------------------------
(* The calls in progress: what follows from these parts of the invariant   *)
(* alone.                                                                  *)
Control ==
  /\ InTree
  /\ compiled \subseteq File
  /\ stack \in Seq(Frame)
  /\ outcome \in {"running", "ok", "cyclic"}
  /\ Chain

(* A call that goes on to k.                                               *)
AtPlace(c, k) == [c EXCEPT !.at = k]

LEMMA PlacedFrame ==
  ASSUME NEW c \in Frame, NEW k \in Nat
  PROVE  /\ AtPlace(c, k) \in Frame
         /\ AtPlace(c, k).op = c.op /\ AtPlace(c, k).unit = c.unit /\ AtPlace(c, k).node = c.node
         /\ AtPlace(c, k).at = k
  BY DEF AtPlace, Frame

LEMMA CallIsFrame ==
  ASSUME NEW op \in {"compile", "collect", "resolve", "load"}, NEW f \in File, NEW n \in Nat
  PROVE  /\ Call(op, f, n) \in Frame
         /\ Call(op, f, n).op = op /\ Call(op, f, n).unit = f /\ Call(op, f, n).node = n
         /\ Call(op, f, n).at = 0
  BY DEF Call, Frame

LEMMA StackFacts ==
  ASSUME Control
  PROVE  /\ Len(stack) \in Nat /\ Depth = 1 .. Len(stack) /\ DOMAIN stack = Depth
         /\ \A i \in Depth : /\ stack[i] \in Frame /\ FrameOK(stack[i])
                             /\ stack[i].unit \in File /\ stack[i].node \in Node /\ stack[i].at \in Nat
                             /\ stack[i].op \in {"compile", "collect", "resolve", "load"}
<1>1. Len(stack) \in Nat /\ Depth = 1 .. Len(stack) /\ DOMAIN stack = Depth
  BY LenProperties DEF Control, Depth
<1>2. ASSUME NEW i \in Depth
      PROVE  /\ stack[i] \in Frame /\ FrameOK(stack[i])
             /\ stack[i].unit \in File /\ stack[i].node \in Node /\ stack[i].at \in Nat
             /\ stack[i].op \in {"compile", "collect", "resolve", "load"}
  <2>1. stack[i] \in Frame /\ FrameOK(stack[i])
    BY <1>1, ElementOfSeq DEF Control, Chain
  <2>2. stack[i].unit \in File /\ stack[i].at \in Nat /\ stack[i].op \in {"compile", "collect", "resolve", "load"}
    BY <2>1 DEF Frame
  <2>3. stack[i].node \in Node
    <3>1. Root(stack[i].unit) \in Node
      BY <2>2, RootFacts DEF Control
    <3> QED
      BY <2>1, <3>1, SubtreeFacts DEF FrameOK, Control
  <2> QED
    BY <2>1, <2>2, <2>3
<1> QED
  BY <1>1, <1>2

LEMMA TopFacts ==
  ASSUME Control, stack # << >>
  PROVE  /\ Len(stack) \in Depth /\ Len(stack) \in Nat \ {0} /\ Top = stack[Len(stack)]
         /\ Top \in Frame /\ FrameOK(Top)
         /\ Top.unit \in File /\ Top.node \in Node /\ Top.at \in Nat
         /\ Top.op \in {"compile", "collect", "resolve", "load"}
<1>1. Len(stack) # 0
  BY EmptySeq DEF Control
<1>2. Len(stack) \in Depth
  BY <1>1, StackFacts
<1> QED
  BY <1>1, <1>2, StackFacts DEF Top

(* The stack after each of the things that happen to it.                   *)
LEMMA AtStack ==
  ASSUME Control, stack # << >>, NEW k \in Nat
  PROVE  /\ At(k) \in Seq(Frame) /\ Len(At(k)) = Len(stack)
         /\ \A i \in 1 .. Len(stack) - 1 : At(k)[i] = stack[i]
         /\ At(k)[Len(stack)] = AtPlace(Top, k)
<1> DEFINE n == Len(stack)
           d == AtPlace(Top, k)
<1>1. n \in Nat /\ n \in 1 .. n /\ Top = stack[n] /\ Top \in Frame
  BY TopFacts
<1>2. d \in Frame
  BY <1>1, PlacedFrame
<1>3. At(k) = [stack EXCEPT ![n] = d]
  BY DEF At, AtPlace, Top
<1> HIDE DEF d
<1>4. stack \in Seq(Frame)
  BY DEF Control
<1>5. /\ At(k) \in Seq(Frame) /\ Len(At(k)) = n
      /\ \A i \in 1 .. n : At(k)[i] = IF i = n THEN d ELSE stack[i]
  BY <1>1, <1>2, <1>3, <1>4, ExceptSeq
<1>6. \A i \in 1 .. n - 1 : i \in 1 .. n /\ i # n
  BY <1>1
<1> QED
  BY <1>1, <1>5, <1>6 DEF d

LEMMA EnterStack ==
  ASSUME Control, stack # << >>, NEW k \in Nat, NEW c \in Frame
  PROVE  /\ Append(At(k), c) \in Seq(Frame) /\ Len(Append(At(k), c)) = Len(stack) + 1
         /\ \A i \in 1 .. Len(stack) - 1 : Append(At(k), c)[i] = stack[i]
         /\ Append(At(k), c)[Len(stack)] = AtPlace(Top, k)
         /\ Append(At(k), c)[Len(stack) + 1] = c
<1>1. /\ At(k) \in Seq(Frame) /\ Len(At(k)) = Len(stack)
      /\ \A i \in 1 .. Len(stack) - 1 : At(k)[i] = stack[i]
      /\ At(k)[Len(stack)] = AtPlace(Top, k)
  BY AtStack
<1>2. /\ Append(At(k), c) \in Seq(Frame) /\ Len(Append(At(k), c)) = Len(At(k)) + 1
      /\ \A i \in 1 .. Len(At(k)) : Append(At(k), c)[i] = At(k)[i]
      /\ Append(At(k), c)[Len(At(k)) + 1] = c
  BY <1>1, AppendProperties
<1>3. Len(stack) \in Nat /\ Len(stack) \in 1 .. Len(stack) /\ \A i \in 1 .. Len(stack) - 1 : i \in 1 .. Len(stack)
  BY TopFacts
<1> QED
  BY <1>1, <1>2, <1>3

LEMMA FrontStack ==
  ASSUME NEW s \in Seq(Frame), NEW k \in Nat, k <= Len(s)
  PROVE  /\ SubSeq(s, 1, k) \in Seq(Frame)
         /\ Len(SubSeq(s, 1, k)) = k
         /\ \A i \in 1 .. k : SubSeq(s, 1, k)[i] = s[i]
<1>1. \A i \in 1 .. k : s[i] \in Frame
  BY ElementOfSeq
<1>2. 1 \in Int /\ k \in Int
  OBVIOUS
<1>3. /\ SubSeq(s, 1, k) \in Seq(Frame)
      /\ Len(SubSeq(s, 1, k)) = IF 1 <= k THEN k - 1 + 1 ELSE 0
      /\ \A i \in 1 .. k - 1 + 1 : SubSeq(s, 1, k)[i] = s[1 + i - 1]
  BY <1>1, <1>2, SubSeqProperties
<1> QED
  BY <1>3

LEMMA BelowStack ==
  ASSUME Control, stack # << >>
  PROVE  /\ Below \in Seq(Frame) /\ Len(Below) = Len(stack) - 1
         /\ \A i \in 1 .. Len(stack) - 1 : Below[i] = stack[i]
<1>1. Len(stack) - 1 \in Nat /\ Len(stack) - 1 <= Len(stack) /\ stack \in Seq(Frame)
  BY TopFacts DEF Control
<1> QED
  BY <1>1, FrontStack DEF Below
-----------------------------------------------------------------------------
(* The chain after each of them.                                           *)
LEMMA MovesKeepsChain ==
  ASSUME Control, stack # << >>, NEW k \in Nat, stack' = At(k), UNCHANGED <<tree, compiled>>,
         FrameOK(AtPlace(Top, k))
  PROVE  stack' \in Seq(Frame) /\ Chain'
<1> DEFINE N == Len(stack)
<1>1. /\ stack' \in Seq(Frame) /\ Len(stack') = N
      /\ \A i \in 1 .. N - 1 : stack'[i] = stack[i]
      /\ stack'[N] = AtPlace(Top, k)
  BY AtStack
<1>2. /\ N \in Nat \ {0} /\ Top = stack[N] /\ Top \in Frame /\ Depth = 1 .. N /\ Depth' = 1 .. N
      /\ AtPlace(Top, k) \in Frame
      /\ AtPlace(Top, k).op = Top.op /\ AtPlace(Top, k).unit = Top.unit /\ AtPlace(Top, k).node = Top.node
  BY <1>1, TopFacts, PlacedFrame DEF Depth
<1>3. /\ \A i \in 1 .. N : stack'[i].op = stack[i].op /\ stack'[i].unit = stack[i].unit /\ stack'[i].node = stack[i].node
      /\ \A i \in 1 .. N - 1 : stack'[i] = stack[i]
  <2> SUFFICES ASSUME NEW i \in 1 .. N
               PROVE  stack'[i].op = stack[i].op /\ stack'[i].unit = stack[i].unit /\ stack'[i].node = stack[i].node
    BY <1>1
  <2>1. CASE i = N
    BY <1>1, <1>2, <2>1
  <2>2. CASE i # N
    <3>1. i \in 1 .. N - 1
      BY <1>2, <2>2
    <3> QED
      BY <1>1, <3>1
  <2> QED
    BY <2>1, <2>2
<1> HIDE DEF N
<1>4. \A c : FrameOK(c)' <=> FrameOK(c)
  BY TreeStays DEF FrameOK
<1>5. \A i \in 1 .. N : FrameOK(stack'[i])
  <2> TAKE i \in 1 .. N
  <2>1. CASE i = N
    BY <1>1, <2>1
  <2>2. CASE i # N
    <3>1. i \in 1 .. N - 1
      BY <1>2, <2>2
    <3> QED
      BY <1>1, <1>2, <3>1, StackFacts
  <2> QED
    BY <2>1, <2>2
<1>6. \A i \in 1 .. N - 1 : Awaits(stack'[i], stack'[i + 1])
  <2> TAKE i \in 1 .. N - 1
  <2>1. Awaits(stack[i], stack[i + 1])
    BY <1>2 DEF Control, Chain, N
  <2>2. i + 1 \in 1 .. N
    BY <1>2
  <2> QED
    BY <1>3, <2>1, <2>2 DEF Awaits
<1>7. ASSUME NEW i \in 1 .. N, NEW j \in 1 .. N, i < j, stack'[i].unit = stack'[j].unit
      PROVE  /\ stack'[i].op # "load" /\ stack'[j].op # "compile"
             /\ stack'[i].op \in Walk => stack'[i].at \in Kids(stack'[i].node) /\ stack'[j].node \in Subtree(stack'[i].at)
  <2>1. i \in 1 .. N - 1
    BY <1>2, <1>7
  <2> QED
    BY <1>2, <1>3, <1>7, <2>1 DEF Control, Chain, Nested
<1>8. stack'[1].op = "compile"
  <2>1. 1 \in 1 .. N
    BY <1>2
  <2> QED
    BY <1>3, <2>1 DEF Control, Chain
<1>9. Nested'
  BY <1>2, <1>7, TreeStays DEF Nested
<1>12. Supported'
  <2> SUFFICES ASSUME NEW i \in 1 .. N, stack'[i].op # "compile"
               PROVE  \E j \in 1 .. i - 1 : /\ stack'[j].op = "compile" /\ stack'[j].unit = stack'[i].unit
                                            /\ stack'[j].at = IF stack'[i].op = "collect" THEN 1 ELSE 2
    BY <1>2 DEF Supported
  <2>1. PICK j \in 1 .. i - 1 : /\ stack[j].op = "compile" /\ stack[j].unit = stack[i].unit
                                 /\ stack[j].at = IF stack[i].op = "collect" THEN 1 ELSE 2
    BY <1>2, <1>3 DEF Control, Chain, Supported
  <2>2. j \in 1 .. N - 1
    BY <1>2, <2>1
  <2> QED
    BY <1>3, <2>1, <2>2
<1>10. \A i \in Depth' : FrameOK(stack[i])'
  BY <1>2, <1>4, <1>5
<1>11. Len(stack') = N
  BY <1>1 DEF N
<1> QED
  BY <1>1, <1>6, <1>8, <1>9, <1>10, <1>11, <1>12 DEF Chain, Awaits

LEMMA EnterKeepsChain ==
  ASSUME Control, stack # << >>, NEW k \in Nat, NEW c \in Frame, stack' = Append(At(k), c),
         UNCHANGED <<tree, compiled>>,
         FrameOK(AtPlace(Top, k)), FrameOK(c), Awaits(AtPlace(Top, k), c),
         c.op = "compile" => c.unit \notin Compiling,
         c.op # "compile" => c.node \in Subtree(Top.node),
         Top.op \in Walk => k \in Kids(Top.node) /\ c.node = k
  PROVE  stack' \in Seq(Frame) /\ Chain'
<1> DEFINE N == Len(stack)
<1>1. /\ stack' \in Seq(Frame) /\ Len(stack') = N + 1
      /\ \A i \in 1 .. N - 1 : stack'[i] = stack[i]
      /\ stack'[N] = AtPlace(Top, k) /\ stack'[N + 1] = c
  BY EnterStack
<1>2. /\ N \in Nat \ {0} /\ Top = stack[N] /\ Top \in Frame /\ Depth = 1 .. N /\ Depth' = 1 .. N + 1
      /\ AtPlace(Top, k) \in Frame /\ AtPlace(Top, k).at = k
      /\ AtPlace(Top, k).op = Top.op /\ AtPlace(Top, k).unit = Top.unit /\ AtPlace(Top, k).node = Top.node
  BY <1>1, TopFacts, PlacedFrame DEF Depth
<1>3. \A i \in 1 .. N : stack'[i].op = stack[i].op /\ stack'[i].unit = stack[i].unit /\ stack'[i].node = stack[i].node
  <2> TAKE i \in 1 .. N
  <2>1. CASE i = N
    BY <1>1, <1>2, <2>1
  <2>2. CASE i # N
    <3>1. i \in 1 .. N - 1
      BY <1>2, <2>2
    <3> QED
      BY <1>1, <3>1
  <2> QED
    BY <2>1, <2>2
<1>0. Compiling = {stack[i].unit : i \in 1 .. N}
  BY <1>2, StackFacts DEF Compiling
<1> HIDE DEF N
<1>4. \A d : FrameOK(d)' <=> FrameOK(d)
  BY TreeStays DEF FrameOK
<1>5. \A i \in 1 .. N + 1 : FrameOK(stack'[i])
  <2> TAKE i \in 1 .. N + 1
  <2>1. CASE i \in {N, N + 1}
    BY <1>1, <2>1
  <2>2. CASE i \notin {N, N + 1}
    <3>1. i \in 1 .. N - 1
      BY <1>2, <2>2
    <3> QED
      BY <1>1, <1>2, <3>1, StackFacts
  <2> QED
    BY <2>1, <2>2
<1>6. \A i \in 1 .. N : Awaits(stack'[i], stack'[i + 1])
  <2> TAKE i \in 1 .. N
  <2>1. CASE i = N
    BY <1>1, <2>1
  <2>2. CASE i # N
    <3>1. i \in 1 .. N - 1 /\ i + 1 \in 1 .. N
      BY <1>2, <2>2
    <3>2. Awaits(stack[i], stack[i + 1])
      BY <1>2, <3>1 DEF Control, Chain, N
    <3> QED
      <4>1. stack'[i] = stack[i]
        BY <1>1, <3>1
      <4>2. stack'[i + 1].op = stack[i + 1].op /\ stack'[i + 1].unit = stack[i + 1].unit
            /\ stack'[i + 1].node = stack[i + 1].node
        BY <1>3, <3>1
      <4> QED
        BY <3>2, <4>1, <4>2 DEF Awaits
  <2> QED
    BY <2>1, <2>2
<1>7. ASSUME NEW i \in 1 .. N + 1, NEW j \in 1 .. N + 1, i < j, stack'[i].unit = stack'[j].unit
      PROVE  /\ stack'[i].op # "load" /\ stack'[j].op # "compile"
             /\ stack'[i].op \in Walk => stack'[i].at \in Kids(stack'[i].node) /\ stack'[j].node \in Subtree(stack'[i].at)
  <2>1. i \in 1 .. N
    BY <1>2, <1>7
  <2>2. CASE j # N + 1
    <3>1. j \in 1 .. N /\ i \in 1 .. N - 1
      BY <1>2, <1>7, <2>2
    <3> QED
      BY <1>1, <1>2, <1>3, <1>7, <3>1 DEF Control, Chain, Nested
  <2>3. CASE j = N + 1
    <3>1. stack[i].unit = c.unit
      BY <1>1, <1>3, <1>7, <2>1, <2>3
    <3>2. c.op # "compile"
      BY <1>0, <2>1, <3>1
    <3>3. c.node \in Subtree(Top.node) /\ c.unit = Top.unit
      BY <1>2, <3>2 DEF Awaits
    <3>4. CASE i = N
      <4>1. k \in Subtree(k)
        BY DEF Subtree
      <4>2. Top.op # "load"
        BY <1>2, <3>2 DEF Awaits, Walk, Frame
      <4> QED
        BY <1>1, <1>2, <2>3, <3>2, <3>4, <4>1, <4>2
    <3>5. CASE i # N
      <4>1. i \in 1 .. N - 1 /\ N \in 1 .. N
        BY <1>2, <2>1, <3>5
      <4>2. ASSUME stack[i].op \in Walk
            PROVE  stack[i].at \in Kids(stack[i].node) /\ c.node \in Subtree(stack[i].at)
        <5>1. i < N /\ stack[i].unit = stack[N].unit
          BY <1>2, <3>1, <3>3, <4>1
        <5>2. stack[i].at \in Kids(stack[i].node) /\ Top.node \in Subtree(stack[i].at)
          BY <1>2, <2>1, <4>1, <4>2, <5>1 DEF Control, Chain, Nested
        <5>3. stack[i].at \in Node
          BY <1>2, <2>1, <5>2, KidFacts, StackFacts DEF Control
        <5> QED
          BY <3>3, <5>2, <5>3, SubtreeFacts DEF Control
      <4>3. stack[i].op # "load"
        <5>1. i < N /\ stack[i].unit = stack[N].unit
          BY <1>2, <3>1, <3>3, <4>1
        <5> QED
          BY <1>2, <2>1, <4>1, <5>1 DEF Control, Chain, Nested
      <4> QED
        BY <1>1, <1>3, <2>3, <3>2, <4>1, <4>2, <4>3
    <3> QED
      BY <3>4, <3>5
  <2> QED
    BY <2>2, <2>3
<1>8. stack'[1].op = "compile"
  <2>1. 1 \in 1 .. N
    BY <1>2
  <2> QED
    BY <1>3, <2>1 DEF Control, Chain
<1>9. Nested'
  <2>1. \A i, j \in 1 .. N + 1 : i < j /\ stack'[i].unit = stack'[j].unit =>
          /\ stack'[i].op # "load" /\ stack'[j].op # "compile"
          /\ stack'[i].op \in Walk => stack'[i].at \in Kids(stack'[i].node) /\ stack'[j].node \in Subtree(stack'[i].at)
    BY <1>7
  <2>2. \A n : Kids(n)' = Kids(n) /\ Subtree(n)' = Subtree(n)
    BY TreeStays
  <2> QED
    BY <1>2, <2>1, <2>2 DEF Nested
<1>12. Supported'
  <2> SUFFICES ASSUME NEW i \in 1 .. N + 1, stack'[i].op # "compile"
               PROVE  \E j \in 1 .. i - 1 : /\ stack'[j].op = "compile" /\ stack'[j].unit = stack'[i].unit
                                            /\ stack'[j].at = IF stack'[i].op = "collect" THEN 1 ELSE 2
    BY <1>2 DEF Supported
  <2>1. CASE i # N + 1
    <3>1. i \in 1 .. N
      BY <1>2, <2>1
    <3>2. PICK j \in 1 .. i - 1 : /\ stack[j].op = "compile" /\ stack[j].unit = stack[i].unit
                                   /\ stack[j].at = IF stack[i].op = "collect" THEN 1 ELSE 2
      BY <1>2, <1>3, <3>1 DEF Control, Chain, Supported
    <3>3. j \in 1 .. N - 1
      BY <1>2, <3>1, <3>2
    <3> QED
      BY <1>1, <1>3, <3>1, <3>2, <3>3
  <2>2. CASE i = N + 1
    <3>1. stack'[i] = c /\ c.op # "compile" /\ c.unit = Top.unit
      BY <1>1, <1>2, <2>2 DEF Awaits
    <3>2. CASE Top.op = "compile"
      <4>1. c.op \in Walk /\ k = IF c.op = "collect" THEN 1 ELSE 2
        BY <1>2, <3>1, <3>2 DEF Awaits, Walk, Frame
      <4>2. N \in 1 .. i - 1
        BY <1>2, <2>2
      <4> QED
        BY <1>1, <1>2, <3>1, <3>2, <4>1, <4>2
    <3>3. CASE Top.op # "compile"
      <4>1. c.op = "collect" <=> Top.op = "collect"
        BY <1>2, <3>1, <3>3 DEF Awaits, Walk, Frame
      <4>2. N \in 1 .. N
        BY <1>2
      <4>3. PICK j \in 1 .. N - 1 : /\ stack[j].op = "compile" /\ stack[j].unit = Top.unit
                                     /\ stack[j].at = IF Top.op = "collect" THEN 1 ELSE 2
        BY <1>2, <3>3, <4>2 DEF Control, Chain, Supported
      <4>4. j \in 1 .. i - 1
        BY <1>2, <2>2
      <4> QED
        BY <1>1, <3>1, <4>1, <4>3, <4>4
    <3> QED
      BY <3>2, <3>3
  <2> QED
    BY <2>1, <2>2
<1>10. \A i \in Depth' : FrameOK(stack[i])'
  BY <1>2, <1>4, <1>5
<1>11. Len(stack') - 1 = N
  BY <1>1, <1>2 DEF N
<1> QED
  BY <1>1, <1>6, <1>8, <1>9, <1>10, <1>11, <1>12 DEF Chain, Awaits

LEMMA ReturnKeepsChain ==
  ASSUME Control, stack # << >>, stack' = Below, tree' = tree,
         compiled' = compiled \/ (compiled' = compiled \cup {Top.unit} /\ Top.op = "compile")
  PROVE  stack' \in Seq(Frame) /\ Chain'
<1> DEFINE N == Len(stack)
<1>1. /\ stack' \in Seq(Frame) /\ Len(stack') = N - 1
      /\ \A i \in 1 .. N - 1 : stack'[i] = stack[i]
  BY BelowStack
<1>2. N \in Nat \ {0} /\ Top = stack[N] /\ Depth = 1 .. N /\ Depth' = 1 .. N - 1
  BY <1>1, TopFacts DEF Depth
<1> HIDE DEF N
<1>3. ASSUME NEW i \in 1 .. N - 1 PROVE FrameOK(stack[i])'
  <2>1. i \in 1 .. N /\ N \in 1 .. N /\ i < N /\ FrameOK(stack[i])
    BY <1>2, StackFacts
  <2>2. stack[i].op = "compile" /\ Top.op = "compile" => stack[i].unit # Top.unit
    BY <1>2, <2>1 DEF Control, Chain, Nested
  <2>3. stack[i].op = "compile" => stack[i].unit \notin compiled'
    BY <2>1, <2>2 DEF FrameOK
  <2> QED
    BY <1>1, <2>1, <2>3, TreeStays DEF FrameOK
<1>4. \A i \in 1 .. N - 1 - 1 : Awaits(stack'[i], stack'[i + 1])
  <2> TAKE i \in 1 .. N - 1 - 1
  <2>1. i \in 1 .. N - 1 /\ i + 1 \in 1 .. N - 1
    BY <1>2
  <2> QED
    BY <1>1, <2>1 DEF Control, Chain, N
<1>5. Nested'
  <2>1. \A n : Kids(n)' = Kids(n) /\ Subtree(n)' = Subtree(n)
    BY TreeStays
  <2>2. ASSUME NEW i \in 1 .. N - 1, NEW j \in 1 .. N - 1, i < j, stack[i].unit = stack[j].unit
        PROVE  /\ stack[i].op # "load" /\ stack[j].op # "compile"
               /\ stack[i].op \in Walk => stack[i].at \in Kids(stack[i].node) /\ stack[j].node \in Subtree(stack[i].at)
    <3>1. i \in Depth /\ j \in Depth
      BY <1>2
    <3> QED
      BY <2>2, <3>1 DEF Nested, Control, Chain
  <2> QED
    BY <1>1, <1>2, <2>1, <2>2 DEF Nested
<1>8. Supported'
  <2> SUFFICES ASSUME NEW i \in 1 .. N - 1, stack'[i].op # "compile"
               PROVE  \E j \in 1 .. i - 1 : /\ stack'[j].op = "compile" /\ stack'[j].unit = stack'[i].unit
                                            /\ stack'[j].at = IF stack'[i].op = "collect" THEN 1 ELSE 2
    BY <1>2 DEF Supported
  <2>1. i \in 1 .. N /\ stack'[i] = stack[i]
    BY <1>1, <1>2
  <2>2. PICK j \in 1 .. i - 1 : /\ stack[j].op = "compile" /\ stack[j].unit = stack[i].unit
                                 /\ stack[j].at = IF stack[i].op = "collect" THEN 1 ELSE 2
    BY <1>2, <2>1 DEF Control, Chain, Supported
  <2>3. j \in 1 .. N - 1
    BY <1>2, <2>2
  <2> QED
    BY <1>1, <2>1, <2>2, <2>3
<1>6. stack' # << >> => stack'[1].op = "compile"
  <2>1. stack' # << >> => N - 1 # 0
    BY <1>1, EmptySeq
  <2>2. stack' # << >> => 1 \in 1 .. N - 1
    BY <1>2, <2>1
  <2> QED
    BY <1>1, <2>2 DEF Control, Chain
<1>7. Len(stack') - 1 = N - 1 - 1
  BY <1>1 DEF N
<1> QED
  BY <1>1, <1>2, <1>3, <1>4, <1>5, <1>6, <1>7, <1>8 DEF Chain, Awaits
-----------------------------------------------------------------------------
(* What the program's functions find on top of the stack.                  *)
LEMMA CollecteeFacts ==
  ASSUME Control, Collecting
  PROVE  /\ stack # << >> /\ Top.op = "collect" /\ outcome = "running"
         /\ Collectee \in Collected(Top.node) /\ Collectee \in Kids(Top.node)
         /\ Collectee \in Node /\ Collectee > Top.at
         /\ \A k \in Collected(Top.node) : k > Top.at => Collectee <= k
<1>1. stack # << >> /\ Top.op = "collect" /\ outcome = "running" /\ Left(Collected(Top.node)) # {}
  BY DEF Collecting, In
<1>2. Top.node \in Node /\ InTree
  BY <1>1, TopFacts DEF Control
<1>3. Collected(Top.node) \subseteq Kids(Top.node) /\ Kids(Top.node) \in SUBSET Nat
  BY <1>2, VisitedKids
<1>4. Left(Collected(Top.node)) \in SUBSET Nat
  BY <1>3 DEF Left
<1>5. /\ Collectee \in Left(Collected(Top.node))
      /\ \A k \in Left(Collected(Top.node)) : Collectee <= k
  BY <1>1, <1>4, LeastMember DEF Collectee
<1> QED
  BY <1>1, <1>2, <1>3, <1>5, KidFacts DEF Left

LEMMA ResolveeFacts ==
  ASSUME Control, Resolving
  PROVE  /\ stack # << >> /\ Top.op = "resolve" /\ outcome = "running"
         /\ Resolvee \in Resolved(Top.node) /\ Resolvee \in Kids(Top.node)
         /\ Resolvee \in Node /\ Resolvee > Top.at
         /\ \A k \in Resolved(Top.node) : k > Top.at => Resolvee <= k
<1>1. stack # << >> /\ Top.op = "resolve" /\ outcome = "running" /\ Left(Resolved(Top.node)) # {}
  BY DEF Resolving, In
<1>2. Top.node \in Node /\ InTree
  BY <1>1, TopFacts DEF Control
<1>3. Resolved(Top.node) \subseteq Kids(Top.node) /\ Kids(Top.node) \in SUBSET Nat
  BY <1>2, VisitedKids
<1>4. Left(Resolved(Top.node)) \in SUBSET Nat
  BY <1>3 DEF Left
<1>5. /\ Resolvee \in Left(Resolved(Top.node))
      /\ \A k \in Left(Resolved(Top.node)) : Resolvee <= k
  BY <1>1, <1>4, LeastMember DEF Resolvee
<1> QED
  BY <1>1, <1>2, <1>3, <1>5, KidFacts DEF Left

LEMMA ProviderFacts ==
  ASSUME Control, Loading
  PROVE  /\ stack # << >> /\ Top.op = "load" /\ outcome = "running"
         /\ NextListed \in Providers(NameOf(Top.node)) /\ NextListed \in DOMAIN Listed
         /\ NextListed \in Nat /\ NextListed > Top.at
         /\ \A k \in Providers(NameOf(Top.node)) : k > Top.at => NextListed <= k
         /\ Provider \in File /\ Provider = Listed[NextListed]
<1>1. stack # << >> /\ Top.op = "load" /\ outcome = "running" /\ Left(Providers(NameOf(Top.node))) # {}
  BY DEF Loading, In
<1>2. Listed \in Seq(File) /\ DOMAIN Listed = 1 .. Len(Listed) /\ Len(Listed) \in Nat
  BY NamesAssumption, LenProperties
<1>3. Left(Providers(NameOf(Top.node))) \in SUBSET Nat
  BY <1>2 DEF Left, Providers
<1>4. /\ NextListed \in Left(Providers(NameOf(Top.node)))
      /\ \A k \in Left(Providers(NameOf(Top.node))) : NextListed <= k
  BY <1>1, <1>3, LeastMember DEF NextListed
<1>5. NextListed \in DOMAIN Listed /\ NextListed \in Nat
  BY <1>2, <1>4 DEF Left, Providers
<1>6. Provider \in File /\ Provider = Listed[NextListed]
  BY <1>2, <1>5, ElementOfSeq DEF Provider
<1> QED
  BY <1>1, <1>4, <1>5, <1>6 DEF Left

(* A walk goes on to a child, goes into it, or comes to an import.         *)
LEMMA WalkMoves ==
  ASSUME Control, stack # << >>, Top.op \in Walk, NEW n \in Kids(Top.node),
         stack' = At(n), UNCHANGED <<tree, compiled>>
  PROVE  stack' \in Seq(Frame) /\ Chain'
<1>1. /\ Top \in Frame /\ FrameOK(Top) /\ Top.node \in Node
      /\ n \in Nat /\ InTree
  BY TopFacts, KidFacts, TreeFacts DEF Control
<1>2. FrameOK(AtPlace(Top, n))
  BY <1>1, PlacedFrame DEF FrameOK, Walk
<1> QED
  BY <1>1, <1>2, MovesKeepsChain

LEMMA WalkEnters ==
  ASSUME Control, stack # << >>, Top.op \in Walk, NEW n \in Kids(Top.node),
         NEW op \in {Top.op, "load"}, op = "load" => Top.op = "resolve" /\ Kind(n) = "import",
         stack' = Enter(op, n), UNCHANGED <<tree, compiled>>
  PROVE  stack' \in Seq(Frame) /\ Chain'
<1> DEFINE c == Call(op, Top.unit, n)
<1>1. /\ Top \in Frame /\ FrameOK(Top) /\ Top.node \in Node /\ Top.unit \in File
      /\ Top.op \in {"collect", "resolve"}
      /\ n \in Node /\ n \in Nat /\ InTree /\ n \in Subtree(Top.node)
  BY TopFacts, KidFacts, TreeFacts DEF Control, Walk
<1>2. c \in Frame /\ c.op = op /\ c.unit = Top.unit /\ c.node = n /\ c.at = 0
  BY <1>1, CallIsFrame
<1>3. FrameOK(AtPlace(Top, n))
  BY <1>1, PlacedFrame DEF FrameOK, Walk
<1>4. n \in Subtree(Root(Top.unit))
  <2>1. Root(Top.unit) \in Node /\ Top.node \in Subtree(Root(Top.unit))
    BY <1>1, RootFacts DEF FrameOK
  <2> QED
    BY <1>1, <2>1, SubtreeFacts
<1>5. stack' = Append(At(n), c)
  BY DEF Enter
<1> HIDE DEF c
<1>6. FrameOK(c)
  BY <1>1, <1>2, <1>4 DEF FrameOK, Walk
<1>7. Awaits(AtPlace(Top, n), c)
  BY <1>1, <1>2, PlacedFrame DEF Awaits, Walk
<1>8. c.op # "compile" /\ c.node = n
  BY <1>1, <1>2
<1> QED
  BY <1>1, <1>2, <1>3, <1>5, <1>6, <1>7, <1>8, EnterKeepsChain

(* Every step keeps the chain.                                             *)
LEMMA CompileControl ==
  ASSUME Control, Compile
  PROVE  Control'
<1>1. /\ stack # << >> /\ Top.op = "compile" /\ tree' = tree /\ outcome = "running"
      /\ Top \in Frame /\ FrameOK(Top) /\ Top.unit \in File /\ Top.node \in Node /\ Top.node \in Nat
  BY TopFacts, TreeFacts DEF Compile, In, Control
<1>2. ASSUME NEW k \in {1, 2}, NEW op \in Walk, k = IF op = "collect" THEN 1 ELSE 2,
             stack' = Append(At(k), Call(op, Top.unit, Top.node)), compiled' = compiled
      PROVE  stack' \in Seq(Frame) /\ Chain'
  <2> DEFINE c == Call(op, Top.unit, Top.node)
  <2>1. c \in Frame /\ c.op = op /\ c.unit = Top.unit /\ c.node = Top.node /\ c.at = 0
    BY <1>1, CallIsFrame DEF Walk
  <2>2. stack' = Append(At(k), c)
    BY <1>2
  <2> HIDE DEF c
  <2>5. k \in Nat /\ k \in 0 .. 2
    OBVIOUS
  <2>6. /\ AtPlace(Top, k).op = "compile" /\ AtPlace(Top, k).unit = Top.unit
        /\ AtPlace(Top, k).node = Top.node /\ AtPlace(Top, k).at = k
    BY <1>1, <2>5, PlacedFrame
  <2>7. FrameOK(AtPlace(Top, k))
    BY <1>1, <2>5, <2>6 DEF FrameOK, Walk
  <2>8. FrameOK(c)
    BY <1>1, <1>2, <2>1 DEF FrameOK, Walk
  <2>3. FrameOK(AtPlace(Top, k)) /\ FrameOK(c) /\ Awaits(AtPlace(Top, k), c)
    BY <1>2, <2>1, <2>6, <2>7, <2>8 DEF Awaits, Walk
  <2>4. c.op # "compile" /\ c.node \in Subtree(Top.node) /\ Top.op \notin Walk
    BY <1>1, <1>2, <2>1 DEF Walk, Subtree
  <2> QED
    BY <1>1, <1>2, <2>1, <2>2, <2>3, <2>4, EnterKeepsChain
<1>3. CASE Top.at = 0 /\ stack' = Append(At(1), Call("collect", Top.unit, Top.node)) /\ UNCHANGED <<compiled, outcome>>
  BY <1>1, <1>2, <1>3, TreeStays DEF Control, Walk
<1>4. CASE Top.at = 1 /\ stack' = Append(At(2), Call("resolve", Top.unit, Top.node)) /\ UNCHANGED <<compiled, outcome>>
  BY <1>1, <1>2, <1>4, TreeStays DEF Control, Walk
<1>5. CASE /\ Top.at = 2 /\ compiled' = compiled \cup {Top.unit} /\ stack' = Below
           /\ outcome' = IF Len(stack) = 1 THEN "ok" ELSE outcome
  <2>1. stack' \in Seq(Frame) /\ Chain'
    BY <1>1, <1>5, ReturnKeepsChain
  <2> QED
    BY <1>1, <1>5, <2>1, TreeStays DEF Control
<1> QED
  BY <1>3, <1>4, <1>5 DEF Compile

LEMMA CollectControl ==
  ASSUME Control, Collecting, UNCHANGED <<tree, compiled, outcome>>,
         stack' = At(Collectee) \/ stack' = Enter("collect", Collectee)
  PROVE  Control'
<1>1. stack # << >> /\ Top.op = "collect" /\ Collectee \in Kids(Top.node)
  BY CollecteeFacts
<1>2. stack' \in Seq(Frame) /\ Chain'
  BY <1>1, WalkMoves, WalkEnters DEF Walk
<1> QED
  BY <1>2, TreeStays DEF Control

LEMMA ResolveControl ==
  ASSUME Control, Resolving, UNCHANGED <<tree, compiled, outcome>>,
         \/ stack' = At(Resolvee) \/ stack' = Enter("resolve", Resolvee)
         \/ stack' = Enter("load", Resolvee) /\ Kind(Resolvee) = "import"
  PROVE  Control'
<1>1. stack # << >> /\ Top.op = "resolve" /\ Resolvee \in Kids(Top.node)
  BY ResolveeFacts
<1>2. stack' \in Seq(Frame) /\ Chain'
  BY <1>1, WalkMoves, WalkEnters DEF Walk
<1> QED
  BY <1>2, TreeStays DEF Control

LEMMA ReturnControl ==
  ASSUME Control, stack # << >>, stack' = Below, UNCHANGED <<tree, compiled, outcome>>
  PROVE  Control'
<1>1. tree' = tree /\ compiled' = compiled /\ outcome' = outcome
  OBVIOUS
<1>2. stack' \in Seq(Frame) /\ Chain'
  BY <1>1, ReturnKeepsChain
<1> QED
  BY <1>1, <1>2, TreeStays DEF Control

LEMMA LoadCompiledControl ==
  ASSUME Control, LoadCompiled
  PROVE  Control'
<1>1. /\ stack # << >> /\ Top.op = "load" /\ NextListed \in Nat /\ stack' = At(NextListed)
      /\ UNCHANGED <<tree, compiled, outcome>> /\ Top \in Frame /\ FrameOK(Top)
  BY ProviderFacts, TopFacts DEF LoadCompiled
<1>2. FrameOK(AtPlace(Top, NextListed))
  BY <1>1, PlacedFrame DEF FrameOK, Walk
<1> QED
  BY <1>1, <1>2, MovesKeepsChain, TreeStays DEF Control

LEMMA LoadProviderControl ==
  ASSUME Control, LoadProvider
  PROVE  Control'
<1> DEFINE k == NextListed
           c == Call("compile", Provider, Root(Provider))
<1>1. /\ stack # << >> /\ Top.op = "load" /\ k \in Nat /\ stack' = Append(At(k), c)
      /\ UNCHANGED <<tree, compiled, outcome>> /\ Top \in Frame /\ FrameOK(Top)
      /\ Provider \in File /\ Provider \notin compiled /\ Provider \notin Compiling
      /\ Top.unit \in File
  BY ProviderFacts, TopFacts DEF LoadProvider
<1>2. Root(Provider) \in Node /\ Root(Provider) \in Nat
  BY <1>1, RootFacts, TreeFacts DEF Control
<1>3. c \in Frame /\ c.op = "compile" /\ c.unit = Provider /\ c.node = Root(Provider) /\ c.at = 0
  BY <1>1, <1>2, CallIsFrame
<1> HIDE DEF c, k
<1>7. /\ AtPlace(Top, k).op = "load" /\ AtPlace(Top, k).unit = Top.unit
      /\ AtPlace(Top, k).node = Top.node /\ AtPlace(Top, k).at = k
  BY <1>1, PlacedFrame
<1>8. FrameOK(AtPlace(Top, k))
  BY <1>1, <1>7 DEF FrameOK, Walk
<1>9. FrameOK(c)
  BY <1>1, <1>3 DEF FrameOK, Walk, Subtree
<1>4. FrameOK(AtPlace(Top, k)) /\ FrameOK(c) /\ Awaits(AtPlace(Top, k), c)
  BY <1>3, <1>7, <1>8, <1>9 DEF Awaits, Walk
<1>5. Top.op \notin Walk
  BY <1>1 DEF Walk
<1>6. stack' \in Seq(Frame) /\ Chain'
  BY <1>1, <1>3, <1>4, <1>5, EnterKeepsChain
<1> QED
  BY <1>1, <1>6, TreeStays DEF Control

LEMMA ControlStep ==
  ASSUME Control, [Next]_vars
  PROVE  Control'
<1>1. CASE UNCHANGED vars
  BY <1>1, TreeStays DEF vars, Control, Chain, FrameOK, Awaits, Supported, Nested, Depth
<1>2. CASE Compile
  BY <1>2, CompileControl
<1>3. CASE CollectOpening
  BY <1>3, CollectControl DEF CollectOpening
<1>4. CASE CollectLeaf
  BY <1>4, CollectControl DEF CollectLeaf
<1>5. CASE CollectRedeclared
  BY <1>5, CollectControl DEF CollectRedeclared
<1>6. CASE CollectImpl
  BY <1>6, CollectControl DEF CollectImpl
<1>7. CASE CollectModule
  BY <1>7, CollectControl DEF CollectModule
<1>8. CASE CollectInit
  BY <1>8, CollectControl DEF CollectInit
<1>9. CASE CollectOther
  BY <1>9, CollectControl DEF CollectOther
<1>10. CASE CollectReturn
  BY <1>10, ReturnControl DEF CollectReturn, In
<1>11. CASE ResolveEntered
  BY <1>11, ResolveControl DEF ResolveEntered
<1>12. CASE ResolveUse
  BY <1>12, ResolveControl DEF ResolveUse
<1>13. CASE ResolveImport
  BY <1>13, ResolveControl DEF ResolveImport
<1>14. CASE ResolveOther
  BY <1>14, ResolveControl DEF ResolveOther
<1>15. CASE ResolveReturn
  BY <1>15, ReturnControl DEF ResolveReturn, In
<1>16. CASE LoadCompiled
  BY <1>16, LoadCompiledControl
<1>17. CASE LoadProvider
  BY <1>17, LoadProviderControl
<1>18. CASE LoadCyclic
  BY <1>18, TreeStays DEF LoadCyclic, Control, Chain, FrameOK, Awaits, Supported, Nested, Depth
<1>19. CASE LoadReturn
  BY <1>19, ReturnControl DEF LoadReturn, In
<1> QED
  BY <1>1, <1>2, <1>3, <1>4, <1>5, <1>6, <1>7, <1>8, <1>9, <1>10, <1>11, <1>12, <1>13, <1>14, <1>15,
     <1>16, <1>17, <1>18, <1>19 DEF Next, Step, Ended

LEMMA ControlInit ==
  ASSUME Init
  PROVE  Control
<1> DEFINE c == Call("compile", Main, Root(Main))
<1>1. InTree /\ compiled = {} /\ stack = <<c>> /\ outcome = "running"
  BY DEF Init, InTree, Call
<1>2. Main \in File
  BY NamesAssumption
<1>3. Root(Main) \in Node /\ Root(Main) \in Nat
  BY <1>1, <1>2, RootFacts, TreeFacts
<1>4. c \in Frame /\ c.op = "compile" /\ c.unit = Main /\ c.node = Root(Main) /\ c.at = 0
  BY <1>2, <1>3, CallIsFrame
<1> HIDE DEF c
<1>5. stack \in Seq(Frame) /\ Len(stack) = 1 /\ stack[1] = c
  BY <1>1, <1>4
<1>6. FrameOK(c)
  BY <1>1, <1>4 DEF FrameOK, Walk, Subtree
<1>7. Depth = {1} /\ 1 .. Len(stack) - 1 = {}
  BY <1>5 DEF Depth
<1>8. Chain
  BY <1>4, <1>5, <1>6, <1>7 DEF Chain, Supported, Nested
<1> QED
  BY <1>1, <1>5, <1>8 DEF Control

LEMMA ControlHolds == Spec => []Control
BY ControlInit, ControlStep, PTL DEF Spec
-----------------------------------------------------------------------------
(* Where the nodes below the call on top are not.                          *)
LEMMA BelowTop ==
  ASSUME Control, stack # << >>, NEW x \in Subtree(Top.node),
         NEW i \in 1 .. Len(stack) - 1, stack[i].op \in Walk
  PROVE  /\ \A k \in Kids(stack[i].node) : k # stack[i].at => x \notin Subtree(k)
         /\ x # stack[i].node /\ stack[i].node \notin Subtree(x)
<1> DEFINE N == Len(stack)
           n == stack[i].node
           a == stack[i].at
<1>1. /\ N \in Depth /\ i \in Depth /\ i < N /\ Top = stack[N] /\ InTree /\ n \in Node /\ Top.node \in Node
      /\ FrameOK(stack[i]) /\ FrameOK(Top) /\ stack[i].unit \in File /\ Top.unit \in File
  BY TopFacts, StackFacts DEF Control
<1>2. x \in Node /\ x \in Subtree(Root(Top.unit)) /\ Subtree(x) \subseteq Subtree(Root(Top.unit)) /\ x \in Subtree(x)
  <2>1. Root(Top.unit) \in Node /\ Top.node \in Subtree(Root(Top.unit))
    BY <1>1, RootFacts DEF FrameOK
  <2>2. x \in Subtree(Root(Top.unit))
    BY <1>1, <2>1, SubtreeFacts
  <2> QED
    BY <1>1, <2>1, <2>2, SubtreeFacts
<1>3. CASE stack[i].unit = Top.unit
  <2>1. a \in Kids(n) /\ Top.node \in Subtree(a)
    BY <1>1, <1>3 DEF Control, Chain, Nested
  <2>2. a \in Node
    BY <1>1, <2>1, KidFacts
  <2>3. x \in Subtree(a) /\ Subtree(x) \subseteq Subtree(a)
    <3>1. x \in Subtree(a)
      BY <1>1, <2>1, <2>2, SubtreeFacts
    <3> QED
      BY <1>1, <2>2, <3>1, SubtreeFacts
  <2>4. n \notin Subtree(a)
    BY <1>1, <2>1, ParentOutside
  <2>5. ASSUME NEW k \in Kids(n), k # a PROVE x \notin Subtree(k)
    BY <1>1, <2>1, <2>3, <2>5, KidsApart
  <2> QED
    BY <2>3, <2>4, <2>5
<1>4. CASE stack[i].unit # Top.unit
  <2>1. n \in Subtree(Root(stack[i].unit)) /\ Root(stack[i].unit) \in Node
    BY <1>1, RootFacts DEF FrameOK
  <2>2. Subtree(n) \subseteq Subtree(Root(stack[i].unit))
    BY <1>1, <2>1, SubtreeFacts
  <2>3. ASSUME NEW k \in Kids(n) PROVE Subtree(k) \subseteq Subtree(n)
    BY <1>1, KidFacts, SubtreeFacts
  <2>4. \A m : ~(m \in Subtree(Root(stack[i].unit)) /\ m \in Subtree(Root(Top.unit)))
    BY <1>1, <1>4, FilesApart
  <2> QED
    BY <1>2, <2>1, <2>2, <2>3, <2>4
<1> QED
  BY <1>3, <1>4

(* The same for a child that the walk on top comes to.                     *)
LEMMA ComesTo ==
  ASSUME Control, stack # << >>, Top.op \in Walk, NEW n \in Kids(Top.node), n > Top.at
  PROVE  /\ n \in Node /\ Top.node \in Node /\ n \in Subtree(Root(Top.unit))
         /\ \A f \in File : n \in Subtree(Root(f)) => f = Top.unit
         /\ \A i \in Depth : stack[i].op \in Walk => stack[i].node \notin Subtree(n) /\ stack[i].node # n
         /\ \A i \in 1 .. Len(stack) - 1 : stack[i].op \in Walk =>
              \A k \in Kids(stack[i].node) : k > stack[i].at => n \notin Subtree(k)
         /\ \A k \in Kids(Top.node) : k > n => n \notin Subtree(k)
         /\ \A k \in Kids(n) : n \notin Subtree(k)
<1>1. /\ Len(stack) \in Nat \ {0} /\ Depth = 1 .. Len(stack) /\ Top = stack[Len(stack)] /\ InTree
      /\ Top.node \in Node /\ Top.unit \in File /\ FrameOK(Top)
      /\ n \in Node /\ n \in Subtree(Top.node) /\ n \in Nat
  BY TopFacts, StackFacts, KidFacts, TreeFacts DEF Control
<1>2. n \in Subtree(Root(Top.unit))
  <2>1. Root(Top.unit) \in Node /\ Top.node \in Subtree(Root(Top.unit))
    BY <1>1, RootFacts DEF FrameOK
  <2> QED
    BY <1>1, <2>1, SubtreeFacts
<1>3. \A f \in File : n \in Subtree(Root(f)) => f = Top.unit
  BY <1>1, <1>2, FilesApart
<1>4. ASSUME NEW i \in Depth, stack[i].op \in Walk PROVE stack[i].node \notin Subtree(n) /\ stack[i].node # n
  <2>0. n \in Subtree(n)
    BY <1>1, SubtreeFacts
  <2>1. CASE i = Len(stack)
    BY <1>1, <2>0, <2>1, ParentOutside
  <2>2. CASE i # Len(stack)
    <3>1. i \in 1 .. Len(stack) - 1
      BY <1>1, <2>2
    <3> QED
      BY <1>1, <1>4, <3>1, BelowTop
  <2> QED
    BY <2>1, <2>2
<1>5. ASSUME NEW i \in 1 .. Len(stack) - 1, stack[i].op \in Walk,
             NEW k \in Kids(stack[i].node), k > stack[i].at
      PROVE  n \notin Subtree(k)
  <2>1. i \in Depth
    BY <1>1
  <2>2. stack[i].at \in Nat /\ stack[i].node \in Node
    BY <2>1, StackFacts
  <2>3. k \in Nat
    BY <1>1, <2>2, KidFacts, TreeFacts
  <2>4. k # stack[i].at
    BY <1>5, <2>2, <2>3
  <2> QED
    BY <1>1, <1>5, <2>4, BelowTop
<1>6. ASSUME NEW k \in Kids(Top.node), k > n PROVE n \notin Subtree(k)
  <2>1. k \in Nat
    BY <1>1, KidFacts, TreeFacts
  <2>2. k # n
    BY <1>1, <1>6, <2>1
  <2> QED
    BY <1>1, <2>2, KidsApart
<1>7. \A k \in Kids(n) : n \notin Subtree(k)
  BY <1>1, ParentOutside
<1> QED
  BY <1>1, <1>2, <1>3, <1>4, <1>5, <1>6, <1>7

(* How far the compilation of a file is.                                   *)
LEMMA StageOfCall ==
  ASSUME Control, NEW i \in Depth
  PROVE  /\ stack[i].op # "compile" => Reaches(stack[i].unit, 1)
         /\ stack[i].op \notin {"compile", "collect"} => Reaches(stack[i].unit, 2)
         /\ stack[i].op = "collect" => ~Reaches(stack[i].unit, 2)
         /\ stack[i].op = "compile" /\ stack[i].at < 1 => ~Reaches(stack[i].unit, 1)
         /\ stack[i].op = "compile" /\ stack[i].at < 2 => ~Reaches(stack[i].unit, 2)
         /\ stack[i].unit \notin compiled
<1>1. /\ Depth = 1 .. Len(stack) /\ Len(stack) \in Nat
      /\ \A j \in Depth : /\ FrameOK(stack[j]) /\ stack[j].at \in Nat
                          /\ stack[j].op \in {"compile", "collect", "resolve", "load"}
  BY StackFacts
<1>2. ASSUME NEW j \in Depth, stack[j].op = "compile", NEW l \in Depth, stack[l].op = "compile",
             stack[l].unit = stack[j].unit
      PROVE  l = j
  <2>1. ~(l < j) /\ ~(j < l)
    BY <1>2 DEF Control, Chain, Nested
  <2> QED
    BY <1>1, <2>1
<1>3. CASE stack[i].op = "compile"
  <2>1. stack[i].unit \notin compiled
    BY <1>1, <1>3 DEF FrameOK
  <2>2. \A l \in Depth : stack[l].op = "compile" /\ stack[l].unit = stack[i].unit => stack[l].at = stack[i].at
    BY <1>2, <1>3
  <2>3. stack[i].at < 1 => ~Reaches(stack[i].unit, 1)
    BY <1>1, <2>1, <2>2 DEF Reaches
  <2>4. stack[i].at < 2 => ~Reaches(stack[i].unit, 2)
    BY <1>1, <2>1, <2>2 DEF Reaches
  <2> QED
    BY <1>3, <2>1, <2>3, <2>4
<1>4. CASE stack[i].op # "compile"
  <2>1. PICK j \in 1 .. i - 1 : /\ stack[j].op = "compile" /\ stack[j].unit = stack[i].unit
                                 /\ stack[j].at = IF stack[i].op = "collect" THEN 1 ELSE 2
    BY <1>4 DEF Control, Chain, Supported
  <2>2. j \in Depth
    BY <1>1, <2>1
  <2>3. stack[i].unit \notin compiled
    BY <1>1, <2>1, <2>2 DEF FrameOK
  <2>4. \A l \in Depth : stack[l].op = "compile" /\ stack[l].unit = stack[i].unit => stack[l].at = stack[j].at
    BY <1>2, <2>1, <2>2
  <2>5. Reaches(stack[i].unit, 1)
    BY <1>1, <2>1, <2>2 DEF Reaches
  <2>6. stack[i].op \notin {"compile", "collect"} => Reaches(stack[i].unit, 2)
    BY <1>1, <2>1, <2>2 DEF Reaches
  <2>7. stack[i].op = "collect" => ~Reaches(stack[i].unit, 2)
    BY <1>1, <2>1, <2>3, <2>4 DEF Reaches
  <2> QED
    BY <1>4, <2>3, <2>5, <2>6, <2>7
<1> QED
  BY <1>3, <1>4

LEMMA ReachesStays ==
  ASSUME Control, stack # << >>, Top.op # "compile", compiled' = compiled, NEW k \in Nat,
         \/ stack' = At(k)
         \/ stack' = Below
         \/ \E c \in Frame : stack' = Append(At(k), c) /\ (c.op = "compile" => c.at = 0)
  PROVE  \A f, s : s \in {1, 2} => (Reaches(f, s)' <=> Reaches(f, s))
<1> DEFINE N == Len(stack)
           Runs(c, f, s) == c.op = "compile" /\ c.unit = f /\ c.at >= s
<1>1. N \in Nat \ {0} /\ Depth = 1 .. N /\ Top = stack[N]
  BY TopFacts DEF Depth
<1>2. ~(AtPlace(Top, k).op = "compile")
  BY TopFacts, PlacedFrame
<1>3. /\ Depth' \in {1 .. N - 1, 1 .. N, 1 .. N + 1}
      /\ \A i \in 1 .. N - 1 : stack'[i] = stack[i]
      /\ N \in Depth' => stack'[N] = AtPlace(Top, k)
      /\ N + 1 \in Depth' /\ stack'[N + 1].op = "compile" => stack'[N + 1].at = 0
  <2>1. CASE stack' = At(k)
    BY <1>1, <2>1, AtStack DEF Depth
  <2>2. CASE stack' = Below
    BY <1>1, <2>2, BelowStack DEF Depth
  <2>3. CASE \E c \in Frame : stack' = Append(At(k), c) /\ (c.op = "compile" => c.at = 0)
    <3>1. PICK c \in Frame : stack' = Append(At(k), c) /\ (c.op = "compile" => c.at = 0)
      BY <2>3
    <3> QED
      BY <1>1, <3>1, EnterStack DEF Depth
  <2> QED
    BY <2>1, <2>2, <2>3
<1> HIDE DEF N
<1>4. ASSUME NEW f, NEW s \in {1, 2} PROVE Reaches(f, s)' <=> Reaches(f, s)
  <2>1. (\E i \in Depth' : Runs(stack'[i], f, s)) <=> \E i \in 1 .. N - 1 : Runs(stack[i], f, s)
    <3>1. \A i \in Depth' : i \in 1 .. N - 1 \/ i = N \/ i = N + 1
      BY <1>1, <1>3
    <3>2. \A i \in 1 .. N - 1 : i \in Depth'
      BY <1>1, <1>3
    <3> QED
      BY <1>2, <1>3, <3>1, <3>2
  <2>2. (\E i \in Depth : Runs(stack[i], f, s)) <=> \E i \in 1 .. N - 1 : Runs(stack[i], f, s)
    BY <1>1
  <2> QED
    BY <2>1, <2>2 DEF Reaches
<1> QED
  BY <1>4
-----------------------------------------------------------------------------
(* The order of the loads: the resolver comes to every import that counts, *)
(* and what it has come past is compiled.                                  *)
Linking == Control /\ Linked
Settles(k) == \A n \in Subtree(k) : Sure(n) => Loaded(n)

LEMMA OnTheWay ==
  ASSUME InTree, NEW p \in Node, NEW k \in Kids(p), NEW m \in Subtree(k), Sure(m)
  PROVE  k \in Resolved(p)
<1>1. k \in Node /\ IsAbove(p, k) /\ m \in Node /\ (m # k => IsAbove(k, m))
  BY KidFacts, SubtreeFacts
<1>2. IsAbove(p, m)
  BY <1>1, AboveTransitive
<1>3. p \in Ancestors(m) /\ k \in Ancestors(m) \cup {m}
  BY <1>1, <1>2, AncestorFacts
<1>4. Kind(p) \in Kinds
  BY TreeFacts DEF TreeNode, Kind
<1>5. /\ Kind(p) \notin Skipped \cup NeedsSymbol \cup {"assignment", "struct literal"}
      /\ Kind(p) = "block" => k \in Items(p)
  BY <1>3 DEF Sure, AlwaysVisited
<1>6. CASE Kind(p) = "block"
  BY <1>5, <1>6 DEF Resolved
<1>7. CASE Kind(p) # "block"
  <2>1. Kind(p) \in {"root", "module", "init", "function", "struct", "enum", "field", "variant",
                     "variable", "statement", "expression", "member"}
    BY <1>4, <1>5, <1>7 DEF Kinds, Opening, Leaf, Use, Expression, Skipped, NeedsSymbol
  <2> QED
    BY <2>1 DEF Resolved, NeedsSymbol, Skipped
<1> QED
  BY <1>6, <1>7

LEMMA UnresolvedSettles ==
  ASSUME InTree, NEW p \in Node, NEW k \in Kids(p), k \notin Resolved(p)
  PROVE  Settles(k)
BY OnTheWay DEF Settles

LEMMA KidsSettle ==
  ASSUME InTree, NEW p \in Node, ~Sure(p) \/ Loaded(p), \A k \in Kids(p) : Settles(k)
  PROVE  Settles(p)
BY BelowIsBelowKid DEF Settles

LEMMA NothingBelowImport ==
  ASSUME InTree, NEW p \in Node, NEW k \in Kids(p), Kind(p) = "import"
  PROVE  Settles(k)
<1>1. k \notin Resolved(p)
  BY DEF Resolved, NeedsSymbol, Skipped
<1> QED
  BY <1>1, UnresolvedSettles

LEMMA SettlesGrows ==
  ASSUME tree' = tree, compiled \subseteq compiled'
  PROVE  /\ \A n : Sure(n)' <=> Sure(n)
         /\ \A m : Providers(m)' = Providers(m)
         /\ \A n : Loaded(n) => Loaded(n)'
         /\ \A k : Settles(k) => Settles(k)'
         /\ \A f : UsedBy(f)' = UsedBy(f)
<1>1. /\ Node' = Node
      /\ \A n : Kind(n)' = Kind(n) /\ NameOf(n)' = NameOf(n)
      /\ \A m, n : IsAbove(m, n)' <=> IsAbove(m, n)
      /\ \A n : Kids(n)' = Kids(n) /\ Subtree(n)' = Subtree(n) /\ Ancestors(n)' = Ancestors(n)
      /\ \A f : Root(f)' = Root(f)
  BY TreeStays
<1>2. \A n : Items(n)' = Items(n)
  BY <1>1 DEF Items
<1>3. \A n : AlwaysVisited(n)' <=> AlwaysVisited(n)
  BY <1>1, <1>2 DEF AlwaysVisited
<1>4. \A n : Sure(n)' <=> Sure(n)
  BY <1>1, <1>3 DEF Sure
<1>5. \A f, m : Declares(f, m)' <=> Declares(f, m)
  BY <1>1 DEF Declares
<1>6. \A m : Providers(m)' = Providers(m)
  BY <1>5 DEF Providers
<1>7. \A n : Loaded(n) => Loaded(n)'
  BY <1>1, <1>6 DEF Loaded
<1>8. \A k : Settles(k) => Settles(k)'
  BY <1>1, <1>4, <1>7 DEF Settles
<1>9. \A f : UsedBy(f)' = UsedBy(f)
  BY <1>1, <1>3, <1>5 DEF UsedBy
<1> QED
  BY <1>4, <1>6, <1>7, <1>8, <1>9

(* A walk through a file leaves what the file uses compiled.               *)
LEMMA SettledRoot ==
  ASSUME InTree, NEW f \in File, Settles(Root(f))
  PROVE  UsedBy(f) \subseteq compiled
<1> SUFFICES ASSUME NEW g \in UsedBy(f) PROVE g \in compiled
  OBVIOUS
<1>1. PICK n \in Node : /\ Kind(n) = "import" /\ IsAbove(Root(f), n) /\ AlwaysVisited(n)
                        /\ Declares(g, NameOf(n))
  BY DEF UsedBy
<1>2. PICK j \in DOMAIN Listed : g = Listed[j]
  BY DEF UsedBy, Elements
<1>3. n \in Subtree(Root(f)) /\ Sure(n)
  BY <1>1 DEF Subtree, Sure
<1>4. j \in Providers(NameOf(n))
  BY <1>1, <1>2 DEF Providers
<1> QED
  BY <1>2, <1>3, <1>4 DEF Settles, Loaded

(* A call that nothing happens to.                                         *)
LEMMA CallStays ==
  ASSUME NEW i, LinkedAt(i), tree' = tree, compiled \subseteq compiled',
         stack'[i] = stack[i], stack'[i].op = "compile" /\ i > 1 => stack'[i - 1].at = stack[i - 1].at,
         i = Len(stack') => i = Len(stack)
  PROVE  LinkedAt(i)'
<1>1. /\ \A n : Sure(n)' <=> Sure(n)
      /\ \A m : Providers(m)' = Providers(m)
      /\ \A k : Settles(k) => Settles(k)'
      /\ \A f : UsedBy(f)' = UsedBy(f)
  BY SettlesGrows
<1>2. \A k : Past(i, k)' => Past(i, k)
  BY DEF Past
<1>3. /\ \A n : Kids(n)' = Kids(n) /\ Kind(n)' = Kind(n) /\ NameOf(n)' = NameOf(n)
  BY TreeStays
<1>4. (stack[i].op = "compile" =>
         /\ i = 1 => stack[i].unit = Main
         /\ i > 1 => stack[i - 1].at \in DOMAIN Listed /\ stack[i].unit = Listed[stack[i - 1].at]
         /\ stack[i].at = 2 /\ i = Len(stack) => UsedBy(stack[i].unit) \subseteq compiled)'
  BY <1>1 DEF LinkedAt
<1>5. (stack[i].op = "resolve" =>
         /\ Kind(stack[i].node) # "import"
         /\ \A k \in Kids(stack[i].node) : Past(i, k) => Settles(k))'
  BY <1>1, <1>2, <1>3 DEF LinkedAt, Settles
<1>6. (stack[i].op = "load" =>
         \A j \in Providers(NameOf(stack[i].node)) : Past(i, j) => Listed[j] \in compiled)'
  BY <1>1, <1>2, <1>3 DEF LinkedAt
<1> QED
  BY <1>4, <1>5, <1>6 DEF LinkedAt, Settles

(* What a step does to the call on top, and to those under it.             *)
LEMMA TopMoves ==
  ASSUME Control, stack # << >>, NEW k \in Nat, NEW N, N = Len(stack), stack' = At(k)
  PROVE  /\ Len(stack') = N
         /\ stack'[N].op = Top.op /\ stack'[N].node = Top.node /\ stack'[N].unit = Top.unit
         /\ stack'[N].at = k
<1>1. Len(stack') = N /\ stack'[N] = AtPlace(Top, k)
  BY AtStack
<1>2. Top \in Frame
  BY TopFacts
<1> QED
  BY <1>1, <1>2, PlacedFrame

LEMMA TopEnters ==
  ASSUME Control, stack # << >>, NEW k \in Nat, NEW c \in Frame, NEW N, N = Len(stack),
         stack' = Append(At(k), c)
  PROVE  /\ Len(stack') = N + 1 /\ stack'[N + 1] = c
         /\ stack'[N].op = Top.op /\ stack'[N].node = Top.node /\ stack'[N].unit = Top.unit
         /\ stack'[N].at = k
<1>1. Len(stack') = N + 1 /\ stack'[N + 1] = c /\ stack'[N] = AtPlace(Top, k)
  BY EnterStack
<1>2. Top \in Frame
  BY TopFacts
<1>3. /\ AtPlace(Top, k).op = Top.op /\ AtPlace(Top, k).node = Top.node /\ AtPlace(Top, k).unit = Top.unit
      /\ AtPlace(Top, k).at = k
  BY <1>2, PlacedFrame
<1> QED
  BY <1>1, <1>3

LEMMA UnderStays ==
  ASSUME Linking, stack # << >>, tree' = tree, compiled \subseteq compiled',
         \/ \E k \in Nat : \/ stack' = At(k)
                           \/ \E c \in Frame : stack' = Append(At(k), c)
         \/ stack' = Below
  PROVE  /\ \A i \in 1 .. Len(stack) - 1 : i < Len(stack') => LinkedAt(i)'
         /\ \A i \in 1 .. Len(stack) - 1 : Len(stack') > i => stack'[i] = stack[i]
<1>1. PICK N \in Nat \ {0} : N = Len(stack) /\ Depth = 1 .. N
  BY TopFacts DEF Depth, Linking
<1>2. \A i \in 1 .. N - 1 : stack'[i] = stack[i]
  <2>1. Control
    BY DEF Linking
  <2>2. CASE \E k \in Nat : stack' = At(k)
    BY <1>1, <2>1, <2>2, AtStack
  <2>3. CASE \E k \in Nat : \E c \in Frame : stack' = Append(At(k), c)
    BY <1>1, <2>1, <2>3, EnterStack
  <2>4. CASE stack' = Below
    BY <1>1, <2>1, <2>4, BelowStack
  <2> QED
    BY <2>2, <2>3, <2>4
<1>3. ASSUME NEW i \in 1 .. N - 1, i < Len(stack') PROVE LinkedAt(i)'
  <2>1. LinkedAt(i)
    BY <1>1 DEF Linking, Linked
  <2>2. i > 1 => i - 1 \in 1 .. N - 1
    BY <1>1
  <2>3. stack'[i] = stack[i] /\ (i > 1 => stack'[i - 1] = stack[i - 1])
    BY <1>2, <2>2
  <2>4. ~(i = Len(stack'))
    BY <1>1, <1>3, LenProperties
  <2> QED
    BY <2>1, <2>3, <2>4, CallStays
<1> QED
  BY <1>1, <1>2, <1>3

LEMMA UnderEnter ==
  ASSUME Control, stack # << >>, NEW k \in Nat, NEW c \in Frame, NEW N, N = Len(stack),
         stack' = Append(At(k), c)
  PROVE  \A i \in 1 .. N - 1 : stack'[i] = stack[i]
BY EnterStack

(* The walk on top comes to n, and everything before n is settled.         *)
LEMMA ComesToSettled ==
  ASSUME Linking, Resolving
  PROVE  \A k \in Kids(Top.node) : k < Resolvee => Settles(k)
<1>1. /\ stack # << >> /\ Top.op = "resolve" /\ InTree /\ Resolvee \in Node
      /\ \A k \in Resolved(Top.node) : k > Top.at => Resolvee <= k
  BY ResolveeFacts DEF Linking, Control
<1>2. /\ Len(stack) \in Depth /\ Top = stack[Len(stack)] /\ Top.node \in Node /\ Top.at \in Nat
  BY <1>1, TopFacts DEF Linking
<1>3. LinkedAt(Len(stack))
  BY <1>2 DEF Linking, Linked
<1> SUFFICES ASSUME NEW k \in Kids(Top.node), k < Resolvee PROVE Settles(k)
  OBVIOUS
<1>4. k \in Nat /\ Resolvee \in Nat
  BY <1>1, <1>2, KidFacts, TreeFacts
<1>5. CASE k <= Top.at
  <2>1. Past(Len(stack), k)
    BY <1>2, <1>4, <1>5 DEF Past
  <2> QED
    BY <1>1, <1>2, <1>3, <2>1 DEF LinkedAt, Settles
<1>6. CASE k > Top.at
  <2>1. k \notin Resolved(Top.node)
    BY <1>1, <1>4, <1>6
  <2> QED
    BY <1>1, <1>2, <2>1, UnresolvedSettles
<1> QED
  BY <1>2, <1>4, <1>5, <1>6

(* The walk on top is through with its node.                               *)
LEMMA ReturnsSettled ==
  ASSUME Linking, In("resolve"), Left(Resolved(Top.node)) = {}
  PROVE  Settles(Top.node)
<1>1. stack # << >> /\ Top.op = "resolve" /\ InTree
  BY DEF In, Linking, Control
<1>2. /\ Len(stack) \in Depth /\ Top = stack[Len(stack)] /\ Top.node \in Node /\ Top.at \in Nat
  BY <1>1, TopFacts DEF Linking
<1>3. LinkedAt(Len(stack))
  BY <1>2 DEF Linking, Linked
<1>4. ASSUME NEW k \in Kids(Top.node) PROVE Settles(k)
  <2>1. k \in Nat
    BY <1>1, <1>2, KidFacts, TreeFacts
  <2>2. CASE k <= Top.at
    <3>1. Past(Len(stack), k)
      BY <1>2, <2>1, <2>2 DEF Past
    <3> QED
      BY <1>1, <1>2, <1>3, <3>1 DEF LinkedAt, Settles
  <2>3. CASE k > Top.at
    <3>1. k \notin Resolved(Top.node)
      BY <2>3 DEF Left
    <3> QED
      BY <1>1, <1>2, <3>1, UnresolvedSettles
  <2> QED
    BY <1>2, <2>1, <2>2, <2>3
<1>5. ~Sure(Top.node)
  BY <1>1, <1>2, <1>3 DEF LinkedAt, Sure
<1> QED
  BY <1>1, <1>2, <1>4, <1>5, KidsSettle

(* The steps.                                                              *)
LEMMA CollectorLinks ==
  ASSUME Linking, stack # << >>, Top.op = "collect", UNCHANGED <<tree, compiled>>,
         \/ \E k \in Nat : stack' = At(k)
         \/ \E n \in Nat : stack' = Enter("collect", n)
         \/ stack' = Below
  PROVE  Linked'
<1>1. PICK N \in Nat \ {0} :
        /\ N = Len(stack) /\ Depth = 1 .. N /\ Top = stack[N] /\ Top \in Frame /\ Top.unit \in File
        /\ Top.op = "collect" /\ compiled \subseteq compiled' /\ Control
  BY TopFacts DEF Depth, Linking
<1>2. \A f \in compiled' : UsedBy(f)' \subseteq compiled'
  BY SettlesGrows DEF Linking, Linked
<1>3. CASE \E k \in Nat : stack' = At(k)
  <2>1. PICK k \in Nat : stack' = At(k)
    BY <1>3
  <2>2. Len(stack') = N /\ stack'[N].op = "collect"
    BY <1>1, <2>1, TopMoves
  <2>3. \A i \in 1 .. N - 1 : LinkedAt(i)'
    BY <1>1, <2>1, <2>2, UnderStays
  <2>4. LinkedAt(N)'
    BY <2>2 DEF LinkedAt
  <2> QED
    BY <1>1, <1>2, <2>2, <2>3, <2>4 DEF Linked, Depth
<1>4. CASE \E n \in Nat : stack' = Enter("collect", n)
  <2>1. PICK n \in Nat : stack' = Append(At(n), Call("collect", Top.unit, n))
    BY <1>4 DEF Enter
  <2>2. PICK c \in Frame : c = Call("collect", Top.unit, n) /\ c.op = "collect"
    BY <1>1, CallIsFrame
  <2>6. stack' = Append(At(n), c)
    BY <2>1, <2>2
  <2>3. Len(stack') = N + 1 /\ stack'[N].op = "collect" /\ stack'[N + 1].op = "collect"
    BY <1>1, <2>2, <2>6, TopEnters
  <2>4. \A i \in 1 .. N - 1 : LinkedAt(i)'
    BY <1>1, <2>2, <2>3, <2>6, UnderStays
  <2>5. LinkedAt(N)' /\ LinkedAt(N + 1)'
    BY <2>3 DEF LinkedAt
  <2> QED
    BY <1>1, <1>2, <2>3, <2>4, <2>5 DEF Linked, Depth
<1>5. CASE stack' = Below
  <2>1. Len(stack') = N - 1 /\ \A i \in 1 .. N - 1 : stack'[i] = stack[i]
    BY <1>1, <1>5, BelowStack
  <2>2. \A i \in 1 .. N - 2 : LinkedAt(i)'
    BY <1>1, <1>5, <2>1, UnderStays
  <2>3. N > 1 => LinkedAt(N - 1)'
    <3> HAVE N > 1
    <3>1. N - 1 \in 1 .. Len(stack) - 1 /\ N - 1 + 1 = N
      BY <1>1
    <3>2. Awaits(stack[N - 1], stack[N])
      BY <1>1, <3>1 DEF Control, Chain
    <3>3. stack'[N - 1] = stack[N - 1]
      BY <2>1, <3>1
    <3>4. stack[N - 1].op = "compile" \/ stack[N - 1].op = "collect"
      BY <1>1, <3>2 DEF Awaits, Walk
    <3>5. stack[N - 1].op = "compile" => stack[N - 1].at = 1
      BY <1>1, <3>2 DEF Awaits, Walk
    <3>6. LinkedAt(N - 1)
      BY <1>1, <3>1 DEF Linking, Linked
    <3>7. N - 1 > 1 => stack'[N - 1 - 1] = stack[N - 1 - 1]
      <4> HAVE N - 1 > 1
      <4>1. N - 1 - 1 \in 1 .. N - 1
        BY <1>1
      <4> QED
        BY <2>1, <4>1
    <3>8. CASE stack[N - 1].op = "compile"
      <4>1. stack[N - 1].at # 2
        BY <3>5, <3>8
      <4> QED
        BY <3>3, <3>6, <3>7, <3>8, <4>1 DEF LinkedAt
    <3>9. CASE stack[N - 1].op = "collect"
      BY <3>3, <3>9 DEF LinkedAt
    <3> QED
      BY <3>4, <3>8, <3>9
  <2> QED
    BY <1>1, <1>2, <2>1, <2>2, <2>3 DEF Linked, Depth
<1> QED
  BY <1>3, <1>4, <1>5

LEMMA ResolverLinks ==
  ASSUME Linking, Resolving, UNCHANGED <<tree, compiled>>,
         \/ stack' = At(Resolvee) /\ Settles(Resolvee)
         \/ stack' = Enter("resolve", Resolvee) /\ Kind(Resolvee) # "import"
         \/ stack' = Enter("load", Resolvee)
  PROVE  Linked'
<1>1. PICK n \in Node :
        /\ n = Resolvee /\ n \in Kids(Top.node) /\ stack # << >> /\ Top.op = "resolve" /\ InTree /\ Control
        /\ compiled \subseteq compiled'
  BY ResolveeFacts DEF Linking, Control
<1>2. PICK N \in Nat \ {0} :
        /\ N = Len(stack) /\ Depth = 1 .. N /\ Top = stack[N] /\ Top \in Frame /\ Top.unit \in File
        /\ Top.node \in Node /\ n \in Nat
  BY <1>1, TopFacts, TreeFacts DEF Depth
<1>3. /\ \A f \in compiled' : UsedBy(f)' \subseteq compiled'
      /\ \A k : Settles(k) => Settles(k)'
      /\ \A m : Kids(m)' = Kids(m) /\ Kind(m)' = Kind(m)
  BY <1>1, SettlesGrows, TreeStays DEF Linking, Linked
<1>4. \A k \in Kids(Top.node) : k < n => Settles(k)
  BY <1>1, ComesToSettled
<1>5. Kind(Top.node) # "import"
  BY <1>1, <1>2 DEF Linking, Linked, LinkedAt
<1>6. ASSUME stack'[N].op = "resolve" /\ stack'[N].node = Top.node /\ stack'[N].at = n,
             Len(stack') = N => Settles(n)
      PROVE  LinkedAt(N)'
  <2>1. stack'[N].op = "resolve" /\ stack'[N].node = Top.node /\ stack'[N].at = n
    BY <1>6
  <2>2. ASSUME NEW k \in Kids(Top.node), Past(N, k)' PROVE Settles(k)'
    <3>1. k < n \/ (k = n /\ N = Len(stack'))
      BY <2>1, <2>2 DEF Past
    <3> QED
      BY <1>3, <1>4, <1>6, <3>1
  <2>3. \A k \in Kids(stack[N].node)' : Past(N, k)' => Settles(k)'
    BY <1>3, <2>1, <2>2
  <2> QED
    BY <1>3, <1>5, <2>1, <2>3 DEF LinkedAt, Settles
<1>7. CASE stack' = At(Resolvee) /\ Settles(Resolvee)
  <2>1. stack' = At(n) /\ Settles(n)
    BY <1>1, <1>7
  <2>2. Len(stack') = N /\ stack'[N].op = "resolve" /\ stack'[N].node = Top.node /\ stack'[N].at = n
    BY <1>1, <1>2, <2>1, TopMoves
  <2>3. \A i \in 1 .. N - 1 : LinkedAt(i)'
    BY <1>1, <1>2, <2>1, <2>2, UnderStays
  <2>4. LinkedAt(N)'
    BY <1>2, <1>6, <2>1, <2>2
  <2> QED
    BY <1>2, <1>3, <2>2, <2>3, <2>4 DEF Linked, Depth
<1>8. CASE \/ stack' = Enter("resolve", Resolvee) /\ Kind(Resolvee) # "import"
           \/ stack' = Enter("load", Resolvee)
  <2>1. PICK op \in {"resolve", "load"} : /\ stack' = Append(At(n), Call(op, Top.unit, n))
                                          /\ op = "resolve" => Kind(n) # "import"
    BY <1>1, <1>8 DEF Enter
  <2>2. PICK c \in Frame : /\ c = Call(op, Top.unit, n)
                            /\ c.op = op /\ c.node = n /\ c.at = 0
    BY <1>2, CallIsFrame
  <2>3. stack' = Append(At(n), c)
    BY <2>1, <2>2
  <2>4. /\ Len(stack') = N + 1 /\ stack'[N + 1] = c
        /\ stack'[N].op = "resolve" /\ stack'[N].node = Top.node /\ stack'[N].at = n
    BY <1>1, <1>2, <2>3, TopEnters
  <2>5. \A i \in 1 .. N - 1 : LinkedAt(i)'
    <3>1. n \in Nat /\ stack # << >> /\ N = Len(stack) /\ \A i \in 1 .. N - 1 : i < Len(stack')
      BY <1>1, <1>2, <2>4
    <3> QED
      BY <1>1, <2>3, <3>1, UnderStays
  <2>6. LinkedAt(N)'
    BY <1>2, <1>6, <2>4
  <2>7. LinkedAt(N + 1)'
    <3>1. \A k \in Nat : k > 0 => ~Past(N + 1, k)'
      BY <2>2, <2>4 DEF Past
    <3>2. \A k \in Kids(n)' : k \in Nat /\ k > 0
      <4>1. \A k \in Kids(n) : k > n /\ k \in Nat
        BY <1>1, KidFacts, TreeFacts
      <4> QED
        BY <1>1, <1>3, <4>1, TreeFacts
    <3>3. \A m : \A j \in Providers(m)' : j \in Nat /\ j > 0
      <4>1. Listed \in Seq(File)
        BY NamesAssumption
      <4>2. DOMAIN Listed = 1 .. Len(Listed) /\ Len(Listed) \in Nat
        BY <4>1, LenProperties
      <4> QED
        BY <4>2 DEF Providers
    <3>4. CASE op = "resolve"
      <4>1. \A k \in Kids(stack[N + 1].node)' : ~Past(N + 1, k)'
        BY <2>2, <2>4, <3>1, <3>2
      <4> QED
        BY <1>3, <2>1, <2>2, <2>4, <3>4, <4>1 DEF LinkedAt
    <3>5. CASE op = "load"
      <4>1. \A j \in Providers(NameOf(n))' : ~Past(N + 1, j)'
        BY <3>1, <3>3
      <4> QED
        BY <2>2, <2>4, <3>5, <4>1 DEF LinkedAt
    <3> QED
      BY <3>4, <3>5
  <2> QED
    BY <1>2, <1>3, <2>4, <2>5, <2>6, <2>7 DEF Linked, Depth
<1> QED
  BY <1>7, <1>8

LEMMA ResolveReturnLinks ==
  ASSUME Linking, ResolveReturn
  PROVE  Linked'
<1>1. /\ stack # << >> /\ Top.op = "resolve" /\ UNCHANGED <<tree, compiled>> /\ stack' = Below
      /\ InTree /\ Control /\ compiled \subseteq compiled'
  BY DEF ResolveReturn, In, Linking, Control
<1>2. PICK N \in Nat \ {0} :
        /\ N = Len(stack) /\ Depth = 1 .. N /\ Top = stack[N] /\ Top \in Frame /\ Top.unit \in File
        /\ Top.node \in Node
  BY <1>1, TopFacts DEF Depth
<1>3. Settles(Top.node)
  BY ReturnsSettled DEF ResolveReturn
<1>4. Top.node = Root(Top.unit) => UsedBy(Top.unit) \subseteq compiled
  BY <1>1, <1>2, <1>3, SettledRoot
<1>5. /\ \A f \in compiled' : UsedBy(f)' \subseteq compiled'
      /\ \A k : Settles(k) => Settles(k)'
      /\ \A f : UsedBy(f)' = UsedBy(f)
      /\ \A m : Kids(m)' = Kids(m) /\ Kind(m)' = Kind(m)
  BY <1>1, SettlesGrows, TreeStays DEF Linking, Linked
<1>6. Len(stack') = N - 1 /\ \A i \in 1 .. N - 1 : stack'[i] = stack[i]
  BY <1>1, <1>2, BelowStack
<1>7. \A i \in 1 .. N - 2 : LinkedAt(i)'
  BY <1>1, <1>2, <1>6, UnderStays
<1>8. ASSUME N > 1 PROVE LinkedAt(N - 1)'
  <2>1. N - 1 \in 1 .. N - 1 /\ N - 1 + 1 = N /\ N - 1 \in Depth
    BY <1>2, <1>8
  <2>2. Awaits(stack[N - 1], stack[N])
    BY <1>1, <1>2, <2>1 DEF Control, Chain
  <2>3. LinkedAt(N - 1) /\ stack'[N - 1] = stack[N - 1] /\ FrameOK(stack[N - 1])
    BY <1>1, <1>6, <2>1, StackFacts DEF Linking, Linked
  <2>4. stack[N - 1].op = "compile" \/ stack[N - 1].op = "resolve"
    BY <1>1, <1>2, <2>2 DEF Awaits, Walk
  <2>5. CASE stack[N - 1].op = "compile"
    <3>1. Top.node = Root(stack[N - 1].unit) /\ stack[N - 1].unit = Top.unit
      BY <1>1, <1>2, <2>2, <2>3, <2>5 DEF Awaits, Walk, FrameOK
    <3>2. UsedBy(stack[N - 1].unit)' \subseteq compiled'
      BY <1>1, <1>4, <1>5, <2>3, <3>1
    <3>3. N - 1 > 1 => stack'[N - 1 - 1] = stack[N - 1 - 1]
      <4> HAVE N - 1 > 1
      <4>1. N - 1 - 1 \in 1 .. N - 1
        BY <1>2
      <4> QED
        BY <1>6, <4>1
    <3> QED
      BY <2>3, <2>5, <3>2, <3>3 DEF LinkedAt
  <2>6. CASE stack[N - 1].op = "resolve"
    <3>1. stack[N - 1].at = Top.node
      BY <1>1, <1>2, <2>2, <2>6 DEF Awaits, Walk
    <3>2. ASSUME NEW k \in Kids(stack[N - 1].node), Past(N - 1, k)' PROVE Settles(k)'
      <4>1. CASE k = stack[N - 1].at
        BY <1>3, <1>5, <3>1, <4>1
      <4>2. CASE k # stack[N - 1].at
        <5>1. Past(N - 1, k)
          BY <2>3, <3>2, <4>2 DEF Past
        <5>2. Settles(k)
          BY <2>3, <2>6, <5>1 DEF LinkedAt, Settles
        <5> QED
          BY <1>5, <5>2
      <4> QED
        BY <4>1, <4>2
    <3>3. \A k \in Kids(stack[N - 1].node)' : Past(N - 1, k)' => Settles(k)'
      BY <1>5, <2>3, <3>2
    <3>4. Kind(stack[N - 1].node)' # "import"
      BY <1>5, <2>3, <2>6 DEF LinkedAt
    <3> QED
      BY <2>3, <2>6, <3>3, <3>4 DEF LinkedAt, Settles
  <2> QED
    BY <2>4, <2>5, <2>6
<1> QED
  BY <1>2, <1>5, <1>6, <1>7, <1>8 DEF Linked, Depth

LEMMA LoadReturnLinks ==
  ASSUME Linking, LoadReturn
  PROVE  Linked'
<1>1. /\ stack # << >> /\ Top.op = "load" /\ UNCHANGED <<tree, compiled>> /\ stack' = Below
      /\ InTree /\ Control /\ compiled \subseteq compiled' /\ Left(Providers(NameOf(Top.node))) = {}
  BY DEF LoadReturn, In, Linking, Control
<1>2. PICK N \in Nat \ {0} :
        /\ N = Len(stack) /\ Depth = 1 .. N /\ Top = stack[N] /\ Top \in Frame /\ FrameOK(Top)
        /\ Top.node \in Node /\ Top.at \in Nat
  BY <1>1, TopFacts DEF Depth
<1>3. Settles(Top.node)
  <2>1. Kind(Top.node) = "import" /\ LinkedAt(N)
    BY <1>1, <1>2 DEF FrameOK, Walk, Linking, Linked
  <2>2. \A j \in Providers(NameOf(Top.node)) : j \in Nat /\ j <= Top.at
    <3>1. Listed \in Seq(File)
      BY NamesAssumption
    <3>2. DOMAIN Listed = 1 .. Len(Listed) /\ Len(Listed) \in Nat
      BY <3>1, LenProperties
    <3>3. \A j \in Providers(NameOf(Top.node)) : j \in Nat /\ ~(j > Top.at)
      BY <1>1, <3>2 DEF Left, Providers
    <3> QED
      BY <1>2, <3>3
  <2>3. \A j \in Providers(NameOf(Top.node)) : Past(N, j)
    BY <1>2, <2>2 DEF Past
  <2>4. Loaded(Top.node)
    BY <1>1, <1>2, <2>1, <2>3 DEF LinkedAt, Loaded
  <2>5. \A k \in Kids(Top.node) : Settles(k)
    BY <1>1, <1>2, <2>1, NothingBelowImport
  <2> QED
    BY <1>1, <1>2, <2>4, <2>5, KidsSettle
<1>5. /\ \A f \in compiled' : UsedBy(f)' \subseteq compiled'
      /\ \A k : Settles(k) => Settles(k)'
      /\ \A m : Kids(m)' = Kids(m) /\ Kind(m)' = Kind(m)
  BY <1>1, SettlesGrows, TreeStays DEF Linking, Linked
<1>6. Len(stack') = N - 1 /\ \A i \in 1 .. N - 1 : stack'[i] = stack[i]
  BY <1>1, <1>2, BelowStack
<1>7. \A i \in 1 .. N - 2 : LinkedAt(i)'
  BY <1>1, <1>2, <1>6, UnderStays
<1>8. ASSUME N > 1 PROVE LinkedAt(N - 1)'
  <2>1. N - 1 \in 1 .. N - 1 /\ N - 1 + 1 = N /\ N - 1 \in Depth
    BY <1>2, <1>8
  <2>2. Awaits(stack[N - 1], stack[N])
    BY <1>1, <1>2, <2>1 DEF Control, Chain
  <2>3. LinkedAt(N - 1) /\ stack'[N - 1] = stack[N - 1]
    BY <1>1, <1>6, <2>1 DEF Linking, Linked
  <2>4. stack[N - 1].op = "resolve" /\ stack[N - 1].at = Top.node
    BY <1>1, <1>2, <2>2 DEF Awaits, Walk
  <2>5. ASSUME NEW k \in Kids(stack[N - 1].node), Past(N - 1, k)' PROVE Settles(k)'
    <3>1. CASE k = stack[N - 1].at
      BY <1>3, <1>5, <2>4, <3>1
    <3>2. CASE k # stack[N - 1].at
      <4>1. Past(N - 1, k)
        BY <2>3, <2>5, <3>2 DEF Past
      <4>2. Settles(k)
        BY <2>3, <2>4, <4>1 DEF LinkedAt, Settles
      <4> QED
        BY <1>5, <4>2
    <3> QED
      BY <3>1, <3>2
  <2>6. \A k \in Kids(stack[N - 1].node)' : Past(N - 1, k)' => Settles(k)'
    BY <1>5, <2>3, <2>5
  <2>7. Kind(stack[N - 1].node)' # "import"
    BY <1>5, <2>3, <2>4 DEF LinkedAt
  <2> QED
    BY <2>3, <2>4, <2>6, <2>7 DEF LinkedAt, Settles
<1> QED
  BY <1>2, <1>5, <1>6, <1>7, <1>8 DEF Linked, Depth

LEMMA LoadLinks ==
  ASSUME Linking, LoadCompiled \/ LoadProvider
  PROVE  Linked'
<1>1. /\ stack # << >> /\ Top.op = "load" /\ UNCHANGED <<tree, compiled>>
      /\ InTree /\ Control /\ compiled \subseteq compiled'
  BY ProviderFacts DEF LoadCompiled, LoadProvider, Linking, Control
<1>2. PICK N \in Nat \ {0} :
        /\ N = Len(stack) /\ Depth = 1 .. N /\ Top = stack[N] /\ Top \in Frame /\ Top.at \in Nat
  BY <1>1, TopFacts DEF Depth
<1>3. PICK l \in Nat : /\ l = NextListed /\ l \in DOMAIN Listed /\ Provider = Listed[l] /\ Provider \in File
                       /\ \A j \in Providers(NameOf(Top.node)) : j > Top.at => l <= j
  BY ProviderFacts DEF LoadCompiled, LoadProvider, Linking
<1>4. /\ \A f \in compiled' : UsedBy(f)' \subseteq compiled'
      /\ \A m : Providers(m)' = Providers(m) /\ NameOf(m)' = NameOf(m)
  BY <1>1, SettlesGrows, TreeStays DEF Linking, Linked
<1>5. \A j \in Providers(NameOf(Top.node)) : j < l => Listed[j] \in compiled
  <2> SUFFICES ASSUME NEW j \in Providers(NameOf(Top.node)), j < l PROVE Listed[j] \in compiled
    OBVIOUS
  <2>1. j \in Nat
    <3>1. Listed \in Seq(File)
      BY NamesAssumption
    <3>2. DOMAIN Listed = 1 .. Len(Listed) /\ Len(Listed) \in Nat
      BY <3>1, LenProperties
    <3> QED
      BY <3>2 DEF Providers
  <2>2. j <= Top.at
    BY <1>2, <1>3, <2>1
  <2>3. Past(N, j)
    BY <1>2, <2>1, <2>2 DEF Past
  <2> QED
    BY <1>1, <1>2, <2>3 DEF Linking, Linked, LinkedAt
<1>6. ASSUME stack'[N].op = "load", stack'[N].node = Top.node, stack'[N].at = l,
             Len(stack') = N => Listed[l] \in compiled
      PROVE  LinkedAt(N)'
  <2>1. ASSUME NEW j \in Providers(NameOf(Top.node)), Past(N, j)' PROVE Listed[j] \in compiled'
    <3>1. j < l \/ (j = l /\ N = Len(stack'))
      BY <1>6, <2>1 DEF Past
    <3> QED
      BY <1>1, <1>5, <1>6, <3>1
  <2>2. \A j \in Providers(NameOf(stack[N].node))' : Past(N, j)' => Listed[j] \in compiled'
    BY <1>4, <1>6, <2>1
  <2> QED
    BY <1>6, <2>2 DEF LinkedAt
<1>7. CASE LoadCompiled
  <2>1. stack' = At(l) /\ Listed[l] \in compiled
    BY <1>3, <1>7 DEF LoadCompiled
  <2>2. Len(stack') = N /\ stack'[N].op = "load" /\ stack'[N].node = Top.node /\ stack'[N].at = l
    BY <1>1, <1>2, <2>1, TopMoves
  <2>3. \A i \in 1 .. N - 1 : LinkedAt(i)'
    BY <1>1, <1>2, <2>1, <2>2, UnderStays
  <2>4. LinkedAt(N)'
    BY <1>6, <2>1, <2>2
  <2> QED
    BY <1>2, <1>4, <2>2, <2>3, <2>4 DEF Linked, Depth
<1>8. CASE LoadProvider
  <2>1. Root(Provider) \in Nat
    BY <1>1, <1>3, RootFacts, TreeFacts
  <2>2. PICK c \in Frame : /\ c = Call("compile", Provider, Root(Provider))
                            /\ c.op = "compile" /\ c.unit = Listed[l] /\ c.at = 0
    BY <1>3, <2>1, CallIsFrame
  <2>3. stack' = Append(At(l), c)
    BY <1>3, <1>8, <2>2 DEF LoadProvider
  <2>4. /\ Len(stack') = N + 1 /\ stack'[N + 1] = c
        /\ stack'[N].op = "load" /\ stack'[N].node = Top.node /\ stack'[N].at = l
    BY <1>1, <1>2, <2>3, TopEnters
  <2>5. \A i \in 1 .. N - 1 : LinkedAt(i)'
    BY <1>1, <1>2, <2>3, <2>4, UnderStays
  <2>6. LinkedAt(N)'
    BY <1>2, <1>6, <2>4
  <2>7. LinkedAt(N + 1)'
    <3>1. N + 1 # 1 /\ N + 1 - 1 = N
      BY <1>2
    <3> QED
      BY <1>3, <2>2, <2>4, <3>1 DEF LinkedAt
  <2> QED
    BY <1>2, <1>4, <2>4, <2>5, <2>6, <2>7 DEF Linked, Depth
<1> QED
  BY <1>7, <1>8

LEMMA CompileLinks ==
  ASSUME Linking, Compile
  PROVE  Linked'
<1>1. /\ stack # << >> /\ Top.op = "compile" /\ tree' = tree /\ InTree /\ Control
      /\ compiled \subseteq compiled'
  BY DEF Compile, In, Linking, Control
<1>2. PICK N \in Nat \ {0} :
        /\ N = Len(stack) /\ Depth = 1 .. N /\ Top = stack[N] /\ Top \in Frame /\ Top.unit \in File
        /\ FrameOK(Top) /\ Top.node \in Node /\ LinkedAt(N)
  BY <1>1, TopFacts DEF Depth, Linking, Linked
<1>3. /\ \A f \in compiled : UsedBy(f)' \subseteq compiled'
      /\ \A m : Kids(m)' = Kids(m) /\ Kind(m)' = Kind(m)
  BY <1>1, SettlesGrows, TreeStays DEF Linking, Linked
<1>4. N > 1 => N - 1 \in 1 .. N - 1 /\ N - 1 + 1 = N /\ N - 1 \in Depth
  BY <1>2
<1>5. CASE /\ compiled' = compiled
           /\ \/ stack' = Append(At(1), Call("collect", Top.unit, Top.node))
              \/ stack' = Append(At(2), Call("resolve", Top.unit, Top.node))
  <2>1. PICK k \in {1, 2}, op \in Walk : stack' = Append(At(k), Call(op, Top.unit, Top.node))
    BY <1>5 DEF Walk
  <2>2. Top.node \in Nat
    BY <1>1, <1>2, TreeFacts
  <2>3. PICK c \in Frame : /\ c = Call(op, Top.unit, Top.node)
                            /\ c.op = op /\ c.node = Top.node /\ c.at = 0
    BY <1>2, <2>2, CallIsFrame DEF Walk
  <2>4. stack' = Append(At(k), c) /\ k \in Nat
    BY <2>1, <2>3
  <2>5. /\ Len(stack') = N + 1 /\ stack'[N + 1] = c
        /\ stack'[N].op = "compile" /\ stack'[N].unit = Top.unit
    BY <1>1, <1>2, <2>4, TopEnters
  <2>6. /\ \A i \in 1 .. N - 1 : LinkedAt(i)'
        /\ \A i \in 1 .. N - 1 : stack'[i] = stack[i]
    <3>1. \A i \in 1 .. N - 1 : i < Len(stack')
      BY <1>2, <2>5
    <3>2. \E l \in Nat, d \in Frame : stack' = Append(At(l), d)
      BY <2>4
    <3> QED
      BY <1>1, <1>2, <3>1, <3>2, UnderStays
  <2>7. LinkedAt(N)'
    <3>1. N > 1 => stack'[N - 1] = stack[N - 1]
      BY <1>4, <2>6
    <3>2. N # Len(stack')
      BY <2>5
    <3> QED
      BY <1>1, <1>2, <2>5, <3>1, <3>2 DEF LinkedAt
  <2>8. LinkedAt(N + 1)'
    <3>1. Kind(Top.node) # "import"
      BY <1>1, <1>2, RootFacts DEF FrameOK
    <3>2. \A l \in Kids(Top.node) : l \in Nat /\ l > 0
      <4>1. \A l \in Kids(Top.node) : l > Top.node /\ l \in Nat
        BY <1>1, <1>2, KidFacts, TreeFacts
      <4> QED
        BY <2>2, <4>1
    <3>3. \A l \in Kids(stack[N + 1].node)' : ~Past(N + 1, l)'
      BY <1>3, <2>3, <2>5, <3>2 DEF Past
    <3> QED
      BY <1>3, <2>3, <2>5, <3>1, <3>3 DEF LinkedAt, Walk
  <2> QED
    BY <1>2, <1>3, <1>5, <2>5, <2>6, <2>7, <2>8 DEF Linked, Depth
<1>6. CASE Top.at = 2 /\ compiled' = compiled \cup {Top.unit} /\ stack' = Below
  <2>1. \A f \in compiled' : UsedBy(f)' \subseteq compiled'
    <3>1. UsedBy(Top.unit) \subseteq compiled
      BY <1>1, <1>2, <1>6 DEF LinkedAt
    <3>2. \A f : UsedBy(f)' = UsedBy(f)
      BY <1>1, SettlesGrows
    <3>3. \A f \in compiled' : UsedBy(f) \subseteq compiled'
      BY <1>1, <1>6, <3>1 DEF Linking, Linked
    <3> QED
      BY <3>2, <3>3
  <2>2. Len(stack') = N - 1 /\ \A i \in 1 .. N - 1 : stack'[i] = stack[i]
    BY <1>1, <1>2, <1>6, BelowStack
  <2>3. \A i \in 1 .. N - 2 : LinkedAt(i)'
    BY <1>1, <1>2, <1>6, <2>2, UnderStays
  <2>4. ASSUME N > 1 PROVE LinkedAt(N - 1)'
    <3>1. Awaits(stack[N - 1], stack[N])
      BY <1>1, <1>2, <1>4, <2>4 DEF Control, Chain
    <3>2. LinkedAt(N - 1) /\ stack'[N - 1] = stack[N - 1] /\ stack[N - 1].op = "load"
      BY <1>1, <1>2, <1>4, <2>2, <2>4, <3>1 DEF Awaits, Linking, Linked
    <3>3. Top.unit = Listed[stack[N - 1].at]
      BY <1>1, <1>2, <1>4, <2>4 DEF LinkedAt
    <3>4. ASSUME NEW j \in Providers(NameOf(stack[N - 1].node)), Past(N - 1, j)'
          PROVE  Listed[j] \in compiled'
      <4>1. CASE j = stack[N - 1].at
        BY <1>6, <3>3, <4>1
      <4>2. CASE j # stack[N - 1].at
        <5>1. Past(N - 1, j)
          BY <3>2, <3>4, <4>2 DEF Past
        <5> QED
          BY <1>6, <3>2, <5>1 DEF LinkedAt
      <4> QED
        BY <4>1, <4>2
    <3>5. \A m : Providers(m)' = Providers(m) /\ NameOf(m)' = NameOf(m)
      BY <1>1, SettlesGrows, TreeStays
    <3>6. \A j \in Providers(NameOf(stack[N - 1].node))' : Past(N - 1, j)' => Listed[j] \in compiled'
      BY <3>2, <3>4, <3>5
    <3> QED
      BY <3>2, <3>6 DEF LinkedAt
  <2> QED
    BY <1>2, <2>1, <2>2, <2>3, <2>4 DEF Linked, Depth
<1> QED
  BY <1>5, <1>6 DEF Compile

LEMMA SameLinks ==
  ASSUME Linking, UNCHANGED <<tree, compiled, stack>>
  PROVE  Linked'
<1>1. compiled \subseteq compiled'
  OBVIOUS
<1>2. \A f \in compiled' : UsedBy(f)' \subseteq compiled'
  BY <1>1, SettlesGrows DEF Linking, Linked
<1>3. \A i \in Depth : LinkedAt(i)'
  BY <1>1, CallStays DEF Linking, Linked
<1> QED
  BY <1>2, <1>3 DEF Linked, Depth

LEMMA LinkedStep ==
  ASSUME Linking, [Next]_vars
  PROVE  Linked'
<1>1. CASE UNCHANGED vars \/ Ended \/ LoadCyclic
  BY <1>1, SameLinks DEF vars, Ended, LoadCyclic
<1>2. CASE Compile
  BY <1>2, CompileLinks
<1>3. ASSUME Collecting, UNCHANGED <<tree, compiled>>,
             stack' = At(Collectee) \/ stack' = Enter("collect", Collectee)
      PROVE  Linked'
  <2>1. stack # << >> /\ Top.op = "collect" /\ Collectee \in Nat
    BY <1>3, CollecteeFacts, TreeFacts DEF Linking, Control
  <2> QED
    BY <1>3, <2>1, CollectorLinks
<1>4. CASE CollectOpening \/ CollectLeaf \/ CollectRedeclared \/ CollectImpl
  BY <1>3, <1>4 DEF CollectOpening, CollectLeaf, CollectRedeclared, CollectImpl
<1>5. CASE CollectModule \/ CollectInit \/ CollectOther
  BY <1>3, <1>5 DEF CollectModule, CollectInit, CollectOther
<1>6. CASE CollectReturn
  <2>1. stack # << >> /\ Top.op = "collect" /\ UNCHANGED <<tree, compiled>> /\ stack' = Below
    BY <1>6 DEF CollectReturn, In
  <2> QED
    BY <2>1, CollectorLinks
<1>7. CASE ResolveEntered
  <2>1. Kind(Resolvee) # "import"
    BY <1>7 DEF ResolveEntered, Entered
  <2> QED
    BY <1>7, <2>1, ResolverLinks DEF ResolveEntered
<1>8. ASSUME Resolving, Resolved(Resolvee) = {}, Kind(Resolvee) # "import" PROVE Settles(Resolvee)
  <2>1. InTree /\ Resolvee \in Node
    BY <1>8, ResolveeFacts DEF Linking, Control
  <2>2. \A k \in Kids(Resolvee) : Settles(k)
    BY <1>8, <2>1, UnresolvedSettles
  <2>3. ~Sure(Resolvee)
    BY <1>8 DEF Sure
  <2> QED
    BY <2>1, <2>2, <2>3, KidsSettle
<1>9. CASE ResolveUse
  <2>1. Kind(Resolvee) \in {"identifier", "named type", "generic type"}
    BY <1>9 DEF ResolveUse, Use
  <2>2. Kind(Resolvee) # "generic type" => Resolved(Resolvee) = {}
    BY <2>1 DEF Resolved, NeedsSymbol, Skipped
  <2>3. \/ stack' = At(Resolvee) /\ Settles(Resolvee)
        \/ stack' = Enter("resolve", Resolvee) /\ Kind(Resolvee) # "import"
    BY <1>8, <1>9, <2>1, <2>2 DEF ResolveUse
  <2> QED
    BY <1>9, <2>3, ResolverLinks DEF ResolveUse
<1>10. CASE ResolveImport
  BY <1>10, ResolverLinks DEF ResolveImport
<1>11. CASE ResolveOther
  <2>1. Kind(Resolvee) # "import"
    BY <1>11 DEF ResolveOther
  <2>2. \/ stack' = At(Resolvee) /\ Settles(Resolvee)
        \/ stack' = Enter("resolve", Resolvee) /\ Kind(Resolvee) # "import"
    BY <1>8, <1>11, <2>1 DEF ResolveOther
  <2> QED
    BY <1>11, <2>2, ResolverLinks DEF ResolveOther
<1>12. CASE ResolveReturn
  BY <1>12, ResolveReturnLinks
<1>13. CASE LoadCompiled \/ LoadProvider
  BY <1>13, LoadLinks
<1>14. CASE LoadReturn
  BY <1>14, LoadReturnLinks
<1> QED
  BY <1>1, <1>2, <1>4, <1>5, <1>6, <1>7, <1>9, <1>10, <1>11, <1>12, <1>13, <1>14 DEF Next, Step

LEMMA LinkedInit ==
  ASSUME Init
  PROVE  Linked
<1>1. compiled = {} /\ Len(stack) = 1 /\ stack[1].op = "compile" /\ stack[1].unit = Main /\ stack[1].at = 0
  BY DEF Init
<1>2. LinkedAt(1)
  BY <1>1 DEF LinkedAt
<1>3. Depth = {1}
  BY <1>1 DEF Depth
<1> QED
  BY <1>1, <1>2, <1>3 DEF Linked

LEMMA LinkingHolds == Spec => []Linking
<1>1. Init => Linking
  BY ControlInit, LinkedInit DEF Linking
<1>2. Linking /\ [Next]_vars => Linking'
  BY ControlStep, LinkedStep DEF Linking
<1> QED
  BY <1>1, <1>2, PTL DEF Spec
-----------------------------------------------------------------------------
(* The refinement: what a file uses, the stages a file has completed, and  *)
(* the goal, in the place of the variables of BuildOrder.                  *)
StageNames == {"Collector", "Resolver"}
UsesOf == [f \in File |-> UsedBy(f)]
DoneOf == [f \in File |-> IF f \in compiled THEN {"Collector", "Resolver"}
                          ELSE UNION {StagesDone(i) : i \in CompileOf(f)}]
Goal == IF compiled = {} /\ Len(stack) = 1 /\ stack[1].at = 0 THEN << >> ELSE <<Main, "Resolver">>

Through(i, f, s) ==
  /\ stack[i].op = "compile" /\ stack[i].unit = f
  /\ s = "Collector" => stack[i].at = 2 \/ (stack[i].at = 1 /\ i = Len(stack))
  /\ s = "Resolver" => stack[i].at = 2 /\ i = Len(stack)
Completed(f, s) == f \in compiled \/ \E i \in Depth : Through(i, f, s)

DoneIsCompleted == \A f \in File : DoneOf[f] = {s \in StageNames : Completed(f, s)}

LEMMA StagesCompleted == Control => DoneIsCompleted
<1> SUFFICES ASSUME Control, NEW f \in File PROVE DoneOf[f] = {s \in StageNames : Completed(f, s)}
  BY DEF DoneIsCompleted
<1>1. CASE f \in compiled
  BY <1>1 DEF DoneOf, StageNames, Completed
<1>2. CASE f \notin compiled
  <2>1. DOMAIN stack = Depth
    BY StackFacts
  <2>2. ASSUME NEW i \in Depth, stack[i].op = "compile", stack[i].unit = f
        PROVE  StagesDone(i) = {s \in StageNames : Through(i, f, s)}
    <3>1. CASE stack[i].at = 1 /\ i = Len(stack)
      BY <2>2, <3>1 DEF StagesDone, StageNames, Through
    <3>2. CASE stack[i].at = 2 /\ i = Len(stack)
      BY <2>2, <3>2 DEF StagesDone, StageNames, Through
    <3>3. CASE stack[i].at = 2 /\ i # Len(stack)
      <4>1. i < Len(stack)
        BY <3>3, StackFacts
      <4> QED
        BY <2>2, <3>3, <4>1 DEF StagesDone, StageNames, Through
    <3>4. CASE stack[i].at # 2 /\ ~(stack[i].at = 1 /\ i = Len(stack))
      BY <2>2, <3>4 DEF StagesDone, StageNames, Through
    <3> QED
      BY <3>1, <3>2, <3>3, <3>4
  <2>3. CompileOf(f) = {i \in Depth : stack[i].op = "compile" /\ stack[i].unit = f}
    BY <2>1 DEF CompileOf
  <2>4. UNION {StagesDone(i) : i \in CompileOf(f)} = {s \in StageNames : \E i \in Depth : Through(i, f, s)}
    BY <2>2, <2>3 DEF Through
  <2> QED
    BY <1>2, <2>4 DEF DoneOf, Completed
<1> QED
  BY <1>1, <1>2

LEMMA StagesCompletedNext == Control' => DoneIsCompleted'
BY StagesCompleted, PTL

(* The same calls, as far as the order is concerned.                       *)
LEMMA DoneStays ==
  ASSUME Control, Control', \A f \in File, s \in StageNames : Completed(f, s)' <=> Completed(f, s)
  PROVE  DoneOf' = DoneOf
<1>1. \A f \in File : DoneOf'[f] = DoneOf[f]
  BY StagesCompleted, StagesCompletedNext DEF DoneIsCompleted
<1>2. DoneOf = [f \in File |-> DoneOf[f]] /\ DoneOf' = [f \in File |-> DoneOf'[f]]
  BY DEF DoneOf
<1> QED
  BY <1>1, <1>2

LEMMA UsesStay ==
  ASSUME tree' = tree, compiled \subseteq compiled'
  PROVE  UsesOf' = UsesOf
BY SettlesGrows DEF UsesOf

LEMMA UsesType == UsesOf \in [File -> SUBSET File]
<1>1. Listed \in Seq(File)
  BY NamesAssumption
<1>2. Elements(Listed) \subseteq File
  BY <1>1, ElementOfSeq DEF Elements
<1> QED
  BY <1>2 DEF UsesOf, UsedBy

(* A goal that is set stays; it is set by the first step.                  *)
LEMMA GoalSet ==
  ASSUME Control, stack # << >>, Top.op # "compile" \/ Len(stack) > 1 \/ Top.at # 0
  PROVE  Goal = <<Main, "Resolver">>
<1>1. Len(stack) = 1 => Top = stack[1] /\ stack[1].op = "compile"
  BY TopFacts DEF Control, Chain
<1> QED
  BY <1>1, TopFacts DEF Goal

LEMMA GoalSetNext ==
  ASSUME Len(stack') # 1 \/ compiled' # {} \/ stack'[1].at # 0
  PROVE  Goal' = <<Main, "Resolver">>
BY DEF Goal

LEMMA OrderInit == Init => Order!Init
<1> SUFFICES ASSUME Init PROVE Order!Init
  OBVIOUS
<1>1. compiled = {} /\ Len(stack) = 1 /\ stack[1].at = 0 /\ outcome = "running" /\ Depth = {1}
  BY DEF Init, Depth
<1>2. \A f \in File, s \in StageNames : ~Completed(f, s)
  BY <1>1 DEF Completed, Through, StageNames
<1>3. \A f \in File : DoneOf[f] = {}
  BY <1>2, ControlInit, StagesCompleted DEF DoneIsCompleted
<1>4. DoneOf = [f \in File |-> {}]
  BY <1>3 DEF DoneOf
<1>5. UsesOf \in [File -> SUBSET File] /\ Goal = << >>
  BY <1>1, UsesType DEF Goal
<1> QED
  BY <1>1, <1>4, <1>5 DEF Order!Init, Order!NoGoal, UsesOf, DoneOf, Goal

(* A step of a walk or a load that completes no stage.                     *)
LEMMA OrderIdle ==
  ASSUME Control, Control', stack # << >>, Top.op # "compile", UNCHANGED <<tree, compiled, outcome>>,
         NEW k \in Nat,
         \/ stack' = At(k)
         \/ \E c \in Frame : stack' = Append(At(k), c) /\ (c.op = "compile" => c.at = 0)
         \/ stack' = Below /\ (Len(stack) > 1 => stack[Len(stack) - 1].op # "compile")
  PROVE  UNCHANGED Order!vars
<1>1. PICK N \in Nat \ {0} : N = Len(stack) /\ Depth = 1 .. N /\ Top = stack[N] /\ Top \in Frame
  BY TopFacts DEF Depth
<1>2. N > 1 /\ stack[1].op = "compile"
  BY <1>1 DEF Control, Chain
<1>3. /\ \A i \in 1 .. N - 1 : stack'[i] = stack[i]
      /\ \/ Depth' \in {1 .. N, 1 .. N + 1} /\ Len(stack') >= N /\ stack'[N].op # "compile"
         \/ Depth' = 1 .. N - 1 /\ Len(stack') = N - 1 /\ stack[N - 1].op # "compile"
      /\ N + 1 \in Depth' /\ stack'[N + 1].op = "compile" => stack'[N + 1].at = 0
  <2>1. CASE stack' = At(k)
    <3>1. \A i \in 1 .. N - 1 : stack'[i] = stack[i]
      BY <1>1, <2>1, AtStack
    <3>2. Len(stack') = N /\ stack'[N].op # "compile"
      BY <1>1, <2>1, TopMoves
    <3> QED
      BY <1>1, <3>1, <3>2 DEF Depth
  <2>2. CASE \E c \in Frame : stack' = Append(At(k), c) /\ (c.op = "compile" => c.at = 0)
    <3>1. PICK c \in Frame : stack' = Append(At(k), c) /\ (c.op = "compile" => c.at = 0)
      BY <2>2
    <3>2. \A i \in 1 .. N - 1 : stack'[i] = stack[i]
      BY <1>1, <3>1, UnderEnter
    <3>3. Len(stack') = N + 1 /\ stack'[N].op # "compile" /\ stack'[N + 1] = c
      BY <1>1, <3>1, TopEnters
    <3> QED
      BY <1>1, <3>1, <3>2, <3>3 DEF Depth
  <2>3. CASE stack' = Below /\ (Len(stack) > 1 => stack[Len(stack) - 1].op # "compile")
    <3>1. Len(stack') = N - 1 /\ \A i \in 1 .. N - 1 : stack'[i] = stack[i]
      BY <1>1, <2>3, BelowStack
    <3> QED
      BY <1>1, <1>2, <2>3, <3>1 DEF Depth
  <2> QED
    BY <2>1, <2>2, <2>3
<1>4. ASSUME NEW f \in File, NEW s \in StageNames PROVE Completed(f, s)' <=> Completed(f, s)
  <2>1. ASSUME NEW i \in 1 .. N - 1 PROVE (i \in Depth' /\ Through(i, f, s)') <=> Through(i, f, s)
    <3>1. i \in Depth'
      BY <1>1, <1>3
    <3>2. i # Len(stack) /\ (i = Len(stack') => stack[i].op # "compile") /\ stack'[i] = stack[i]
      BY <1>1, <1>3
    <3> QED
      BY <3>1, <3>2 DEF Through
  <2>2. ~Through(N, f, s) /\ ~(N \in Depth' /\ Through(N, f, s)') /\ ~(N + 1 \in Depth' /\ Through(N + 1, f, s)')
    BY <1>1, <1>3 DEF Through, StageNames
  <2>3. \A i \in Depth : i \in 1 .. N - 1 \/ i = N
    BY <1>1
  <2>4. \A i \in Depth' : i \in 1 .. N - 1 \/ i = N \/ i = N + 1
    BY <1>1, <1>3
  <2>5. 1 .. N - 1 \subseteq Depth
    BY <1>1
  <2> QED
    BY <2>1, <2>2, <2>3, <2>4, <2>5 DEF Completed
<1>5. DoneOf' = DoneOf
  BY <1>4, DoneStays
<1>6. UsesOf' = UsesOf
  BY UsesStay
<1>7. Goal = <<Main, "Resolver">>
  BY GoalSet
<1>8. Goal' = <<Main, "Resolver">>
  <2>1. CASE Len(stack') # 1
    BY <2>1, GoalSetNext
  <2>2. CASE Len(stack') = 1
    <3>1. N - 1 = 1 /\ stack[1].op # "compile"
      BY <1>1, <1>2, <1>3, <2>2
    <3> QED
      BY <1>2, <3>1
  <2> QED
    BY <2>1, <2>2
<1> QED
  BY <1>5, <1>6, <1>7, <1>8 DEF Order!vars, UsesOf, DoneOf, Goal

(* A walk that is through completes the stage of its file.                 *)
LEMMA OrderComplete ==
  ASSUME Linking, Linking', stack # << >>, Top.op \in Walk, outcome = "running",
         UNCHANGED <<tree, compiled, outcome>>, stack' = Below,
         Len(stack) > 1, stack[Len(stack) - 1].op = "compile"
  PROVE  Order!Next
<1>1. PICK N \in Nat \ {0} :
        /\ N = Len(stack) /\ Depth = 1 .. N /\ Top = stack[N] /\ N > 1
        /\ N - 1 \in 1 .. N - 1 /\ N - 1 \in Depth /\ N \in Depth /\ N - 1 + 1 = N
  BY TopFacts DEF Depth, Linking
<1>2. Control /\ Control' /\ stack[N - 1].op = "compile" /\ Top.op \in {"collect", "resolve"}
  BY <1>1 DEF Linking, Walk
<1>3. PICK f \in File : f = stack[N - 1].unit /\ f \notin compiled
  BY <1>1, <1>2, StackFacts DEF FrameOK
<1>4. PICK s \in StageNames : s = IF Top.op = "collect" THEN "Collector" ELSE "Resolver"
  BY DEF StageNames
<1>5. stack[N - 1].at = IF s = "Collector" THEN 1 ELSE 2
  <2>1. Awaits(stack[N - 1], stack[N])
    BY <1>1, <1>2 DEF Control, Chain
  <2> QED
    BY <1>1, <1>2, <1>4, <2>1 DEF Awaits, Walk
<1>6. /\ Len(stack') = N - 1 /\ Depth' = 1 .. N - 1
      /\ \A i \in 1 .. N - 1 : stack'[i] = stack[i]
  BY <1>1, <1>2, BelowStack DEF Depth
<1>7. \A i \in Depth : stack[i].op = "compile" /\ stack[i].unit = f => i = N - 1
  <2> SUFFICES ASSUME NEW i \in Depth, stack[i].op = "compile", stack[i].unit = f PROVE i = N - 1
    OBVIOUS
  <2>1. ~(i < N - 1) /\ ~(N - 1 < i)
    BY <1>1, <1>2, <1>3 DEF Control, Chain, Nested
  <2> QED
    BY <1>1, <2>1
<1>8. ASSUME NEW g \in File, NEW t \in StageNames
      PROVE  Completed(g, t) <=> \/ g \in compiled \/ (\E i \in 1 .. N - 2 : Through(i, g, t))
                                 \/ (g = f /\ t = "Collector" /\ s = "Resolver")
  <2>1. ~Through(N, g, t)
    BY <1>1, <1>2 DEF Through
  <2>2. Through(N - 1, g, t) <=> g = f /\ t = "Collector" /\ s = "Resolver"
    BY <1>1, <1>2, <1>3, <1>4, <1>5 DEF Through, StageNames
  <2>3. \A i \in Depth : i \in 1 .. N - 2 \/ i = N - 1 \/ i = N
    BY <1>1
  <2>4. 1 .. N - 2 \subseteq Depth
    BY <1>1
  <2> QED
    BY <1>1, <2>1, <2>2, <2>3, <2>4 DEF Completed
<1>9. ASSUME NEW g \in File, NEW t \in StageNames
      PROVE  Completed(g, t)' <=> Completed(g, t) \/ (g = f /\ t = s)
  <2>1. Through(N - 1, g, t)' <=> g = f /\ (t = "Collector" \/ s = "Resolver")
    BY <1>1, <1>2, <1>3, <1>4, <1>5, <1>6 DEF Through, StageNames
  <2>2. ASSUME NEW i \in 1 .. N - 2 PROVE Through(i, g, t)' <=> Through(i, g, t)
    <3>1. stack'[i] = stack[i] /\ i # Len(stack') /\ i # Len(stack)
      BY <1>1, <1>6
    <3> QED
      BY <3>1 DEF Through
  <2>3. \A i \in Depth' : i \in 1 .. N - 2 \/ i = N - 1
    BY <1>1, <1>6
  <2>4. 1 .. N - 2 \subseteq Depth' /\ N - 1 \in Depth'
    BY <1>1, <1>6
  <2>5. Completed(g, t)' <=> \/ g \in compiled \/ (\E i \in 1 .. N - 2 : Through(i, g, t))
                             \/ (g = f /\ (t = "Collector" \/ s = "Resolver"))
    BY <2>1, <2>2, <2>3, <2>4 DEF Completed
  <2>6. t \in {"Collector", "Resolver"} /\ s \in {"Collector", "Resolver"}
    BY DEF StageNames
  <2> QED
    BY <1>8, <2>5, <2>6
<1>10. \A g \in File : DoneOf[g] = {t \in StageNames : Completed(g, t)}
  BY <1>2, StagesCompleted DEF DoneIsCompleted
<1>11. \A g \in File : DoneOf'[g] = {t \in StageNames : Completed(g, t)'}
  BY <1>2, StagesCompletedNext DEF DoneIsCompleted
<1>12. DoneOf' = [DoneOf EXCEPT ![f] = @ \cup {s}]
  <2>1. ASSUME NEW g \in File PROVE DoneOf'[g] = IF g = f THEN DoneOf[f] \cup {s} ELSE DoneOf[g]
    <3>1. DoneOf'[g] = {t \in StageNames : Completed(g, t) \/ (g = f /\ t = s)}
      BY <1>9, <1>11
    <3> QED
      BY <1>10, <3>1
  <2>2. DoneOf = [g \in File |-> DoneOf[g]] /\ DoneOf' = [g \in File |-> DoneOf'[g]]
    BY DEF DoneOf
  <2> QED
    BY <2>1, <2>2
<1>13. s \notin DoneOf[f]
  <2>1. ~Completed(f, s)
    <3>1. \A i \in 1 .. N - 2 : i \in Depth /\ i # N - 1
      BY <1>1
    <3>2. \A i \in 1 .. N - 2 : ~Through(i, f, s)
      BY <1>7, <3>1 DEF Through
    <3> QED
      BY <1>3, <1>8, <3>2
  <2> QED
    BY <1>10, <2>1
<1>14. {"Collector"} \ {s} \subseteq DoneOf[f]
  <2>1. s # "Collector" => s = "Resolver"
    BY DEF StageNames
  <2>2. s # "Collector" => Completed(f, "Collector")
    BY <1>8, <2>1 DEF StageNames
  <2> QED
    BY <1>10, <2>2 DEF StageNames
<1>15. s = "Resolver" => \A g \in UsesOf[f] : "Resolver" \in DoneOf[g]
  <2> SUFFICES ASSUME s = "Resolver", NEW g \in UsesOf[f] PROVE "Resolver" \in DoneOf[g]
    OBVIOUS
  <2>1. LinkedAt(N - 1)'
    <3>1. \A i \in Depth' : LinkedAt(i)'
      BY DEF Linking, Linked
    <3> QED
      BY <1>1, <1>6, <3>1
  <2>2. UsedBy(f)' \subseteq compiled
    BY <1>1, <1>2, <1>3, <1>5, <1>6, <2>1 DEF LinkedAt
  <2>3. UsedBy(f)' = UsedBy(f)
    BY SettlesGrows
  <2>4. g \in compiled /\ g \in File
    BY <2>2, <2>3, <1>2 DEF UsesOf, Control
  <2>5. Completed(g, "Resolver")
    BY <2>4 DEF Completed
  <2> QED
    BY <1>10, <2>4, <2>5 DEF StageNames
<1>16. UsesOf' = UsesOf
  BY UsesStay
<1>17. Goal = <<Main, "Resolver">>
  BY <1>2, GoalSet
<1>18. Goal' = <<Main, "Resolver">>
  <2>1. 1 \in 1 .. N - 1 /\ (Len(stack') = 1 => N - 1 = 1)
    BY <1>1, <1>6
  <2> QED
    BY <1>1, <1>5, <1>6, <2>1, GoalSetNext
<1>19. [t \in {"Collector", "Resolver"} |-> {"Collector"} \ {t}][s] = {"Collector"} \ {s}
  BY DEF StageNames
<1>20. Order!Complete(f, s)
  BY <1>12, <1>13, <1>14, <1>15, <1>16, <1>17, <1>18, <1>19
  DEF Order!Complete, Order!NoGoal, UsesOf, DoneOf, Goal
<1> QED
  BY <1>20 DEF Order!Next, StageNames

(* The pipeline goes on to the next stage of a file.                       *)
LEMMA OrderStage ==
  ASSUME Control, Control', stack # << >>, Top.op = "compile", outcome = "running",
         UNCHANGED <<tree, compiled, outcome>>,
         NEW k \in Nat, (k = 1 /\ Top.at = 0) \/ (k = 2 /\ Top.at = 1), NEW c \in Frame, c.op # "compile", stack' = Append(At(k), c)
  PROVE  Order!Next \/ UNCHANGED Order!vars
<1>1. PICK N \in Nat \ {0} :
        N = Len(stack) /\ Depth = 1 .. N /\ Top = stack[N] /\ k \in {1, 2}
  BY TopFacts DEF Depth
<1>2. /\ \A i \in 1 .. N - 1 : stack'[i] = stack[i]
      /\ Len(stack') = N + 1 /\ Depth' = 1 .. N + 1
      /\ stack'[N].op = "compile" /\ stack'[N].unit = Top.unit /\ stack'[N].at = k
      /\ stack'[N + 1].op # "compile"
  <2>1. \A i \in 1 .. N - 1 : stack'[i] = stack[i]
    BY <1>1, UnderEnter
  <2>2. N = Len(stack)
    BY <1>1
  <2>3. Len(stack') = N + 1 /\ stack'[N + 1] = c
    BY <2>2, TopEnters
  <2>4. stack'[N].op = Top.op /\ stack'[N].unit = Top.unit /\ stack'[N].at = k
    BY <2>2, TopEnters
  <2> QED
    BY <2>1, <2>3, <2>4 DEF Depth
<1>3. ASSUME NEW f \in File, NEW s \in StageNames PROVE Completed(f, s)' <=> Completed(f, s)
  <2>1. ASSUME NEW i \in 1 .. N - 1 PROVE Through(i, f, s)' <=> Through(i, f, s)
    <3>1. stack'[i] = stack[i] /\ i # Len(stack') /\ i # Len(stack)
      BY <1>1, <1>2
    <3> QED
      BY <3>1 DEF Through
  <2>2. Through(N, f, s)' <=> Through(N, f, s)
    <3>1. N # Len(stack')
      BY <1>1, <1>2
    <3>2. Through(N, f, s) <=> Top.unit = f /\ k = 2 /\ s = "Collector"
      BY <1>1 DEF Through, StageNames
    <3>3. Through(N, f, s)' <=> Top.unit = f /\ k = 2 /\ s = "Collector"
      BY <1>1, <1>2, <3>1 DEF Through, StageNames
    <3> QED
      BY <3>2, <3>3
  <2>3. ~Through(N + 1, f, s)'
    BY <1>2 DEF Through
  <2>4. \A i \in Depth' : i \in 1 .. N - 1 \/ i = N \/ i = N + 1
    BY <1>1, <1>2
  <2>5. \A i \in Depth : i \in 1 .. N - 1 \/ i = N
    BY <1>1
  <2>6. 1 .. N - 1 \subseteq Depth /\ 1 .. N - 1 \subseteq Depth' /\ N \in Depth /\ N \in Depth'
    BY <1>1, <1>2
  <2> QED
    BY <2>1, <2>2, <2>3, <2>4, <2>5, <2>6 DEF Completed
<1>4. DoneOf' = DoneOf
  BY <1>3, DoneStays
<1>5. UsesOf' = UsesOf /\ UsesOf \in [File -> SUBSET File]
  BY UsesStay, UsesType
<1>6. Goal' = <<Main, "Resolver">>
  BY <1>1, <1>2, GoalSetNext
<1>7. CASE Goal = << >>
  <2>1. Order!Ask(Main, "Resolver")
    BY <1>4, <1>5, <1>6, <1>7 DEF Order!Ask, Order!NoGoal, Order!Learn, UsesOf, DoneOf, Goal
  <2>2. Main \in File
    BY NamesAssumption
  <2> QED
    BY <2>1, <2>2 DEF Order!Next
<1>8. CASE Goal = <<Main, "Resolver">>
  BY <1>4, <1>5, <1>6, <1>8 DEF Order!vars, UsesOf, DoneOf, Goal
<1> QED
  BY <1>7, <1>8 DEF Goal

LEMMA OrderFinish ==
  ASSUME Linking, Control', stack # << >>, Top.op = "compile", Top.at = 2, outcome = "running",
         tree' = tree, compiled' = compiled \cup {Top.unit}, stack' = Below,
         outcome' = IF Len(stack) = 1 THEN "ok" ELSE outcome
  PROVE  Order!Next \/ UNCHANGED Order!vars
<1>1. PICK N \in Nat \ {0}, f \in File :
        /\ N = Len(stack) /\ Depth = 1 .. N /\ Top = stack[N] /\ Control
        /\ f = Top.unit /\ compiled' = compiled \cup {f} /\ N \in Depth
  BY TopFacts DEF Depth, Linking
<1>2. /\ \A i \in 1 .. N - 1 : stack'[i] = stack[i]
      /\ Len(stack') = N - 1 /\ Depth' = 1 .. N - 1
  BY <1>1, BelowStack DEF Depth
<1>3. N > 1 => stack[N - 1].op = "load"
  <2> HAVE N > 1
  <2>1. N - 1 \in 1 .. N - 1 /\ N - 1 + 1 = N
    BY <1>1
  <2>2. Awaits(stack[N - 1], stack[N])
    BY <1>1, <2>1 DEF Control, Chain
  <2> QED
    BY <1>1, <2>2 DEF Awaits
<1>4. ASSUME NEW g \in File, NEW s \in StageNames
      PROVE  /\ Completed(g, s)' <=> Completed(g, s)
             /\ Completed(f, s)
  <2>1. ASSUME NEW i \in 1 .. N - 1 PROVE Through(i, g, s)' <=> Through(i, g, s)
    <3>1. stack'[i] = stack[i] /\ i # Len(stack) /\ (i = Len(stack') => stack[i].op = "load")
      BY <1>1, <1>2, <1>3
    <3> QED
      BY <3>1 DEF Through
  <2>2. \A h : Through(N, h, s) <=> h = f
    BY <1>1 DEF Through, StageNames
  <2>3. \A i \in Depth : i \in 1 .. N - 1 \/ i = N
    BY <1>1
  <2>4. 1 .. N - 1 \subseteq Depth
    BY <1>1
  <2> QED
    BY <1>1, <1>2, <2>1, <2>2, <2>3, <2>4 DEF Completed
<1>5. DoneOf' = DoneOf
  BY <1>1, <1>4, DoneStays
<1>6. UsesOf' = UsesOf
  BY UsesStay
<1>7. Goal = <<Main, "Resolver">> /\ Goal' = <<Main, "Resolver">>
  BY <1>1, GoalSet, GoalSetNext
<1>8. CASE N = 1
  <2>1. f = Main
    BY <1>1, <1>8 DEF Linking, Linked, LinkedAt
  <2>2. "Resolver" \in DoneOf[Main]
    BY <1>1, <1>4, <2>1, StagesCompleted DEF DoneIsCompleted, StageNames
  <2>3. Order!Succeed
    BY <1>1, <1>5, <1>6, <1>7, <1>8, <2>2 DEF Order!Succeed, Order!NoGoal, UsesOf, DoneOf, Goal
  <2> QED
    BY <2>3 DEF Order!Next
<1>9. CASE N # 1
  BY <1>1, <1>5, <1>6, <1>7, <1>9 DEF Order!vars, UsesOf, DoneOf, Goal
<1> QED
  BY <1>8, <1>9

LEMMA OrderCyclic ==
  ASSUME Control, Control', LoadCyclic
  PROVE  Order!Next
<1>1. outcome = "running" /\ outcome' = "cyclic" /\ UNCHANGED <<tree, compiled, stack>>
  BY DEF LoadCyclic, Loading, In
<1>2. UsesOf' = UsesOf /\ Goal' = Goal
  BY <1>1, UsesStay DEF Goal
<1>3. DoneOf' = DoneOf
  BY <1>1, DoneStays DEF Completed, Through, Depth
<1>4. Order!Fail("cyclic")
  BY <1>1, <1>2, <1>3 DEF Order!Fail, UsesOf, DoneOf, Goal
<1> QED
  BY <1>4 DEF Order!Next

LEMMA OrderStep ==
  ASSUME Linking, Linking', [Next]_vars
  PROVE  [Order!Next]_(Order!vars)
<1>1. Control /\ Control'
  BY DEF Linking
<1>2. CASE UNCHANGED vars \/ Ended
  <2>1. UNCHANGED <<tree, compiled, stack, outcome>>
    BY <1>2 DEF vars, Ended
  <2>2. UsesOf' = UsesOf /\ Goal' = Goal
    BY <2>1, UsesStay DEF Goal
  <2>3. DoneOf' = DoneOf
    BY <1>1, <2>1, DoneStays DEF Completed, Through, Depth
  <2> QED
    BY <2>1, <2>2, <2>3 DEF Order!vars, UsesOf, DoneOf, Goal
<1>3. CASE Compile
  <2>1. /\ stack # << >> /\ Top.op = "compile" /\ outcome = "running" /\ tree' = tree
        /\ Top.unit \in File /\ Top.node \in Nat
    BY <1>1, <1>3, TopFacts, TreeFacts DEF Compile, In, Control
  <2>2. \A op \in Walk : Call(op, Top.unit, Top.node) \in Frame /\ Call(op, Top.unit, Top.node).op # "compile"
    BY <2>1, CallIsFrame DEF Walk
  <2>3. CASE Top.at = 0 /\ stack' = Append(At(1), Call("collect", Top.unit, Top.node)) /\ UNCHANGED <<compiled, outcome>>
    BY <1>1, <2>1, <2>2, <2>3, OrderStage DEF Walk
  <2>4. CASE Top.at = 1 /\ stack' = Append(At(2), Call("resolve", Top.unit, Top.node)) /\ UNCHANGED <<compiled, outcome>>
    BY <1>1, <2>1, <2>2, <2>4, OrderStage DEF Walk
  <2>5. CASE /\ Top.at = 2 /\ compiled' = compiled \cup {Top.unit} /\ stack' = Below
             /\ outcome' = IF Len(stack) = 1 THEN "ok" ELSE outcome
    BY <1>1, <2>1, <2>5, OrderFinish
  <2> QED
    BY <1>3, <2>3, <2>4, <2>5 DEF Compile
<1>4. ASSUME Collecting, UNCHANGED <<tree, compiled, outcome>>,
             stack' = At(Collectee) \/ stack' = Enter("collect", Collectee)
      PROVE  UNCHANGED Order!vars
  <2>1. /\ stack # << >> /\ Top.op # "compile" /\ Collectee \in Nat /\ Top.unit \in File
    BY <1>1, <1>4, CollecteeFacts, TopFacts, TreeFacts DEF Control
  <2>2. \E c \in Frame : c = Call("collect", Top.unit, Collectee) /\ c.op # "compile"
    BY <2>1, CallIsFrame
  <2> QED
    BY <1>1, <1>4, <2>1, <2>2, OrderIdle DEF Enter
<1>5. CASE CollectOpening \/ CollectLeaf \/ CollectRedeclared \/ CollectImpl
  BY <1>4, <1>5 DEF CollectOpening, CollectLeaf, CollectRedeclared, CollectImpl
<1>6. CASE CollectModule \/ CollectInit \/ CollectOther
  BY <1>4, <1>6 DEF CollectModule, CollectInit, CollectOther
<1>7. ASSUME Resolving, UNCHANGED <<tree, compiled, outcome>>,
             \/ stack' = At(Resolvee)
             \/ \E op \in {"resolve", "load"} : stack' = Enter(op, Resolvee)
      PROVE  UNCHANGED Order!vars
  <2>1. /\ stack # << >> /\ Top.op # "compile" /\ Resolvee \in Nat /\ Top.unit \in File
    BY <1>1, <1>7, ResolveeFacts, TopFacts, TreeFacts DEF Control
  <2>2. \A op \in {"resolve", "load"} : \E c \in Frame : c = Call(op, Top.unit, Resolvee) /\ c.op # "compile"
    BY <2>1, CallIsFrame
  <2> QED
    BY <1>1, <1>7, <2>1, <2>2, OrderIdle DEF Enter
<1>8. CASE ResolveEntered \/ ResolveUse \/ ResolveImport \/ ResolveOther
  BY <1>7, <1>8 DEF ResolveEntered, ResolveUse, ResolveImport, ResolveOther
<1>9. ASSUME stack # << >>, Top.op # "compile", outcome = "running",
             UNCHANGED <<tree, compiled, outcome>>, stack' = Below
      PROVE  Order!Next \/ UNCHANGED Order!vars
  <2>1. CASE Len(stack) > 1 /\ stack[Len(stack) - 1].op = "compile"
    <3>1. Len(stack) - 1 \in 1 .. Len(stack) - 1 /\ Len(stack) - 1 + 1 = Len(stack)
      BY <1>1, <1>9, <2>1, TopFacts
    <3>2. Awaits(stack[Len(stack) - 1], stack[Len(stack)])
      BY <1>1, <3>1 DEF Control, Chain
    <3>3. Top.op \in Walk
      BY <1>1, <1>9, <2>1, <3>2, TopFacts DEF Awaits, Walk
    <3> QED
      BY <1>9, <2>1, <3>3, OrderComplete
  <2>2. CASE ~(Len(stack) > 1 /\ stack[Len(stack) - 1].op = "compile")
    <3>1. 0 \in Nat
      OBVIOUS
    <3> QED
      BY <1>1, <1>9, <2>2, <3>1, OrderIdle
  <2> QED
    BY <2>1, <2>2
<1>10. CASE CollectReturn \/ ResolveReturn \/ LoadReturn
  BY <1>9, <1>10 DEF CollectReturn, ResolveReturn, LoadReturn, In
<1>11. CASE LoadCompiled
  <2>1. stack # << >> /\ Top.op # "compile" /\ NextListed \in Nat
    BY <1>1, <1>11, ProviderFacts DEF LoadCompiled
  <2> QED
    BY <1>1, <1>11, <2>1, OrderIdle DEF LoadCompiled
<1>12. CASE LoadProvider
  <2>1. stack # << >> /\ Top.op # "compile" /\ NextListed \in Nat /\ Provider \in File
    BY <1>1, <1>12, ProviderFacts DEF LoadProvider
  <2>2. Root(Provider) \in Nat
    BY <1>1, <2>1, RootFacts, TreeFacts DEF Control
  <2>3. \E c \in Frame : c = Call("compile", Provider, Root(Provider)) /\ c.at = 0
    BY <2>1, <2>2, CallIsFrame
  <2> QED
    BY <1>1, <1>12, <2>1, <2>3, OrderIdle DEF LoadProvider
<1>13. CASE LoadCyclic
  BY <1>1, <1>13, OrderCyclic
<1> QED
  BY <1>2, <1>3, <1>5, <1>6, <1>8, <1>10, <1>11, <1>12, <1>13 DEF Next, Step

(* The walks implement BuildOrder as well, for all files and all trees:    *)
(* a file is resolved after it is collected, and after every file that     *)
(* declares a module it imports has been resolved, however the loads nest. *)
THEOREM NamesImplementOrder == Spec => ImplementsOrder
<1>1. Linking /\ Linking' /\ [Next]_vars => [Order!Next]_(Order!vars)
  BY OrderStep
<1>2. Spec => []Linking
  BY LinkingHolds
<1>3. Spec => Order!Spec
  BY <1>1, <1>2, OrderInit, PTL DEF Spec, Order!Spec
<1> QED
  BY <1>3 DEF ImplementsOrder
=============================================================================
