--------------------------- MODULE NamesTablesProofs ---------------------------
(***************************************************************************)
(* The tables of Names and what the walks have still before them: these    *)
(* parts of the invariant, for any files and any programs.                 *)
(***************************************************************************)
EXTENDS NamesCallsProofs

(* The tables, and what of the invariant speaks of them alone.             *)
TablesTyped ==
  /\ modules \in [Module -> 0 .. Len(scopes)]
  /\ scopes \in Seq(Scope) /\ symbols \in Seq(Symbol)
  /\ symbolOf \in [Node -> 0 .. Len(symbols)]
  /\ scopeOf \in [Node -> 0 .. Len(scopes)]
  /\ reported \subseteq Node
Tables == InTree /\ TablesTyped /\ Scoped /\ ScopesFollowTree /\ Entries /\ Accounted

LEMMA TableFacts ==
  ASSUME Tables
  PROVE  /\ Len(scopes) \in Nat /\ DOMAIN scopes = 1 .. Len(scopes) /\ 1 \in DOMAIN scopes
         /\ \A s \in DOMAIN scopes : scopes[s].parent \in Nat /\ scopes[s].table \in [Name -> Nat]
         /\ Len(symbols) \in Nat /\ DOMAIN symbols = 1 .. Len(symbols)
         /\ \A i \in DOMAIN symbols : symbols[i].name \in Name /\ symbols[i].node \in Nat
         /\ \A n \in Node : n \in Nat /\ symbolOf[n] \in 0 .. Len(symbols) /\ scopeOf[n] \in 0 .. Len(scopes)
         /\ \A m \in Module : modules[m] \in 0 .. Len(scopes)
         /\ Builtin \in Module
<1>1. scopes \in Seq(Scope) /\ symbols \in Seq(Symbol) /\ 1 \in DOMAIN scopes
  BY DEF Tables, TablesTyped, Scoped
<1>2. Len(scopes) \in Nat /\ DOMAIN scopes = 1 .. Len(scopes)
  BY <1>1, LenProperties
<1>3. Len(symbols) \in Nat /\ DOMAIN symbols = 1 .. Len(symbols)
  BY <1>1, LenProperties
<1>4. \A s \in DOMAIN scopes : scopes[s] \in Scope
  BY <1>1, <1>2, ElementOfSeq
<1>5. \A i \in DOMAIN symbols : symbols[i] \in Symbol
  BY <1>1, <1>3, ElementOfSeq
<1>6. \A n \in Node : n \in Nat
  BY TreeFacts DEF Tables
<1> QED
  BY <1>1, <1>2, <1>3, <1>4, <1>5, <1>6, NamesAssumption DEF Tables, TablesTyped, Scope, Symbol

(* The scope of the declaration around a node, once there is one, stays.   *)
ScopesStay == \A m \in Node : scopeOf[m] # 0 => scopeOf'[m] = scopeOf[m]

LEMMA HomeScopeStays ==
  ASSUME InTree, tree' = tree, ScopesStay, NEW n \in Node, Homes(n) # {}, HomeScope(n) # 0
  PROVE  Homes(n)' = Homes(n) /\ HomeScope(n)' = HomeScope(n)
<1>1. Homes(n)' = Homes(n)
  BY TreeStays
<1>2. Greatest(Homes(n)) \in Node
  BY GreatestHome
<1>3. Greatest(Homes(n))' = Greatest(Homes(n))
  BY <1>1 DEF Greatest
<1> QED
  BY <1>1, <1>2, <1>3 DEF HomeScope, ScopesStay

LEMMA CanonStays ==
  ASSUME tree' = tree
  PROVE  \A h : Canon(h)' = Canon(h)
  BY DEF Canon, Least, Node, Kind, NameOf

ParentsKept ==
  /\ scopes' \in Seq(Scope)
  /\ \A s \in DOMAIN scopes : s \in DOMAIN scopes' /\ scopes'[s].parent = scopes[s].parent

(* The tree of scopes after each kind of step.                             *)
LEMMA SameScopes ==
  ASSUME Tables, tree' = tree, ParentsKept, scopeOf' = scopeOf, modules' = modules, Len(scopes') = Len(scopes)
  PROVE  Scoped' /\ ScopesFollowTree'
<1>1. /\ Node' = Node /\ \A n : Kind(n)' = Kind(n) /\ NameOf(n)' = NameOf(n) /\ Homes(n)' = Homes(n)
      /\ \A h : Canon(h)' = Canon(h)
  BY TreeStays, CanonStays
<1>2. \A n : Greatest(Homes(n))' = Greatest(Homes(n))
  BY <1>1 DEF Greatest
<1>3. \A n : HomeScope(n)' = HomeScope(n)
  BY <1>2 DEF HomeScope
<1>4. DOMAIN scopes' = DOMAIN scopes /\ 1 \in DOMAIN scopes
  <2>1. Len(scopes') \in Nat /\ DOMAIN scopes' = 1 .. Len(scopes')
    BY LenProperties DEF ParentsKept
  <2> QED
    BY <2>1, TableFacts DEF ParentsKept
<1>5. Scoped'
  BY <1>1, <1>3, <1>4 DEF Scoped, Tables, ParentsKept
<1>6. \A n \in Node : scopeOf[n] # 0 => scopeOf[n] \in DOMAIN scopes
  BY TableFacts
<1>7. ScopesFollowTree'
  BY <1>1, <1>2, <1>4, <1>6 DEF ScopesFollowTree, Tables, ParentsKept
<1> QED
  BY <1>5, <1>7

LEMMA InnerScope ==
  ASSUME Tables, tree' = tree, ParentsKept, NEW n \in Node, scopeOf[n] = 0,
         Kind(n) \in HomeKinds \ {"module"}, Homes(n) # {}, HomeScope(n) # 0,
         modules' = modules, Len(scopes') = Len(scopes) + 1,
         scopes'[Len(scopes) + 1].parent = HomeScope(n),
         scopeOf' = [scopeOf EXCEPT ![n] = Len(scopes) + 1]
  PROVE  Scoped' /\ ScopesFollowTree'
<1> DEFINE L == Len(scopes)
<1>1. /\ Node' = Node /\ \A m : Kind(m)' = Kind(m) /\ NameOf(m)' = NameOf(m) /\ Homes(m)' = Homes(m)
      /\ \A h : Canon(h)' = Canon(h)
  BY TreeStays, CanonStays
<1>2. \A m : Greatest(Homes(m))' = Greatest(Homes(m))
  BY <1>1 DEF Greatest
<1>3. /\ scopeOf'[n] = L + 1
      /\ \A m \in Node : m # n => scopeOf'[m] = scopeOf[m]
      /\ ScopesStay
  BY DEF ScopesStay, Tables, TablesTyped
<1>4. /\ DOMAIN scopes = 1 .. L /\ DOMAIN scopes' = 1 .. L + 1 /\ L \in Nat \ {0} /\ 1 \in DOMAIN scopes'
  <2>1. Len(scopes') \in Nat /\ DOMAIN scopes' = 1 .. Len(scopes')
    BY LenProperties DEF ParentsKept
  <2>2. L \in Nat /\ DOMAIN scopes = 1 .. L /\ 1 \in DOMAIN scopes
    BY TableFacts
  <2>3. Len(scopes') = L \/ Len(scopes') = L + 1
    OBVIOUS
  <2>4. 1 \in DOMAIN scopes'
    BY <2>2 DEF ParentsKept
  <2>5. L # 0
    BY <2>2
  <2> QED
    BY <2>1, <2>2, <2>3, <2>4, <2>5
<1>5. \A m \in Node : Homes(m) # {} /\ HomeScope(m) # 0 => Homes(m)' # {} /\ HomeScope(m)' = HomeScope(m)
  BY <1>3, HomeScopeStays DEF Tables
<1>6. /\ \A m \in Node : scopeOf[m] \in 0 .. L
      /\ \A m \in Module : modules[m] \in 0 .. L
      /\ HomeScope(n) \in 1 .. L
  <2>1. Greatest(Homes(n)) \in Node
    BY GreatestHome DEF Tables
  <2> QED
    BY <2>1, TableFacts DEF HomeScope
<1> HIDE DEF L
<1>7. Scoped'
  <2>1. modules'[Builtin] = 1 /\ 1 \in DOMAIN scopes' /\ scopes'[1].parent = 0
    BY <1>4 DEF Tables, Scoped, ParentsKept
  <2>2. \A s \in DOMAIN scopes' : scopes'[s].parent < s
    <3> TAKE s \in DOMAIN scopes'
    <3>1. CASE s \in 1 .. L
      BY <1>4, <3>1 DEF Tables, Scoped, ParentsKept
    <3>2. CASE s = L + 1
      BY <1>4, <1>6, <3>2 DEF L
    <3> QED
      BY <1>4, <3>1, <3>2
  <2>3. \A l, m \in Module : modules'[l] # 0 /\ modules'[l] = modules'[m] => l = m
    BY DEF Tables, Scoped
  <2>4. \A m \in Module : modules'[m] # 0 /\ m # Builtin =>
          \E k \in Node : Kind(k) = "module" /\ NameOf(k) = m /\ scopeOf'[k] # 0
    BY <1>3 DEF Tables, Scoped, ScopesStay
  <2>5. ASSUME NEW m \in Node, scopeOf'[m] # 0
        PROVE  /\ Kind(m) \in HomeKinds \cup {"init"}
               /\ Kind(m) \in HomeKinds \ {"module"} => \A l \in Module : modules'[l] # scopeOf'[m]
               /\ Kind(m) # "module" => Homes(m)' # {} /\ HomeScope(m)' # 0
    <3>1. CASE m = n
      BY <1>1, <1>3, <1>4, <1>5, <1>6, <3>1
    <3>2. CASE m # n
      BY <1>1, <1>3, <1>5, <2>5, <3>2 DEF Tables, Scoped
    <3> QED
      BY <3>1, <3>2
  <2> QED
    BY <1>1, <2>1, <2>2, <2>3, <2>4, <2>5 DEF Scoped
<1>8. ASSUME NEW m \in Node, scopeOf'[m] # 0
      PROVE  /\ Kind(m) = "init" => scopeOf'[m] = scopeOf'[Greatest(Homes(m))]
             /\ Kind(m) \notin {"module", "init"} => scopes'[scopeOf'[m]].parent = scopeOf'[Greatest(Homes(m))]
             /\ Kind(m) = "module" => /\ scopeOf'[m] = modules'[NameOf(m)]
                                      /\ scopes'[scopeOf'[m]].parent = IF NameOf(m) = Builtin THEN 0 ELSE 1
  <2>1. Kind(m) # "module" => scopeOf'[Greatest(Homes(m))] = scopeOf[Greatest(Homes(m))]
    <3>1. Kind(m) # "module" => Homes(m) # {} /\ HomeScope(m) # 0
      BY <1>3, <1>8 DEF Tables, Scoped
    <3> QED
      BY <1>2, <1>5, <3>1 DEF HomeScope
  <2>2. CASE m = n
    BY <1>3, <2>1, <2>2 DEF HomeScope, HomeKinds, Opening, L
  <2>3. CASE m # n
    <3>1. scopeOf'[m] = scopeOf[m] /\ scopeOf[m] \in DOMAIN scopes
      BY <1>3, <1>4, <1>6, <1>8, <2>3
    <3> QED
      BY <1>8, <2>1, <3>1 DEF Tables, ScopesFollowTree, ParentsKept
  <2> QED
    BY <2>2, <2>3
<1>9. ASSUME NEW l \in Node, NEW m \in Node, scopeOf'[l] # 0, scopeOf'[l] = scopeOf'[m],
             "init" \notin {Kind(l), Kind(m)}
      PROVE  Canon(l) = Canon(m)
  <2>1. CASE l = n \/ m = n
    BY <1>3, <1>4, <1>6, <1>9, <2>1
  <2>2. CASE l # n /\ m # n
    BY <1>3, <1>9, <2>2 DEF Tables, ScopesFollowTree
  <2> QED
    BY <2>1, <2>2
<1>10. ScopesFollowTree'
  BY <1>1, <1>2, <1>8, <1>9 DEF ScopesFollowTree
<1> QED
  BY <1>7, <1>10

LEMMA InitScope ==
  ASSUME Tables, tree' = tree, scopes' = scopes, modules' = modules, NEW n \in Node, scopeOf[n] = 0,
         Kind(n) = "init", Homes(n) # {}, HomeScope(n) # 0,
         scopeOf' = [scopeOf EXCEPT ![n] = HomeScope(n)]
  PROVE  Scoped' /\ ScopesFollowTree'
<1>1. /\ Node' = Node /\ \A m : Kind(m)' = Kind(m) /\ NameOf(m)' = NameOf(m) /\ Homes(m)' = Homes(m)
      /\ \A h : Canon(h)' = Canon(h)
  BY TreeStays, CanonStays
<1>2. \A m : Greatest(Homes(m))' = Greatest(Homes(m))
  BY <1>1 DEF Greatest
<1>3. /\ scopeOf'[n] = HomeScope(n)
      /\ \A m \in Node : m # n => scopeOf'[m] = scopeOf[m]
      /\ ScopesStay
  BY DEF ScopesStay, Tables, TablesTyped
<1>5. \A m \in Node : Homes(m) # {} /\ HomeScope(m) # 0 => Homes(m)' # {} /\ HomeScope(m)' = HomeScope(m)
  BY <1>3, HomeScopeStays DEF Tables
<1>6. "init" \notin HomeKinds
  BY DEF HomeKinds, Opening
<1>7. Scoped'
  <2>1. \A m \in Module : modules'[m] # 0 /\ m # Builtin =>
          \E k \in Node : Kind(k) = "module" /\ NameOf(k) = m /\ scopeOf'[k] # 0
    BY <1>3 DEF Tables, Scoped, ScopesStay
  <2>2. ASSUME NEW m \in Node, scopeOf'[m] # 0
        PROVE  /\ Kind(m) \in HomeKinds \cup {"init"}
               /\ Kind(m) \in HomeKinds \ {"module"} => \A l \in Module : modules'[l] # scopeOf'[m]
               /\ Kind(m) # "module" => Homes(m)' # {} /\ HomeScope(m)' # 0
    <3>1. CASE m = n
      BY <1>1, <1>3, <1>5, <1>6, <3>1
    <3>2. CASE m # n
      BY <1>1, <1>3, <1>5, <2>2, <3>2 DEF Tables, Scoped
    <3> QED
      BY <3>1, <3>2
  <2> QED
    BY <1>1, <2>1, <2>2 DEF Scoped, Tables
<1>8. ASSUME NEW m \in Node, scopeOf'[m] # 0
      PROVE  /\ Kind(m) = "init" => scopeOf'[m] = scopeOf'[Greatest(Homes(m))]
             /\ Kind(m) \notin {"module", "init"} => scopes'[scopeOf'[m]].parent = scopeOf'[Greatest(Homes(m))]
             /\ Kind(m) = "module" => /\ scopeOf'[m] = modules'[NameOf(m)]
                                      /\ scopes'[scopeOf'[m]].parent = IF NameOf(m) = Builtin THEN 0 ELSE 1
  <2>1. Kind(m) # "module" => scopeOf'[Greatest(Homes(m))] = scopeOf[Greatest(Homes(m))]
    <3>1. Kind(m) # "module" => Homes(m) # {} /\ HomeScope(m) # 0
      BY <1>3, <1>8 DEF Tables, Scoped
    <3> QED
      BY <1>2, <1>5, <3>1 DEF HomeScope
  <2>2. CASE m = n
    BY <1>3, <2>1, <2>2 DEF HomeScope
  <2>3. CASE m # n
    BY <1>3, <1>8, <2>1, <2>3 DEF Tables, ScopesFollowTree
  <2> QED
    BY <2>2, <2>3
<1>9. ASSUME NEW l \in Node, NEW m \in Node, scopeOf'[l] # 0, scopeOf'[l] = scopeOf'[m],
             "init" \notin {Kind(l), Kind(m)}
      PROVE  Canon(l) = Canon(m)
  BY <1>3, <1>9 DEF Tables, ScopesFollowTree
<1>10. ScopesFollowTree'
  BY <1>1, <1>2, <1>8, <1>9 DEF ScopesFollowTree
<1> QED
  BY <1>7, <1>10

(* A module: s is its scope, a new one if it had none.                     *)
ModuleIn(n, s) ==
  /\ modules[NameOf(n)] # 0 => s = modules[NameOf(n)] /\ Len(scopes') = Len(scopes)
  /\ modules[NameOf(n)] = 0 => /\ s = Len(scopes) + 1 /\ Len(scopes') = Len(scopes) + 1
                               /\ scopes'[s].parent = 1
  /\ modules' = [modules EXCEPT ![NameOf(n)] = s]
  /\ scopeOf' = [scopeOf EXCEPT ![n] = s]

LEMMA ModuleScope ==
  ASSUME Tables, tree' = tree, ParentsKept, NEW n \in Node, scopeOf[n] = 0, Kind(n) = "module",
         NEW s \in Nat, s # 0, ModuleIn(n, s)
  PROVE  Scoped' /\ ScopesFollowTree'
<1> DEFINE L == Len(scopes)
           x == NameOf(n)
<1>0. x \in Module
  BY TreeFacts DEF Tables, IsParsed, Kind, NameOf
<1>1. /\ Node' = Node /\ \A m : Kind(m)' = Kind(m) /\ NameOf(m)' = NameOf(m) /\ Homes(m)' = Homes(m)
      /\ \A h : Canon(h)' = Canon(h)
  BY TreeStays, CanonStays
<1>2. \A m : Greatest(Homes(m))' = Greatest(Homes(m))
  BY <1>1 DEF Greatest
<1>3. /\ scopeOf'[n] = s
      /\ \A m \in Node : m # n => scopeOf'[m] = scopeOf[m]
      /\ ScopesStay
  BY DEF ScopesStay, Tables, TablesTyped, ModuleIn
<1>4. /\ DOMAIN scopes = 1 .. L /\ L \in Nat /\ 1 <= L /\ 1 \in DOMAIN scopes'
      /\ DOMAIN scopes' = 1 .. Len(scopes') /\ Len(scopes') \in Nat
      /\ (Len(scopes') = L \/ Len(scopes') = L + 1)
  <2>1. Len(scopes') \in Nat /\ DOMAIN scopes' = 1 .. Len(scopes')
    BY LenProperties DEF ParentsKept
  <2>2. L \in Nat /\ DOMAIN scopes = 1 .. L /\ 1 \in DOMAIN scopes
    BY TableFacts
  <2>3. Len(scopes') = L \/ Len(scopes') = L + 1
    BY DEF ModuleIn
  <2>4. 1 \in DOMAIN scopes'
    BY <2>2 DEF ParentsKept
  <2>5. 1 <= L
    BY <2>2
  <2> QED
    BY <2>1, <2>2, <2>3, <2>4, <2>5
<1>5. \A m \in Node : Homes(m) # {} /\ HomeScope(m) # 0 => Homes(m)' # {} /\ HomeScope(m)' = HomeScope(m)
  BY <1>3, HomeScopeStays DEF Tables
<1>6. /\ \A m \in Node : scopeOf[m] \in 0 .. L
      /\ \A m \in Module : modules[m] \in 0 .. L
  BY TableFacts
<1>11. /\ modules'[x] = s
       /\ \A m \in Module : m # x => modules'[m] = modules[m]
       /\ (modules[x] = s \/ (modules[x] = 0 /\ s = L + 1))
  BY <1>0 DEF Tables, TablesTyped, ModuleIn
<1>12. modules[Builtin] = 1 /\ Builtin \in Module
  BY TableFacts DEF Tables, Scoped
<1> HIDE DEF L, x
<1>13. L \in Nat /\ 1 <= L
  BY <1>4
<1>14. DOMAIN scopes = 1 .. L
  BY <1>4
<1>15. 1 \in DOMAIN scopes'
  BY <1>4
<1>16. DOMAIN scopes' = 1 .. L \/ (DOMAIN scopes' = 1 .. L + 1 /\ Len(scopes') = L + 1)
  <2>1. DOMAIN scopes' = 1 .. Len(scopes')
    BY <1>4
  <2>2. Len(scopes') = L \/ Len(scopes') = L + 1
    BY <1>4
  <2> QED
    BY <2>1, <2>2
<1>7. Scoped'
  <2>1. modules'[Builtin] = 1 /\ 1 \in DOMAIN scopes' /\ scopes'[1].parent = 0
    BY <1>0, <1>13, <1>14, <1>15, <1>16, <1>11, <1>12, TableFacts DEF Tables, Scoped, ParentsKept
  <2>2. \A t \in DOMAIN scopes' : scopes'[t].parent < t
    <3> TAKE t \in DOMAIN scopes'
    <3>1. CASE t \in 1 .. L
      BY <1>13, <1>14, <1>15, <1>16, <3>1 DEF Tables, Scoped, ParentsKept
    <3>2. CASE t = L + 1 /\ Len(scopes') = L + 1
      <4>1. s = L + 1 /\ scopes'[s].parent = 1
        <5>1. Len(scopes') # Len(scopes)
          BY <1>13, <3>2 DEF L
        <5>2. modules[NameOf(n)] = 0
          BY <5>1 DEF ModuleIn
        <5> QED
          BY <5>2 DEF ModuleIn, L
      <4> QED
        BY <1>13, <1>14, <1>15, <1>16, <3>2, <4>1
    <3>3. t \in 1 .. L \/ (t = L + 1 /\ Len(scopes') = L + 1)
      BY <1>13, <1>14, <1>16
    <3> QED
      BY <3>1, <3>2, <3>3
  <2>3. ASSUME NEW l \in Module, NEW m \in Module, modules'[l] # 0, modules'[l] = modules'[m] PROVE l = m
    <3>1. \A k \in Module : k # x => modules'[k] = modules[k] /\ modules[k] <= L
      BY <1>13, <1>14, <1>15, <1>16, <1>6, <1>11
    <3>2. \A k \in Module : k # x /\ modules[k] # 0 => modules[k] # s
      BY <1>0, <1>13, <1>14, <1>15, <1>16, <1>11, <3>1 DEF Tables, Scoped
    <3>3. CASE l # x /\ m # x
      BY <2>3, <3>1, <3>3 DEF Tables, Scoped
    <3>4. CASE l = x \/ m = x
      BY <1>11, <2>3, <3>1, <3>2, <3>4
    <3> QED
      BY <3>3, <3>4
  <2>4. ASSUME NEW m \in Module, modules'[m] # 0, m # Builtin
        PROVE  \E k \in Node : Kind(k) = "module" /\ NameOf(k) = m /\ scopeOf'[k] # 0
    <3>1. CASE m = x
      BY <1>3, <3>1 DEF x
    <3>2. CASE m # x
      BY <1>3, <1>11, <2>4, <3>2 DEF Tables, Scoped, ScopesStay
    <3> QED
      BY <3>1, <3>2
  <2>5. ASSUME NEW m \in Node, scopeOf'[m] # 0
        PROVE  /\ Kind(m) \in HomeKinds \cup {"init"}
               /\ Kind(m) \in HomeKinds \ {"module"} => \A l \in Module : modules'[l] # scopeOf'[m]
               /\ Kind(m) # "module" => Homes(m)' # {} /\ HomeScope(m)' # 0
    <3>1. CASE m = n
      BY <3>1 DEF HomeKinds
    <3>2. CASE m # n
      <4>1. /\ Kind(m) \in HomeKinds \cup {"init"} /\ scopeOf[m] \in 1 .. L
            /\ Kind(m) \in HomeKinds \ {"module"} => \A l \in Module : modules[l] # scopeOf[m]
            /\ Kind(m) # "module" => Homes(m)' # {} /\ HomeScope(m)' # 0
        BY <1>1, <1>3, <1>5, <1>6, <2>5, <3>2 DEF Tables, Scoped
      <4>2. Kind(m) \in HomeKinds \ {"module"} => \A l \in Module : modules'[l] # scopeOf[m]
        BY <1>0, <1>13, <1>14, <1>15, <1>16, <1>11, <4>1 DEF x
      <4> QED
        BY <1>3, <3>2, <4>1, <4>2
    <3> QED
      BY <3>1, <3>2
  <2> QED
    BY <1>1, <2>1, <2>2, <2>3, <2>4, <2>5 DEF Scoped
<1>8. ASSUME NEW m \in Node, scopeOf'[m] # 0
      PROVE  /\ Kind(m) = "init" => scopeOf'[m] = scopeOf'[Greatest(Homes(m))]
             /\ Kind(m) \notin {"module", "init"} => scopes'[scopeOf'[m]].parent = scopeOf'[Greatest(Homes(m))]
             /\ Kind(m) = "module" => /\ scopeOf'[m] = modules'[NameOf(m)]
                                      /\ scopes'[scopeOf'[m]].parent = IF NameOf(m) = Builtin THEN 0 ELSE 1
  <2>2. CASE m = n
    <3>1. CASE modules[x] = s
      <4>1. s \in DOMAIN scopes
        BY <1>0, <1>13, <1>14, <1>15, <1>16, <1>6, <3>1
      <4>2. scopes[s].parent = IF x = Builtin THEN 0 ELSE 1
        <5>1. CASE x = Builtin
          BY <1>12, <3>1, <5>1 DEF Tables, Scoped
        <5>2. CASE x # Builtin
          <6>1. PICK k \in Node : Kind(k) = "module" /\ NameOf(k) = x /\ scopeOf[k] # 0
            BY <1>0, <3>1, <5>2 DEF Tables, Scoped
          <6> QED
            BY <3>1, <5>2, <6>1 DEF Tables, ScopesFollowTree
        <5> QED
          BY <5>1, <5>2
      <4> QED
        BY <1>3, <1>11, <2>2, <4>1, <4>2 DEF ParentsKept, x
    <3>2. CASE modules[x] = 0
      BY <1>3, <1>11, <1>12, <2>2, <3>2 DEF x, ModuleIn
    <3> QED
      BY <1>11, <3>1, <3>2
  <2>3. CASE m # n
    <3>1. scopeOf'[m] = scopeOf[m] /\ scopeOf[m] \in DOMAIN scopes
      BY <1>3, <1>13, <1>14, <1>15, <1>16, <1>6, <1>8, <2>3
    <3>2. Kind(m) # "module" => scopeOf'[Greatest(Homes(m))] = scopeOf[Greatest(Homes(m))]
      <4>1. Kind(m) # "module" => Homes(m) # {} /\ HomeScope(m) # 0
        BY <1>8, <3>1 DEF Tables, Scoped
      <4> QED
        BY <1>2, <1>5, <4>1 DEF HomeScope
    <3>3. Kind(m) = "module" => modules'[NameOf(m)] = modules[NameOf(m)]
      <4>1. Kind(m) = "module" => NameOf(m) \in Module /\ scopeOf[m] = modules[NameOf(m)]
        BY <1>8, <3>1, TreeFacts DEF Tables, ScopesFollowTree, IsParsed, Kind, NameOf
      <4> QED
        BY <1>8, <1>11, <3>1, <4>1
    <3> QED
      BY <1>8, <3>1, <3>2, <3>3 DEF Tables, ScopesFollowTree, ParentsKept
  <2> QED
    BY <2>2, <2>3
<1>9. ASSUME NEW l \in Node, NEW m \in Node, scopeOf'[l] # 0, scopeOf'[l] = scopeOf'[m],
             "init" \notin {Kind(l), Kind(m)}
      PROVE  Canon(l) = Canon(m)
  <2>1. ASSUME NEW k \in Node, scopeOf[k] = s, Kind(k) # "init" PROVE Canon(k) = Canon(n)
    <3>1. modules[x] = s
      BY <1>13, <1>14, <1>15, <1>16, <1>6, <1>11, <2>1
    <3>2. Kind(k) = "module"
      BY <1>0, <2>1, <3>1 DEF Tables, Scoped
    <3>3. NameOf(k) \in Module /\ modules[NameOf(k)] = s
      BY <2>1, <3>2, TreeFacts DEF Tables, ScopesFollowTree, IsParsed, Kind, NameOf
    <3>4. NameOf(k) = x
      BY <1>0, <3>1, <3>3 DEF Tables, Scoped
    <3> QED
      BY <3>2, <3>4 DEF Canon, x
  <2>2. CASE l = n /\ m # n
    BY <1>3, <1>9, <2>1, <2>2
  <2>3. CASE m = n /\ l # n
    BY <1>3, <1>9, <2>1, <2>3
  <2>4. CASE l # n /\ m # n
    BY <1>3, <1>9, <2>4 DEF Tables, ScopesFollowTree
  <2> QED
    BY <2>2, <2>3, <2>4
<1>10. ScopesFollowTree'
  BY <1>1, <1>2, <1>8, <1>9 DEF ScopesFollowTree
<1> QED
  BY <1>7, <1>10
-----------------------------------------------------------------------------
(* The entries after each kind of step.                                    *)
TablesKept ==
  /\ \A s \in DOMAIN scopes : s \in DOMAIN scopes' /\ scopes'[s].table = scopes[s].table
  /\ \A s \in DOMAIN scopes' : s \notin DOMAIN scopes => \A x \in Name : scopes'[s].table[x] = 0

LEMMA ScopeOfSymbolStays ==
  ASSUME Tables, tree' = tree, ScopesStay, NEW i \in DOMAIN symbols, symbols'[i] = symbols[i]
  PROVE  ScopeOfSymbol(i)' = ScopeOfSymbol(i)
<1>1. CASE symbols[i].node = 0
  BY <1>1 DEF ScopeOfSymbol
<1>2. CASE symbols[i].node # 0
  <2>1. /\ symbols[i].node \in Node /\ Homes(symbols[i].node) # {}
        /\ ScopeOfSymbol(i) \in DOMAIN scopes
    BY <1>2 DEF Tables, Entries
  <2>2. HomeScope(symbols[i].node) # 0
    BY <1>2, <2>1, TableFacts DEF ScopeOfSymbol
  <2>3. HomeScope(symbols[i].node)' = HomeScope(symbols[i].node)
    <3> DEFINE m == symbols[i].node
    <3> HIDE DEF m
    <3>1. m' = m
      BY DEF m
    <3>2. m \in Node /\ Homes(m) # {} /\ HomeScope(m) # 0
      BY <2>1, <2>2 DEF m
    <3>3. Homes(m)' = Homes(m) /\ Greatest(Homes(m)) \in Node
      BY <3>1, <3>2, TreeStays, GreatestHome DEF Tables, Homes, Ancestors, IsAbove, Kind
    <3> QED
      BY <3>1, <3>2, <3>3 DEF m, HomeScope, ScopesStay, Greatest
  <2> QED
    BY <1>2, <2>3 DEF ScopeOfSymbol
<1> QED
  BY <1>1, <1>2

LEMMA SameEntries ==
  ASSUME Tables, tree' = tree, symbols' = symbols, scopes' \in Seq(Scope), TablesKept, ScopesStay,
         \A n \in Node : Kind(n) \in Opening \cup Leaf => symbolOf'[n] = symbolOf[n] /\ scopeOf'[n] = scopeOf[n]
  PROVE  Entries'
<1>1. Node' = Node /\ \A n : Kind(n)' = Kind(n) /\ NameOf(n)' = NameOf(n) /\ Homes(n)' = Homes(n)
  BY TreeStays
<1>2. \A i \in DOMAIN symbols : ScopeOfSymbol(i)' = ScopeOfSymbol(i)
  BY ScopeOfSymbolStays
<1>3. ASSUME NEW s \in DOMAIN scopes', NEW x \in Name, NEW i \in {scopes'[s].table[x]} \ {0}
      PROVE  i \in DOMAIN symbols' /\ symbols'[i].name = x /\ ScopeOfSymbol(i)' = s
  <2>1. s \in DOMAIN scopes
    BY <1>3 DEF TablesKept
  <2>2. i \in {scopes[s].table[x]} \ {0}
    BY <1>3, <2>1 DEF TablesKept
  <2>3. i \in DOMAIN symbols /\ symbols[i].name = x /\ ScopeOfSymbol(i) = s
    BY <2>1, <2>2 DEF Tables, Entries
  <2> QED
    BY <1>2, <2>3
<1>4. ASSUME NEW i \in DOMAIN symbols'
      PROVE  /\ ScopeOfSymbol(i)' \in DOMAIN scopes'
             /\ scopes'[ScopeOfSymbol(i)'].table[symbols'[i].name] = i
             /\ symbols'[i].node # 0 =>
                  /\ symbols'[i].node \in Node /\ Kind(symbols'[i].node) \in Opening \cup Leaf
                  /\ NameOf(symbols'[i].node) = symbols'[i].name
                  /\ symbolOf'[symbols'[i].node] = i /\ Homes(symbols'[i].node) # {}
  BY <1>2 DEF Tables, Entries, TablesKept
<1>5. ASSUME NEW n \in Node, Kind(n) \in Opening \cup Leaf
      PROVE  /\ symbolOf'[n] # 0 => symbols'[symbolOf'[n]].node = n
             /\ Kind(n) \in Opening /\ scopeOf'[n] # 0 => symbolOf'[n] # 0
  BY <1>5 DEF Tables, Entries
<1> QED
  BY <1>1, <1>3, <1>4, <1>5 DEF Entries

(* A new symbol for n, entered in scope c.                                 *)
NewEntry(n, c) ==
  /\ symbols' \in Seq(Symbol) /\ Len(symbols') = Len(symbols) + 1
  /\ \A i \in DOMAIN symbols : symbols'[i] = symbols[i]
  /\ symbols'[Len(symbols) + 1] = [name |-> NameOf(n), node |-> n]
  /\ symbolOf' = [symbolOf EXCEPT ![n] = Len(symbols) + 1]
  /\ scopes' \in Seq(Scope)
  /\ \A s \in DOMAIN scopes :
       /\ s \in DOMAIN scopes'
       /\ \A x \in Name : scopes'[s].table[x] = IF s = c /\ x = NameOf(n) THEN Len(symbols) + 1
                                                ELSE scopes[s].table[x]
  /\ \A s \in DOMAIN scopes' : s \notin DOMAIN scopes => \A x \in Name : scopes'[s].table[x] = 0
  /\ \A m \in Node : m # n => scopeOf'[m] = scopeOf[m]

LEMMA EntriesWithNew ==
  ASSUME Tables, tree' = tree, NEW n \in Node, Kind(n) \in Opening \cup Leaf,
         symbolOf[n] = 0, scopeOf[n] = 0, Homes(n) # {}, HomeScope(n) # 0,
         scopes[HomeScope(n)].table[NameOf(n)] = 0, NewEntry(n, HomeScope(n))
  PROVE  Entries'
<1> DEFINE S == Len(symbols)
           c == HomeScope(n)
           y == NameOf(n)
<1>1. Node' = Node /\ \A m : Kind(m)' = Kind(m) /\ NameOf(m)' = NameOf(m) /\ Homes(m)' = Homes(m)
  BY TreeStays
<1>2. ScopesStay
  BY DEF ScopesStay, NewEntry
<1>3. \A i \in DOMAIN symbols : ScopeOfSymbol(i)' = ScopeOfSymbol(i)
  BY <1>2, ScopeOfSymbolStays DEF NewEntry
<1>4. S \in Nat /\ DOMAIN symbols = 1 .. S
  BY TableFacts
<1>5. DOMAIN symbols' = 1 .. S + 1
  <2>1. DOMAIN symbols' = 1 .. Len(symbols') /\ Len(symbols') = S + 1
    BY LenProperties DEF NewEntry
  <2> QED
    BY <2>1
<1>6. y \in Name
  BY TreeFacts DEF Tables, IsParsed, Kind, NameOf
<1>7. c \in DOMAIN scopes
  <2>1. Greatest(Homes(n)) \in Node
    BY GreatestHome DEF Tables
  <2> QED
    BY <2>1, TableFacts DEF HomeScope
<1>8. ASSUME NEW i, i = S + 1
      PROVE  /\ symbols'[i].node = n /\ symbols'[i].name = y /\ symbolOf'[n] = i
             /\ ScopeOfSymbol(i)' = c
             /\ \A s \in DOMAIN scopes : \A x \in Name :
                  scopes'[s].table[x] = IF s = c /\ x = y THEN i ELSE scopes[s].table[x]
  <2>1. symbols'[i].node = n /\ symbols'[i].name = y
    BY <1>8 DEF NewEntry
  <2>2. HomeScope(n)' = HomeScope(n)
    BY <1>2, HomeScopeStays DEF Tables
  <2>3. n # 0
    BY TreeFacts DEF Tables
  <2>4. HomeScope(symbols[i].node)' = HomeScope(n)'
    BY <1>1, <2>1 DEF HomeScope, Greatest, Homes, Ancestors, IsAbove, Kind
  <2>5. ScopeOfSymbol(i)' = c
    BY <2>1, <2>2, <2>3, <2>4 DEF ScopeOfSymbol
  <2>6. symbolOf'[n] = i
    BY <1>8 DEF NewEntry, Tables, TablesTyped
  <2>7. \A s \in DOMAIN scopes : \A x \in Name :
          scopes'[s].table[x] = IF s = c /\ x = y THEN i ELSE scopes[s].table[x]
    BY <1>8 DEF NewEntry
  <2> QED
    BY <2>1, <2>5, <2>6, <2>7
<1>9. PICK new : new = S + 1
  OBVIOUS
<1>10. new \in Nat /\ new # 0 /\ new \in DOMAIN symbols' /\ new \notin DOMAIN symbols
  BY <1>4, <1>5, <1>9
<1>11. DOMAIN symbols' = DOMAIN symbols \cup {new}
  BY <1>4, <1>5, <1>9
<1>12. /\ \A i \in DOMAIN symbols : symbols'[i] = symbols[i]
       /\ \A m \in Node : m # n => symbolOf'[m] = symbolOf[m] /\ scopeOf'[m] = scopeOf[m]
       /\ \A s \in DOMAIN scopes : s \in DOMAIN scopes'
       /\ \A s \in DOMAIN scopes' : s \notin DOMAIN scopes => \A x \in Name : scopes'[s].table[x] = 0
  BY DEF NewEntry, Tables, TablesTyped
<1>13. scopes[c].table[y] = 0
  OBVIOUS
<1> HIDE DEF S, c, y
<1>14. ASSUME NEW s \in DOMAIN scopes', NEW x \in Name, NEW i \in {scopes'[s].table[x]} \ {0}
       PROVE  i \in DOMAIN symbols' /\ symbols'[i].name = x /\ ScopeOfSymbol(i)' = s
  <2>1. s \in DOMAIN scopes
    BY <1>12, <1>14
  <2>2. CASE s = c /\ x = y
    BY <1>8, <1>9, <1>10, <2>1, <2>2
  <2>3. CASE ~(s = c /\ x = y)
    <3>1. i \in {scopes[s].table[x]} \ {0}
      BY <1>8, <1>9, <2>1, <2>3
    <3>2. i \in DOMAIN symbols /\ symbols[i].name = x /\ ScopeOfSymbol(i) = s
      BY <2>1, <3>1 DEF Tables, Entries
    <3> QED
      BY <1>3, <1>11, <1>12, <3>2
  <2> QED
    BY <2>2, <2>3
<1>15. ASSUME NEW i \in DOMAIN symbols'
       PROVE  /\ ScopeOfSymbol(i)' \in DOMAIN scopes'
              /\ scopes'[ScopeOfSymbol(i)'].table[symbols'[i].name] = i
              /\ symbols'[i].node # 0 =>
                   /\ symbols'[i].node \in Node /\ Kind(symbols'[i].node) \in Opening \cup Leaf
                   /\ NameOf(symbols'[i].node) = symbols'[i].name
                   /\ symbolOf'[symbols'[i].node] = i /\ Homes(symbols'[i].node) # {}
  <2>1. CASE i = new
    <3>1. symbols'[i].node = n /\ symbols'[i].name = y /\ symbolOf'[n] = i /\ ScopeOfSymbol(i)' = c
      BY <1>8, <1>9, <2>1
    <3>2. scopes'[c].table[y] = i
      BY <1>6, <1>7, <1>8, <1>9, <2>1
    <3> QED
      BY <1>7, <1>12, <3>1, <3>2 DEF y
  <2>2. CASE i # new
    <3>1. i \in DOMAIN symbols /\ symbols'[i] = symbols[i] /\ ScopeOfSymbol(i)' = ScopeOfSymbol(i)
      BY <1>3, <1>11, <1>12, <2>2
    <3>2. /\ ScopeOfSymbol(i) \in DOMAIN scopes
          /\ scopes[ScopeOfSymbol(i)].table[symbols[i].name] = i
          /\ symbols[i].node # 0 =>
                   /\ symbols[i].node \in Node /\ Kind(symbols[i].node) \in Opening \cup Leaf
                   /\ NameOf(symbols[i].node) = symbols[i].name
                   /\ symbolOf[symbols[i].node] = i /\ Homes(symbols[i].node) # {}
      BY <3>1 DEF Tables, Entries
    <3>3. i # 0 /\ symbols[i].name \in Name
      BY <3>1, TableFacts
    <3>4. ~(ScopeOfSymbol(i) = c /\ symbols[i].name = y)
      BY <1>13, <3>2, <3>3
    <3>5. scopes'[ScopeOfSymbol(i)].table[symbols[i].name] = i
      BY <1>8, <1>9, <3>2, <3>3, <3>4
    <3>6. symbols[i].node # 0 => symbols[i].node # n
      BY <3>2, <3>3
    <3> QED
      BY <1>12, <3>1, <3>2, <3>5, <3>6
  <2> QED
    BY <2>1, <2>2
<1>16. ASSUME NEW m \in Node, Kind(m) \in Opening \cup Leaf
       PROVE  /\ symbolOf'[m] # 0 => symbols'[symbolOf'[m]].node = m
              /\ Kind(m) \in Opening /\ scopeOf'[m] # 0 => symbolOf'[m] # 0
  <2>1. CASE m = n
    BY <1>8, <1>9, <1>10, <2>1
  <2>2. CASE m # n
    <3>1. symbolOf[m] # 0 => symbolOf[m] \in DOMAIN symbols
      BY TableFacts
    <3> QED
      BY <1>12, <1>16, <2>2, <3>1 DEF Tables, Entries
  <2> QED
    BY <2>1, <2>2
<1> QED
  BY <1>1, <1>14, <1>15, <1>16 DEF Entries

LEMMA AccountedStays ==
  ASSUME Tables, tree' = tree, ScopesStay,
         \A a \in reported : symbolOf'[a] = 0 /\ scopeOf'[a] = 0,
         \A s \in DOMAIN scopes : \A x \in Name : scopes[s].table[x] # 0 => scopes'[s].table[x] # 0,
         \A a \in reported' : a \notin reported =>
           /\ a \in Node /\ Kind(a) \in Opening \cup Leaf
           /\ symbolOf'[a] = 0 /\ scopeOf'[a] = 0
           /\ Homes(a) # {} /\ HomeScope(a) # 0
           /\ scopes[HomeScope(a)].table[NameOf(a)] # 0
  PROVE  Accounted'
<1>1. ASSUME NEW a \in reported'
      PROVE  /\ Kind(a) \in Opening \cup Leaf
             /\ symbolOf'[a] = 0 /\ scopeOf'[a] = 0
             /\ Homes(a)' # {} /\ HomeScope(a)' # 0
             /\ scopes'[HomeScope(a)'].table[NameOf(a)] # 0
  <2>1. /\ a \in Node /\ Kind(a) \in Opening \cup Leaf
        /\ symbolOf'[a] = 0 /\ scopeOf'[a] = 0
        /\ Homes(a) # {} /\ HomeScope(a) # 0
        /\ scopes[HomeScope(a)].table[NameOf(a)] # 0
    BY DEF Tables, TablesTyped, Accounted
  <2>2. Homes(a)' = Homes(a) /\ HomeScope(a)' = HomeScope(a)
    BY <2>1, HomeScopeStays DEF Tables
  <2>3. HomeScope(a) \in DOMAIN scopes
    <3>1. Greatest(Homes(a)) \in Node
      BY <2>1, GreatestHome DEF Tables
    <3> QED
      BY <2>1, <3>1, TableFacts DEF HomeScope
  <2>4. NameOf(a) \in Name
    BY <2>1, TreeFacts DEF Tables, IsParsed, Kind, NameOf
  <2> QED
    BY <2>1, <2>2, <2>3, <2>4
<1> QED
  BY <1>1, TreeStays DEF Accounted
-----------------------------------------------------------------------------
(* The tables after each action.                                           *)
LEMMA SameTables ==
  ASSUME Tables, UNCHANGED <<tree, tables>>
  PROVE  Tables'
<1>1. /\ tree' = tree /\ modules' = modules /\ scopes' = scopes /\ symbols' = symbols
      /\ symbolOf' = symbolOf /\ scopeOf' = scopeOf /\ reported' = reported
  BY DEF tables
<1>2. ParentsKept /\ TablesKept /\ ScopesStay
  BY <1>1 DEF ParentsKept, TablesKept, ScopesStay, Tables, TablesTyped
<1>3. Scoped' /\ ScopesFollowTree'
  BY <1>1, <1>2, SameScopes
<1>4. Entries'
  BY <1>1, <1>2, SameEntries DEF ParentsKept
<1>5. Accounted'
  <2>1. \A a \in reported : symbolOf'[a] = 0 /\ scopeOf'[a] = 0
    BY <1>1 DEF Tables, Accounted
  <2> QED
    BY <1>1, <1>2, <2>1, AccountedStays
<1>6. TablesTyped'
  BY <1>1, TreeStays DEF TablesTyped, Tables
<1> QED
  BY <1>3, <1>4, <1>5, <1>6, TreeStays, <1>1 DEF Tables

LEMMA BindTables ==
  ASSUME Tables, UNCHANGED <<tree, modules, scopes, symbols, scopeOf, reported>>,
         NEW n \in Node, Kind(n) \in Bound, NEW i \in DOMAIN symbols,
         symbolOf' = [symbolOf EXCEPT ![n] = i]
  PROVE  Tables'
<1>1. /\ tree' = tree /\ modules' = modules /\ scopes' = scopes /\ symbols' = symbols
      /\ scopeOf' = scopeOf /\ reported' = reported
  OBVIOUS
<1>2. ParentsKept /\ TablesKept /\ ScopesStay
  BY <1>1 DEF ParentsKept, TablesKept, ScopesStay, Tables, TablesTyped
<1>3. Scoped' /\ ScopesFollowTree'
  BY <1>1, <1>2, SameScopes
<1>7. /\ Bound \cap (Opening \cup Leaf) = {}
      /\ \A m \in Node : Kind(m) \in Opening \cup Leaf => symbolOf'[m] = symbolOf[m]
  <2>1. Bound \cap (Opening \cup Leaf) = {}
    BY DEF Bound, Use, Opening, Leaf
  <2> QED
    BY <2>1 DEF Tables, TablesTyped
<1>4. Entries'
  BY <1>1, <1>2, <1>7, SameEntries DEF ParentsKept
<1>5. Accounted'
  <2>1. \A a \in reported : symbolOf'[a] = 0 /\ scopeOf'[a] = 0
    BY <1>1, <1>7 DEF Tables, TablesTyped, Accounted
  <2> QED
    BY <1>1, <1>2, <2>1, AccountedStays
<1>6. TablesTyped'
  <2>1. i \in 0 .. Len(symbols)
    BY TableFacts
  <2> QED
    BY <1>1, <2>1, TreeStays DEF TablesTyped, Tables
<1> QED
  BY <1>3, <1>4, <1>5, <1>6, TreeStays, <1>1 DEF Tables

LEMMA RedeclaredTables ==
  ASSUME Tables, UNCHANGED <<tree, modules, scopes, symbols, symbolOf, scopeOf>>,
         NEW n \in Node, Kind(n) \in Opening \cup Leaf, symbolOf[n] = 0, scopeOf[n] = 0,
         Homes(n) # {}, HomeScope(n) # 0, scopes[HomeScope(n)].table[NameOf(n)] # 0,
         reported' = reported \cup {n}
  PROVE  Tables'
<1>1. /\ tree' = tree /\ modules' = modules /\ scopes' = scopes /\ symbols' = symbols
      /\ scopeOf' = scopeOf /\ symbolOf' = symbolOf
  OBVIOUS
<1>2. ParentsKept /\ TablesKept /\ ScopesStay
  BY <1>1 DEF ParentsKept, TablesKept, ScopesStay, Tables, TablesTyped
<1>3. Scoped' /\ ScopesFollowTree'
  BY <1>1, <1>2, SameScopes
<1>4. Entries'
  BY <1>1, <1>2, SameEntries DEF ParentsKept
<1>5. Accounted'
  <2>1. \A a \in reported : symbolOf'[a] = 0 /\ scopeOf'[a] = 0
    BY <1>1 DEF Tables, TablesTyped, Accounted
  <2> QED
    BY <1>1, <1>2, <2>1, AccountedStays
<1>6. TablesTyped'
  BY <1>1, TreeStays DEF TablesTyped, Tables
<1> QED
  BY <1>3, <1>4, <1>5, <1>6, TreeStays, <1>1 DEF Tables

(* A scope p at the end of the list.                                       *)
LEMMA ScopeAppended ==
  ASSUME NEW S \in Seq(Scope), NEW p \in Nat
  PROVE  LET T == Append(S, [parent |-> p, table |-> NoEntries])
         IN  /\ T \in Seq(Scope) /\ Len(T) = Len(S) + 1 /\ Len(S) \in Nat
             /\ DOMAIN S = 1 .. Len(S) /\ DOMAIN T = 1 .. Len(S) + 1
             /\ \A s \in DOMAIN S : s \in DOMAIN T /\ T[s] = S[s]
             /\ T[Len(S) + 1].parent = p
             /\ \A s \in DOMAIN T : s \notin DOMAIN S => s = Len(S) + 1 /\ \A x \in Name : T[s].table[x] = 0
<1> DEFINE r == [parent |-> p, table |-> NoEntries]
           T == Append(S, r)
<1>1. r \in Scope /\ r.parent = p /\ \A x \in Name : r.table[x] = 0
  BY DEF Scope, NoEntries
<1> HIDE DEF r
<1>2. /\ T \in Seq(Scope) /\ Len(T) = Len(S) + 1 /\ \A s \in 1 .. Len(S) : T[s] = S[s]
      /\ T[Len(S) + 1] = r
  BY <1>1, AppendProperties
<1>3. Len(S) \in Nat /\ DOMAIN S = 1 .. Len(S) /\ DOMAIN T = 1 .. Len(T)
  BY <1>2, LenProperties
<1> HIDE DEF T
<1>4. DOMAIN T = 1 .. Len(S) + 1
  BY <1>2, <1>3
<1>5. \A s \in DOMAIN T : s \notin DOMAIN S => s = Len(S) + 1
  BY <1>3, <1>4
<1>6. \A s \in DOMAIN S : s \in DOMAIN T
  BY <1>3, <1>4
<1> QED
  BY <1>1, <1>2, <1>3, <1>4, <1>5, <1>6 DEF T, r

LEMMA NewScopeAppended ==
  ASSUME scopes \in Seq(Scope), NEW p \in Nat, scopes' = NewScope(p)
  PROVE  /\ scopes' \in Seq(Scope) /\ Len(scopes') = Len(scopes) + 1 /\ Len(scopes) \in Nat
         /\ \A s \in DOMAIN scopes : s \in DOMAIN scopes' /\ scopes'[s] = scopes[s]
         /\ scopes'[Len(scopes) + 1].parent = p
         /\ \A s \in DOMAIN scopes' : s \notin DOMAIN scopes => \A x \in Name : scopes'[s].table[x] = 0
  BY ScopeAppended DEF NewScope

LEMMA ImplTables ==
  ASSUME Tables, UNCHANGED <<tree, modules, symbols, symbolOf, reported>>,
         NEW n \in Node, Kind(n) = "impl", scopeOf[n] = 0, Homes(n) # {}, HomeScope(n) # 0,
         scopes' = NewScope(HomeScope(n)), scopeOf' = [scopeOf EXCEPT ![n] = Len(scopes) + 1]
  PROVE  Tables'
<1>1. /\ tree' = tree /\ modules' = modules /\ symbols' = symbols /\ symbolOf' = symbolOf /\ reported' = reported
      /\ scopes \in Seq(Scope) /\ HomeScope(n) \in Nat
  <2>1. Greatest(Homes(n)) \in Node
    BY GreatestHome DEF Tables
  <2> QED
    BY <2>1, TableFacts DEF HomeScope, Tables, TablesTyped
<1>2. /\ scopes' \in Seq(Scope) /\ Len(scopes') = Len(scopes) + 1 /\ Len(scopes) \in Nat
      /\ \A s \in DOMAIN scopes : s \in DOMAIN scopes' /\ scopes'[s] = scopes[s]
      /\ scopes'[Len(scopes) + 1].parent = HomeScope(n)
      /\ \A s \in DOMAIN scopes' : s \notin DOMAIN scopes => \A x \in Name : scopes'[s].table[x] = 0
  BY <1>1, NewScopeAppended
<1>3. ParentsKept /\ TablesKept /\ ScopesStay
  BY <1>2 DEF ParentsKept, TablesKept, ScopesStay, Tables, TablesTyped
<1>4. Kind(n) \in HomeKinds \ {"module"} /\ Kind(n) \notin Opening \cup Leaf
  BY DEF HomeKinds, Opening, Leaf
<1>5. Scoped' /\ ScopesFollowTree'
  BY <1>1, <1>2, <1>3, <1>4, InnerScope
<1>6. \A m \in Node : Kind(m) \in Opening \cup Leaf => symbolOf'[m] = symbolOf[m] /\ scopeOf'[m] = scopeOf[m]
  BY <1>1, <1>4 DEF Tables, TablesTyped
<1>7. Entries'
  BY <1>1, <1>2, <1>3, <1>6, SameEntries
<1>8. Accounted'
  <2>1. \A a \in reported : symbolOf'[a] = 0 /\ scopeOf'[a] = 0
    BY <1>1, <1>6 DEF Tables, TablesTyped, Accounted
  <2>2. \A s \in DOMAIN scopes : \A x \in Name : scopes[s].table[x] # 0 => scopes'[s].table[x] # 0
    BY <1>2
  <2> QED
    BY <1>1, <1>3, <2>1, <2>2, AccountedStays
<1>9. TablesTyped'
  <2>1. Len(scopes) + 1 \in 0 .. Len(scopes') /\ Len(scopes) <= Len(scopes') /\ Len(scopes') \in Nat
    BY <1>2
  <2>2. modules' \in [Module -> 0 .. Len(scopes')]
    BY <1>1, <1>2, <2>1 DEF Tables, TablesTyped
  <2>3. scopeOf' \in [Node -> 0 .. Len(scopes')]
    BY <1>1, <1>2, <2>1 DEF Tables, TablesTyped
  <2> QED
    BY <1>1, <1>2, <2>2, <2>3, TreeStays DEF TablesTyped, Tables
<1> QED
  BY <1>1, <1>5, <1>7, <1>8, <1>9, TreeStays DEF Tables

LEMMA ModuleTables ==
  ASSUME Tables, UNCHANGED <<tree, symbols, symbolOf, reported>>,
         NEW n \in Node, Kind(n) = "module", scopeOf[n] = 0, NEW s,
         s = IF modules[NameOf(n)] # 0 THEN modules[NameOf(n)] ELSE Len(scopes) + 1,
         scopes' = IF modules[NameOf(n)] # 0 THEN scopes ELSE NewScope(modules[Builtin]),
         modules' = [modules EXCEPT ![NameOf(n)] = s],
         scopeOf' = [scopeOf EXCEPT ![n] = s]
  PROVE  Tables' /\ s \in Nat \ {0}
<1>1. /\ tree' = tree /\ symbols' = symbols /\ symbolOf' = symbolOf /\ reported' = reported
      /\ scopes \in Seq(Scope) /\ modules[Builtin] = 1 /\ Len(scopes) \in Nat
      /\ NameOf(n) \in Module /\ modules[NameOf(n)] \in 0 .. Len(scopes)
  <2>1. NameOf(n) \in Module
    BY TreeFacts DEF Tables, IsParsed, Kind, NameOf
  <2> QED
    BY <2>1, TableFacts DEF Tables, TablesTyped, Scoped
<1>2. /\ scopes' \in Seq(Scope) /\ s \in Nat /\ s # 0
      /\ Len(scopes') = (IF modules[NameOf(n)] # 0 THEN Len(scopes) ELSE Len(scopes) + 1)
      /\ \A t \in DOMAIN scopes : t \in DOMAIN scopes' /\ scopes'[t] = scopes[t]
      /\ modules[NameOf(n)] = 0 => scopes'[Len(scopes) + 1].parent = 1
      /\ \A t \in DOMAIN scopes' : t \notin DOMAIN scopes => \A x \in Name : scopes'[t].table[x] = 0
  <2>1. CASE modules[NameOf(n)] # 0
    BY <1>1, <2>1
  <2>2. CASE modules[NameOf(n)] = 0
    <3>1. scopes' = NewScope(1) /\ s = Len(scopes) + 1
      BY <1>1, <2>2
    <3>2. 1 \in Nat
      OBVIOUS
    <3>3. /\ scopes' \in Seq(Scope) /\ Len(scopes') = Len(scopes) + 1
          /\ \A t \in DOMAIN scopes : t \in DOMAIN scopes' /\ scopes'[t] = scopes[t]
          /\ scopes'[Len(scopes) + 1].parent = 1
          /\ \A t \in DOMAIN scopes' : t \notin DOMAIN scopes => \A x \in Name : scopes'[t].table[x] = 0
      BY <1>1, <3>1, <3>2, NewScopeAppended
    <3> QED
      BY <1>1, <2>2, <3>1, <3>3
  <2> QED
    BY <2>1, <2>2
<1>3. ParentsKept /\ TablesKept /\ ScopesStay
  BY <1>2 DEF ParentsKept, TablesKept, ScopesStay, Tables, TablesTyped
<1>4. Kind(n) \notin Opening \cup Leaf
  BY DEF Opening, Leaf
<1>5. Scoped' /\ ScopesFollowTree'
  <2>1. ModuleIn(n, s)
    BY <1>1, <1>2 DEF ModuleIn
  <2> QED
    BY <1>1, <1>2, <1>3, <2>1, ModuleScope
<1>6. \A m \in Node : Kind(m) \in Opening \cup Leaf => symbolOf'[m] = symbolOf[m] /\ scopeOf'[m] = scopeOf[m]
  BY <1>1, <1>4 DEF Tables, TablesTyped
<1>7. Entries'
  BY <1>1, <1>2, <1>3, <1>6, SameEntries
<1>8. Accounted'
  <2>1. \A a \in reported : symbolOf'[a] = 0 /\ scopeOf'[a] = 0
    BY <1>1, <1>6 DEF Tables, TablesTyped, Accounted
  <2>2. \A t \in DOMAIN scopes : \A x \in Name : scopes[t].table[x] # 0 => scopes'[t].table[x] # 0
    BY <1>2
  <2> QED
    BY <1>1, <1>3, <2>1, <2>2, AccountedStays
<1>9. TablesTyped'
  <2>1. s \in 0 .. Len(scopes') /\ Len(scopes) <= Len(scopes') /\ Len(scopes') \in Nat
    BY <1>1, <1>2
  <2>2. modules' \in [Module -> 0 .. Len(scopes')]
    BY <1>1, <2>1 DEF Tables, TablesTyped
  <2>3. scopeOf' \in [Node -> 0 .. Len(scopes')]
    BY <1>1, <2>1 DEF Tables, TablesTyped
  <2> QED
    BY <1>1, <1>2, <2>2, <2>3, TreeStays DEF TablesTyped, Tables
<1> QED
  BY <1>1, <1>2, <1>5, <1>7, <1>8, <1>9, TreeStays DEF Tables

LEMMA InitTables ==
  ASSUME Tables, UNCHANGED <<tree, modules, scopes, symbols, symbolOf, reported>>,
         NEW n \in Node, Kind(n) = "init", scopeOf[n] = 0, Homes(n) # {}, HomeScope(n) # 0,
         scopeOf' = [scopeOf EXCEPT ![n] = HomeScope(n)]
  PROVE  Tables'
<1>1. /\ tree' = tree /\ modules' = modules /\ scopes' = scopes /\ symbols' = symbols
      /\ symbolOf' = symbolOf /\ reported' = reported
      /\ scopes \in Seq(Scope) /\ HomeScope(n) \in 0 .. Len(scopes)
  <2>1. Greatest(Homes(n)) \in Node
    BY GreatestHome DEF Tables
  <2> QED
    BY <2>1, TableFacts DEF HomeScope, Tables, TablesTyped
<1>3. ParentsKept /\ TablesKept /\ ScopesStay
  BY <1>1 DEF ParentsKept, TablesKept, ScopesStay, Tables, TablesTyped
<1>4. Kind(n) \notin Opening \cup Leaf
  BY DEF Opening, Leaf
<1>5. Scoped' /\ ScopesFollowTree'
  BY <1>1, InitScope
<1>6. \A m \in Node : Kind(m) \in Opening \cup Leaf => symbolOf'[m] = symbolOf[m] /\ scopeOf'[m] = scopeOf[m]
  BY <1>1, <1>4 DEF Tables, TablesTyped
<1>7. Entries'
  BY <1>1, <1>3, <1>6, SameEntries
<1>8. Accounted'
  <2>1. \A a \in reported : symbolOf'[a] = 0 /\ scopeOf'[a] = 0
    BY <1>1, <1>6 DEF Tables, TablesTyped, Accounted
  <2> QED
    BY <1>1, <1>3, <2>1, AccountedStays
<1>9. TablesTyped'
  BY <1>1, TreeStays DEF TablesTyped, Tables
<1> QED
  BY <1>1, <1>5, <1>7, <1>8, <1>9, TreeStays DEF Tables

LEMMA DeclaredFacts ==
  ASSUME Tables, NEW n \in Node, NameOf(n) \in Name, Current \in DOMAIN scopes
  PROVE  /\ Declared(n) \in Seq(Scope) /\ Len(Declared(n)) = Len(scopes)
         /\ DOMAIN Declared(n) = DOMAIN scopes
         /\ \A s \in DOMAIN scopes :
              /\ Declared(n)[s].parent = scopes[s].parent
              /\ \A x \in Name : Declared(n)[s].table[x] = IF s = Current /\ x = NameOf(n) THEN Len(symbols) + 1
                                                           ELSE scopes[s].table[x]
<1> DEFINE c == Current
           y == NameOf(n)
           v == Len(symbols) + 1
           t == [scopes[c].table EXCEPT ![y] = v]
           e == [parent |-> scopes[c].parent, table |-> t]
<1>1. scopes \in Seq(Scope) /\ c \in 1 .. Len(scopes) /\ v \in Nat /\ DOMAIN scopes = 1 .. Len(scopes)
  BY TableFacts DEF Tables, TablesTyped
<1>2. scopes[c] \in Scope
  BY <1>1, ElementOfSeq
<1>3. t \in [Name -> Nat] /\ \A x \in Name : t[x] = IF x = y THEN v ELSE scopes[c].table[x]
  BY <1>1, <1>2 DEF Scope
<1>4. e \in Scope /\ e.parent = scopes[c].parent /\ e.table = t
  BY <1>2, <1>3 DEF Scope
<1>5. Declared(n) = [scopes EXCEPT ![c] = e]
  <2>1. [scopes[c] EXCEPT !.table = t] = e
    BY <1>2, SMTT(20) DEF Scope
  <2> QED
    BY <2>1 DEF Declared
<1> HIDE DEF e, t
<1>6. /\ Declared(n) \in Seq(Scope) /\ Len(Declared(n)) = Len(scopes)
      /\ \A s \in 1 .. Len(scopes) : Declared(n)[s] = IF s = c THEN e ELSE scopes[s]
  BY <1>1, <1>4, <1>5, ExceptSeq
<1>7. DOMAIN Declared(n) = 1 .. Len(Declared(n))
  BY <1>6, LenProperties
<1> QED
  BY <1>1, <1>3, <1>4, <1>6, <1>7

LEMMA DeclareTables ==
  ASSUME Tables, UNCHANGED <<tree, modules, reported>>,
         NEW n \in Node, Kind(n) \in Opening \cup Leaf, Untouched(n), Homes(n) # {}, HomeScope(n) # 0,
         Current = HomeScope(n), Free(NameOf(n)), Declare(n),
         \/ scopes' = Declared(n) /\ scopeOf' = scopeOf
         \/ /\ Kind(n) \in Opening
            /\ scopes' = Append(Declared(n), [parent |-> Current, table |-> NoEntries])
            /\ scopeOf' = [scopeOf EXCEPT ![n] = Len(scopes) + 1]
  PROVE  Tables'
<1> DEFINE L == Len(scopes)
           D == Declared(n)
<1>1. /\ tree' = tree /\ modules' = modules /\ reported' = reported
      /\ scopes \in Seq(Scope) /\ Len(scopes) \in Nat /\ DOMAIN scopes = 1 .. Len(scopes)
      /\ HomeScope(n) \in DOMAIN scopes /\ HomeScope(n) \in Nat /\ Current \in DOMAIN scopes
      /\ scopes[HomeScope(n)].table[NameOf(n)] = 0
      /\ NameOf(n) \in Name
      /\ symbolOf[n] = 0 /\ scopeOf[n] = 0 /\ n \notin reported
  <2>1. Greatest(Homes(n)) \in Node
    BY GreatestHome DEF Tables
  <2>2. NameOf(n) \in Name
    BY TreeFacts DEF Tables, IsParsed, Kind, NameOf
  <2> QED
    BY <2>1, <2>2, TableFacts DEF HomeScope, Tables, TablesTyped, Free, Untouched
<1>2. /\ D \in Seq(Scope) /\ Len(D) = L /\ DOMAIN D = DOMAIN scopes
      /\ \A s \in DOMAIN scopes :
           /\ D[s].parent = scopes[s].parent
           /\ \A x \in Name : D[s].table[x] = IF s = HomeScope(n) /\ x = NameOf(n) THEN Len(symbols) + 1
                                              ELSE scopes[s].table[x]
  BY <1>1, DeclaredFacts
<1> HIDE DEF D
<1>3. /\ scopes' \in Seq(Scope)
      /\ \A s \in DOMAIN scopes : s \in DOMAIN scopes' /\ scopes'[s] = D[s]
      /\ \A s \in DOMAIN scopes' : s \notin DOMAIN scopes => \A x \in Name : scopes'[s].table[x] = 0
      /\ \/ Len(scopes') = L /\ scopeOf' = scopeOf
         \/ /\ Kind(n) \in Opening /\ Len(scopes') = L + 1
            /\ scopes'[L + 1].parent = HomeScope(n)
            /\ scopeOf' = [scopeOf EXCEPT ![n] = L + 1]
  <2>1. CASE scopes' = Declared(n) /\ scopeOf' = scopeOf
    BY <1>2, <2>1 DEF D
  <2>2. CASE /\ Kind(n) \in Opening
             /\ scopes' = Append(Declared(n), [parent |-> Current, table |-> NoEntries])
             /\ scopeOf' = [scopeOf EXCEPT ![n] = L + 1]
    <3>1. scopes' = Append(D, [parent |-> HomeScope(n), table |-> NoEntries])
      BY <2>2 DEF D
    <3>2. /\ scopes' \in Seq(Scope) /\ Len(scopes') = Len(D) + 1
          /\ \A s \in DOMAIN D : s \in DOMAIN scopes' /\ scopes'[s] = D[s]
          /\ scopes'[Len(D) + 1].parent = HomeScope(n)
          /\ \A s \in DOMAIN scopes' : s \notin DOMAIN D => \A x \in Name : scopes'[s].table[x] = 0
      BY <1>1, <1>2, <3>1, ScopeAppended
    <3> QED
      BY <1>2, <2>2, <3>2
  <2> QED
    BY <2>1, <2>2
<1>4. ParentsKept /\ ScopesStay
  BY <1>1, <1>2, <1>3 DEF ParentsKept, ScopesStay, Tables, TablesTyped
<1>5. Scoped' /\ ScopesFollowTree'
  <2>1. CASE Len(scopes') = L /\ scopeOf' = scopeOf
    BY <1>1, <1>4, <2>1, SameScopes
  <2>2. CASE /\ Kind(n) \in Opening /\ Len(scopes') = L + 1
             /\ scopes'[L + 1].parent = HomeScope(n)
             /\ scopeOf' = [scopeOf EXCEPT ![n] = L + 1]
    <3>1. Kind(n) \in HomeKinds \ {"module"}
      BY <2>2 DEF HomeKinds, Opening
    <3> QED
      BY <1>1, <1>4, <2>2, <3>1, InnerScope
  <2> QED
    BY <1>3, <2>1, <2>2
<1>6. NewEntry(n, HomeScope(n))
  <2>1. [name |-> NameOf(n), node |-> n] \in Symbol
    BY <1>1, TableFacts DEF Symbol
  <2>2. /\ symbols' \in Seq(Symbol) /\ Len(symbols') = Len(symbols) + 1
        /\ \A i \in 1 .. Len(symbols) : symbols'[i] = symbols[i]
        /\ symbols'[Len(symbols) + 1] = [name |-> NameOf(n), node |-> n]
    BY <2>1, AppendProperties DEF Declare, Tables, TablesTyped
  <2>3. \A m \in Node : m # n => scopeOf'[m] = scopeOf[m]
    BY <1>3 DEF Tables, TablesTyped
  <2>4. DOMAIN symbols = 1 .. Len(symbols) /\ symbolOf' = [symbolOf EXCEPT ![n] = Len(symbols) + 1]
    BY TableFacts DEF Declare
  <2>5. \A s \in DOMAIN scopes : \A x \in Name :
          scopes'[s].table[x] = IF s = HomeScope(n) /\ x = NameOf(n) THEN Len(symbols) + 1 ELSE scopes[s].table[x]
    BY <1>2, <1>3
  <2> QED
    BY <1>3, <2>2, <2>3, <2>4, <2>5 DEF NewEntry
<1>7. Entries'
  BY <1>1, <1>6, EntriesWithNew
<1>8. Accounted'
  <2>1. \A a \in reported : symbolOf'[a] = 0 /\ scopeOf'[a] = 0
    BY <1>1, <1>6 DEF Tables, TablesTyped, Accounted, NewEntry
  <2>2. Len(symbols) + 1 # 0
    BY TableFacts
  <2>3. \A s \in DOMAIN scopes : \A x \in Name : scopes[s].table[x] # 0 => scopes'[s].table[x] # 0
    BY <1>2, <1>3, <2>2
  <2> QED
    BY <1>1, <1>4, <2>1, <2>3, AccountedStays
<1>9. TablesTyped'
  <2>0. Len(scopes') \in Nat /\ (Len(scopes') = L \/ Len(scopes') = L + 1)
    BY <1>1, <1>3
  <2>1. modules' \in [Module -> 0 .. Len(scopes')]
    BY <1>1, <2>0 DEF Tables, TablesTyped
  <2>2. scopeOf' \in [Node -> 0 .. Len(scopes')]
    <3>1. CASE Len(scopes') = L /\ scopeOf' = scopeOf
      BY <3>1 DEF Tables, TablesTyped
    <3>2. CASE Len(scopes') = L + 1 /\ scopeOf' = [scopeOf EXCEPT ![n] = L + 1]
      <4>1. L + 1 \in 0 .. L + 1 /\ \A k \in 0 .. L : k \in 0 .. L + 1
        BY <1>1
      <4> QED
        BY <3>2, <4>1 DEF Tables, TablesTyped
    <3> QED
      BY <1>3, <3>1, <3>2
  <2>3. symbolOf' \in [Node -> 0 .. Len(symbols')]
    <3>1. /\ Len(symbols') = Len(symbols) + 1
          /\ Len(symbols) + 1 \in 0 .. Len(symbols) + 1 /\ \A k \in 0 .. Len(symbols) : k \in 0 .. Len(symbols) + 1
      BY <1>6, TableFacts DEF NewEntry
    <3> QED
      BY <1>6, <3>1 DEF NewEntry, Tables, TablesTyped
  <2> QED
    BY <1>1, <1>3, <1>6, <2>1, <2>2, <2>3, TreeStays DEF TablesTyped, Tables, NewEntry
<1> QED
  BY <1>1, <1>5, <1>7, <1>8, <1>9, TreeStays DEF Tables
-----------------------------------------------------------------------------
(* What lies ahead of the walks.  A step of a walk that comes to n leaves  *)
(* everything else alone.                                                  *)
TouchesOnly(n) ==
  /\ \A m \in Node : m # n => /\ symbolOf'[m] = symbolOf[m] /\ scopeOf'[m] = scopeOf[m]
                              /\ m \in reported' <=> m \in reported
  /\ Top.op = "collect" /\ Kind(n) \in Bound => symbolOf'[n] = symbolOf[n]
  /\ Top.op = "resolve" => scopeOf' = scopeOf /\ reported' = reported /\ (symbolOf'[n] # symbolOf[n] => Kind(n) \in Use)

LEMMA FileTypes ==
  ASSUME Control, NEW f \in File, NEW n \in Subtree(Root(f))
  PROVE  n \in Node
BY RootFacts, SubtreeFacts DEF Control

LEMMA PendingAfterMove ==
  ASSUME Control, Pending, stack # << >>, Top.op \in Walk, NEW n \in Kids(Top.node), n > Top.at,
         UNCHANGED <<tree, compiled>>, TouchesOnly(n),
         stack' = At(n) \/ stack' = Enter(Top.op, n) \/ (stack' = Enter("load", n) /\ Kind(n) # "member")
  PROVE  Pending'
<1> DEFINE N == Len(stack)
<1>1. /\ N \in Nat \ {0} /\ Depth = 1 .. N /\ Top = stack[N] /\ N \in Depth
      /\ Top \in Frame /\ Top.node \in Node /\ Top.unit \in File /\ Top.at \in Nat
      /\ InTree /\ n \in Node /\ n \in Nat /\ n \in Subtree(n)
      /\ Top.op \in {"collect", "resolve"} /\ tree' = tree /\ compiled' = compiled
  BY TopFacts, StackFacts, KidFacts, TreeFacts, SubtreeFacts DEF Control, Walk
<1>2. /\ Node' = Node /\ \A m : Kind(m)' = Kind(m) /\ Kids(m)' = Kids(m) /\ Subtree(m)' = Subtree(m)
      /\ \A f : Root(f)' = Root(f)
  BY <1>1, TreeStays
<1>3. \A f, s : s \in {1, 2} => (Reaches(f, s)' <=> Reaches(f, s))
  <2>1. ASSUME NEW op \in {"collect", "resolve", "load"}, stack' = Enter(op, n)
        PROVE  \E c \in Frame : stack' = Append(At(n), c) /\ (c.op = "compile" => c.at = 0)
    <3>1. Call(op, Top.unit, n) \in Frame /\ Call(op, Top.unit, n).op = op
      BY <1>1, CallIsFrame
    <3> QED
      BY <2>1, <3>1 DEF Enter
  <2>2. \/ stack' = At(n)
        \/ \E c \in Frame : stack' = Append(At(n), c) /\ (c.op = "compile" => c.at = 0)
    BY <1>1, <2>1
  <2> QED
    BY <1>1, <2>2, ReachesStays
<1>4. /\ Depth' \in {1 .. N, 1 .. N + 1}
      /\ \A i \in 1 .. N - 1 : stack'[i] = stack[i]
      /\ stack'[N].op = Top.op /\ stack'[N].node = Top.node /\ stack'[N].at = n
      /\ N + 1 \in Depth' =>
           /\ stack'[N + 1].node = n /\ stack'[N + 1].at = 0
           /\ (stack'[N + 1].op = Top.op \/ (stack'[N + 1].op = "load" /\ Kind(n) # "member"))
  <2>1. CASE stack' = At(n)
    <3>1. AtPlace(Top, n).op = Top.op /\ AtPlace(Top, n).node = Top.node /\ AtPlace(Top, n).at = n
      BY <1>1, PlacedFrame
    <3>2. /\ Len(stack') = N /\ \A i \in 1 .. N - 1 : stack'[i] = stack[i]
          /\ stack'[N] = AtPlace(Top, n)
      BY <1>1, <2>1, AtStack
    <3>3. Depth' = 1 .. N /\ N + 1 \notin 1 .. N
      BY <1>1, <3>2 DEF Depth
    <3> QED
      BY <3>1, <3>2, <3>3
  <2>2. ASSUME NEW op \in {"collect", "resolve", "load"}, stack' = Enter(op, n)
        PROVE  /\ Depth' = 1 .. N + 1
               /\ \A i \in 1 .. N - 1 : stack'[i] = stack[i]
               /\ stack'[N].op = Top.op /\ stack'[N].node = Top.node /\ stack'[N].at = n
               /\ stack'[N + 1].node = n /\ stack'[N + 1].at = 0 /\ stack'[N + 1].op = op
    <3> DEFINE c == Call(op, Top.unit, n)
    <3>1. c \in Frame /\ c.op = op /\ c.node = n /\ c.at = 0
      BY <1>1, CallIsFrame
    <3>2. stack' = Append(At(n), c)
      BY <2>2 DEF Enter
    <3> HIDE DEF c
    <3>3. AtPlace(Top, n).op = Top.op /\ AtPlace(Top, n).node = Top.node /\ AtPlace(Top, n).at = n
      BY <1>1, PlacedFrame
    <3>4. /\ Len(stack') = N + 1 /\ \A i \in 1 .. N - 1 : stack'[i] = stack[i]
          /\ stack'[N] = AtPlace(Top, n) /\ stack'[N + 1] = c
      <4>1. /\ Len(Append(At(n), c)) = N + 1 /\ \A i \in 1 .. N - 1 : Append(At(n), c)[i] = stack[i]
            /\ Append(At(n), c)[N] = AtPlace(Top, n) /\ Append(At(n), c)[N + 1] = c
        <5>1. n \in Nat /\ c \in Frame
          BY <1>1, <3>1
        <5> QED
          BY <5>1, EnterStack
      <4> QED
        BY <3>2, <4>1
    <3> QED
      BY <3>1, <3>3, <3>4 DEF Depth
  <2> QED
    BY <1>1, <2>1, <2>2
<1> HIDE DEF N
<1>5. /\ n \in Subtree(Root(Top.unit))
      /\ \A f \in File : n \in Subtree(Root(f)) => f = Top.unit
      /\ \A i \in Depth : stack[i].op \in Walk => stack[i].node # n
      /\ \A i \in 1 .. N - 1 : stack[i].op \in Walk =>
           \A k \in Kids(stack[i].node) : k > stack[i].at => n \notin Subtree(k)
      /\ \A k \in Kids(Top.node) : k > n => n \notin Subtree(k)
      /\ \A k \in Kids(n) : n \notin Subtree(k)
  BY ComesTo DEF N
<1>6. Reaches(Top.unit, 1) /\ (Top.op = "resolve" => Reaches(Top.unit, 2))
  BY <1>1, StageOfCall
<1>7. /\ \A m \in Node : m # n /\ Untouched(m) => Untouched(m)'
      /\ \A m \in Node : m # n /\ Unbound(m) => Unbound(m)'
      /\ Top.op = "collect" /\ Unbound(n) => Unbound(n)'
      /\ Kind(n) = "member" => symbolOf'[n] = symbolOf[n]
  <2>1. "member" \in Bound /\ "member" \notin Use
    BY DEF Bound, Use
  <2> QED
    BY <1>1, <1>2, <2>1 DEF TouchesOnly, Untouched, Unbound
<1>8. ASSUME NEW f \in File, ~Reaches(f, 1)', NEW m \in Subtree(Root(f)) PROVE Untouched(m)'
  <2>1. ~Reaches(f, 1)
    BY <1>3, <1>8
  <2>2. m # n /\ m \in Node /\ Untouched(m)
    BY <1>5, <1>6, <2>1, FileTypes DEF Pending
  <2> QED
    BY <1>7, <2>2
<1>9. ASSUME NEW f \in File, ~Reaches(f, 2)', NEW m \in Subtree(Root(f)) PROVE Unbound(m)'
  <2>1. ~Reaches(f, 2)
    BY <1>3, <1>9
  <2>2. m \in Node /\ Unbound(m)
    BY <2>1, FileTypes DEF Pending
  <2>3. m = n => Top.op = "collect"
    BY <1>1, <1>5, <1>6, <2>1
  <2> QED
    BY <1>7, <2>2, <2>3
<1>10. ASSUME NEW i \in 1 .. N - 1, stack[i].op \in Walk, NEW k \in Kids(stack[i].node), k > stack[i].at,
              NEW m \in Subtree(k)
       PROVE  m # n /\ m \in Node
  <2>1. i \in Depth
    BY <1>1
  <2>2. k \in Node
    BY <1>1, <2>1, StackFacts, KidFacts
  <2> QED
    BY <1>1, <1>5, <1>10, <2>2, SubtreeFacts
<1>11. ASSUME NEW k \in Kids(Top.node), k > n, NEW m \in Subtree(k)
       PROVE  m # n /\ m \in Node /\ k > Top.at
  <2>1. k \in Node /\ k \in Nat
    BY <1>1, KidFacts, TreeFacts
  <2> QED
    BY <1>1, <1>5, <1>11, <2>1, SubtreeFacts
<1>12. ASSUME NEW k \in Kids(n), NEW m \in Subtree(k)
       PROVE  m # n /\ m \in Node /\ m \in Subtree(n)
  <2>1. k \in Node /\ k \in Subtree(n)
    BY <1>1, KidFacts
  <2> QED
    BY <1>1, <1>5, <2>1, SubtreeFacts
<1>13. ASSUME NEW i \in Depth', stack'[i].op = "collect", NEW k \in Kids(stack'[i].node), k > stack'[i].at,
              NEW m \in Subtree(k)
       PROVE  Untouched(m)'
  <2>1. CASE i \in 1 .. N - 1
    <3>1. stack[i].op = "collect" /\ i \in Depth /\ stack'[i] = stack[i]
      BY <1>1, <1>4, <1>13, <2>1
    <3> QED
      BY <1>7, <1>10, <1>13, <2>1, <3>1 DEF Pending, Walk
  <2>2. CASE i = N
    <3>1. Top.op = "collect" /\ k \in Kids(Top.node) /\ k > n
      BY <1>4, <1>13, <2>2
    <3> QED
      BY <1>1, <1>7, <1>11, <3>1 DEF Pending
  <2>3. CASE i = N + 1
    <3>1. Top.op = "collect" /\ k \in Kids(n)
      BY <1>1, <1>4, <1>13, <2>3
    <3> QED
      BY <1>1, <1>7, <1>12, <3>1 DEF Pending
  <2> QED
    BY <1>1, <1>4, <2>1, <2>2, <2>3
<1>14. ASSUME NEW i \in Depth', stack'[i].op = "resolve"
       PROVE  /\ Kind(stack'[i].node) = "member" => symbolOf'[stack'[i].node] = 0
              /\ \A k \in Kids(stack'[i].node) : k > stack'[i].at => \A m \in Subtree(k) : Unbound(m)'
  <2>1. CASE i \in 1 .. N - 1
    <3>1. stack[i].op = "resolve" /\ i \in Depth /\ stack'[i] = stack[i]
      BY <1>1, <1>4, <1>14, <2>1
    <3>2. stack[i].node \in Node /\ stack[i].node # n
      BY <1>5, <3>1, StackFacts DEF Walk
    <3>3. Kind(stack[i].node) = "member" => symbolOf'[stack[i].node] = 0
      BY <3>1, <3>2 DEF TouchesOnly, Pending
    <3> QED
      BY <1>7, <1>10, <2>1, <3>1, <3>3 DEF Pending, Walk
  <2>2. CASE i = N
    <3>1. Top.op = "resolve" /\ stack'[i].node = Top.node /\ stack'[i].at = n
      BY <1>4, <1>14, <2>2
    <3>2. Top.node # n
      BY <1>1, <1>5, <3>1 DEF Walk
    <3>3. Kind(Top.node) = "member" => symbolOf'[Top.node] = 0
      BY <1>1, <3>1, <3>2 DEF TouchesOnly, Pending
    <3> QED
      BY <1>1, <1>7, <1>11, <3>1, <3>3 DEF Pending
  <2>3. CASE i = N + 1
    <3>1. stack'[i].node = n /\ stack'[i].at = 0 /\ Top.op = "resolve"
      BY <1>1, <1>4, <1>14, <2>3
    <3>2. \A m \in Subtree(n) : Unbound(m)
      BY <1>1, <3>1 DEF Pending
    <3>3. Kind(n) = "member" => symbolOf[n] = 0
      BY <1>1, <3>2 DEF Unbound, Bound
    <3> QED
      BY <1>1, <1>7, <1>12, <3>1, <3>2, <3>3
  <2> QED
    BY <1>1, <1>4, <2>1, <2>2, <2>3
<1> QED
  BY <1>2, <1>8, <1>9, <1>13, <1>14 DEF Pending

LEMMA PendingAfterReturn ==
  ASSUME Control, Pending, stack # << >>, Top.op # "compile", stack' = Below,
         UNCHANGED <<tree, compiled, scopeOf, reported>>,
         \A m \in Node : symbolOf'[m] # symbolOf[m] => m = Top.node /\ Top.op = "resolve"
  PROVE  Pending'
<1> DEFINE N == Len(stack)
<1>1. /\ N \in Nat \ {0} /\ Depth = 1 .. N /\ Top = stack[N] /\ N \in Depth
      /\ Top.node \in Node /\ Top.unit \in File /\ InTree /\ Top.node \in Subtree(Top.node)
      /\ Top.op \in {"collect", "resolve", "load"}
      /\ Top.node \in Subtree(Root(Top.unit))
      /\ tree' = tree /\ compiled' = compiled /\ scopeOf' = scopeOf /\ reported' = reported
  BY TopFacts, StackFacts, SubtreeFacts DEF Control, FrameOK
<1>2. /\ Node' = Node /\ \A m : Kind(m)' = Kind(m) /\ Kids(m)' = Kids(m) /\ Subtree(m)' = Subtree(m)
      /\ \A f : Root(f)' = Root(f)
  BY <1>1, TreeStays
<1>3. \A f, s : s \in {1, 2} => (Reaches(f, s)' <=> Reaches(f, s))
  <2>1. 0 \in Nat
    OBVIOUS
  <2> QED
    BY <1>1, <2>1, ReachesStays
<1>4. Depth' = 1 .. N - 1 /\ \A i \in 1 .. N - 1 : stack'[i] = stack[i]
  BY <1>1, BelowStack DEF Depth
<1>5. ASSUME NEW i \in 1 .. N - 1, stack[i].op \in Walk
      PROVE  /\ i \in Depth /\ stack[i].node # Top.node /\ stack[i].node \in Node
             /\ \A k \in Kids(stack[i].node) : k > stack[i].at => \A m \in Subtree(k) : m # Top.node /\ m \in Node
  <2>1. i \in Depth
    BY <1>1
  <2>2. stack[i].node \in Node /\ stack[i].at \in Nat
    BY <2>1, StackFacts
  <2>3. /\ \A k \in Kids(stack[i].node) : k # stack[i].at => Top.node \notin Subtree(k)
        /\ Top.node # stack[i].node
    BY <1>1, <1>5, BelowTop
  <2>4. ASSUME NEW k \in Kids(stack[i].node), k > stack[i].at, NEW m \in Subtree(k)
        PROVE  m # Top.node /\ m \in Node
    <3>1. k \in Node /\ k \in Nat
      BY <1>1, <2>2, KidFacts, TreeFacts
    <3>2. k # stack[i].at
      BY <2>2, <2>4, <3>1
    <3> QED
      BY <1>1, <2>3, <2>4, <3>1, <3>2, SubtreeFacts
  <2> QED
    BY <2>1, <2>2, <2>3, <2>4
<1> HIDE DEF N
<1>6. Reaches(Top.unit, 1) /\ (Top.op = "resolve" => Reaches(Top.unit, 2))
  BY <1>1, StageOfCall
<1>7. ASSUME NEW m \in Node, m # Top.node \/ Top.op # "resolve"
      PROVE  (Untouched(m) => Untouched(m)') /\ (Unbound(m) => Unbound(m)')
  BY <1>1, <1>2, <1>7 DEF Untouched, Unbound
<1>8. ASSUME NEW f \in File, ~Reaches(f, 1)', NEW m \in Subtree(Root(f)) PROVE Untouched(m)'
  <2>1. ~Reaches(f, 1)
    BY <1>3, <1>8
  <2>2. m \in Node /\ Untouched(m)
    BY <2>1, FileTypes DEF Pending
  <2>3. m # Top.node
    BY <1>1, <1>6, <2>1, FilesApart
  <2> QED
    BY <1>7, <2>2, <2>3
<1>9. ASSUME NEW f \in File, ~Reaches(f, 2)', NEW m \in Subtree(Root(f)) PROVE Unbound(m)'
  <2>1. ~Reaches(f, 2)
    BY <1>3, <1>9
  <2>2. m \in Node /\ Unbound(m)
    BY <2>1, FileTypes DEF Pending
  <2>3. m # Top.node \/ Top.op # "resolve"
    BY <1>1, <1>6, <2>1, FilesApart
  <2> QED
    BY <1>7, <2>2, <2>3
<1>10. ASSUME NEW i \in 1 .. N - 1, stack[i].op = "collect"
       PROVE  \A k \in Kids(stack[i].node) : k > stack[i].at => \A m \in Subtree(k) : Untouched(m)'
  BY <1>5, <1>7, <1>10 DEF Pending, Walk
<1>11. ASSUME NEW i \in 1 .. N - 1, stack[i].op = "resolve"
       PROVE  /\ Kind(stack[i].node) = "member" => symbolOf'[stack[i].node] = 0
              /\ \A k \in Kids(stack[i].node) : k > stack[i].at => \A m \in Subtree(k) : Unbound(m)'
  BY <1>5, <1>7, <1>11 DEF Pending, Walk
<1> QED
  BY <1>2, <1>4, <1>8, <1>9, <1>10, <1>11 DEF Pending

(* A load or the end of a compilation changes no table and begins no walk. *)
LEMMA PendingStays ==
  ASSUME Control, Pending, UNCHANGED <<tree, scopeOf, symbolOf, reported>>,
         \A f, s : f \in File /\ s \in {1, 2} => (Reaches(f, s)' <=> Reaches(f, s)),
         \A i \in Depth' : stack'[i].op \in Walk => i \in Depth /\ stack'[i] = stack[i]
  PROVE  Pending'
<1>1. /\ Node' = Node /\ \A m : Kind(m)' = Kind(m) /\ Kids(m)' = Kids(m) /\ Subtree(m)' = Subtree(m)
      /\ \A f : Root(f)' = Root(f)
  BY TreeStays
<1>2. \A m : (Untouched(m)' <=> Untouched(m)) /\ (Unbound(m)' <=> Unbound(m))
  BY <1>1 DEF Untouched, Unbound
<1>3. \A i \in Depth' : stack'[i].op \in {"collect", "resolve"} => i \in Depth /\ stack'[i] = stack[i]
  BY DEF Walk
<1>4. /\ \A f \in File : ~Reaches(f, 1)' => \A m \in Subtree(Root(f)) : Untouched(m)'
      /\ \A f \in File : ~Reaches(f, 2)' => \A m \in Subtree(Root(f)) : Unbound(m)'
  BY <1>2 DEF Pending
<1>5. \A i \in Depth' : stack'[i].op = "collect" =>
        \A k \in Kids(stack'[i].node) : k > stack'[i].at => \A m \in Subtree(k) : Untouched(m)'
  BY <1>2, <1>3 DEF Pending
<1>6. \A i \in Depth' : stack'[i].op = "resolve" =>
        /\ Kind(stack'[i].node) = "member" => symbolOf'[stack'[i].node] = 0
        /\ \A k \in Kids(stack'[i].node) : k > stack'[i].at => \A m \in Subtree(k) : Unbound(m)'
  BY <1>2, <1>3 DEF Pending
<1> QED
  BY <1>1, <1>4, <1>5, <1>6 DEF Pending

(* The compilation of a file goes on to its next stage.                    *)
LEMMA CompileMoves ==
  ASSUME Control, Compile
  PROVE  /\ stack # << >> /\ Top.op = "compile" /\ Top.at \in {0, 1, 2} /\ Top.node = Root(Top.unit)
         /\ UNCHANGED <<tree, tables>> /\ context' = [context EXCEPT ![Top.unit] = Fresh]
         /\ \A i \in 1 .. Len(stack) - 1 : stack'[i] = stack[i]
         /\ Top.at # 2 => /\ Depth' = 1 .. Len(stack) + 1 /\ compiled' = compiled
                          /\ stack'[Len(stack)].op = "compile" /\ stack'[Len(stack)].unit = Top.unit
                          /\ stack'[Len(stack)].at = Top.at + 1
                          /\ stack'[Len(stack) + 1].op = IF Top.at = 0 THEN "collect" ELSE "resolve"
                          /\ stack'[Len(stack) + 1].unit = Top.unit
                          /\ stack'[Len(stack) + 1].node = Root(Top.unit) /\ stack'[Len(stack) + 1].at = 0
         /\ Top.at = 2 => Depth' = 1 .. Len(stack) - 1 /\ compiled' = compiled \cup {Top.unit}
<1> DEFINE N == Len(stack)
<1>1. /\ stack # << >> /\ Top.op = "compile" /\ Top \in Frame /\ FrameOK(Top) /\ Top.unit \in File
      /\ UNCHANGED <<tree, tables>> /\ context' = [context EXCEPT ![Top.unit] = Fresh]
      /\ N \in Nat \ {0} /\ Top.node \in Node /\ Top.node \in Nat
  BY TopFacts, TreeFacts DEF Compile, In, Control
<1>2. Top.node = Root(Top.unit) /\ Top.at \in {0, 1, 2}
  BY <1>1 DEF FrameOK
<1>3. ASSUME NEW k \in {1, 2}, NEW op \in {"collect", "resolve"},
             stack' = Append(At(k), Call(op, Top.unit, Top.node))
      PROVE  /\ Depth' = 1 .. N + 1 /\ \A i \in 1 .. N - 1 : stack'[i] = stack[i]
             /\ stack'[N].op = "compile" /\ stack'[N].unit = Top.unit /\ stack'[N].at = k
             /\ stack'[N + 1].op = op /\ stack'[N + 1].unit = Top.unit
             /\ stack'[N + 1].node = Root(Top.unit) /\ stack'[N + 1].at = 0
  <2> DEFINE c == Call(op, Top.unit, Top.node)
  <2>1. c \in Frame /\ c.op = op /\ c.unit = Top.unit /\ c.node = Top.node /\ c.at = 0
    BY <1>1, CallIsFrame
  <2>2. stack' = Append(At(k), c)
    BY <1>3
  <2> HIDE DEF c
  <2>3. k \in Nat /\ c \in Frame
    BY <2>1
  <2>4. /\ Len(Append(At(k), c)) = N + 1 /\ \A i \in 1 .. N - 1 : Append(At(k), c)[i] = stack[i]
        /\ Append(At(k), c)[N] = AtPlace(Top, k) /\ Append(At(k), c)[N + 1] = c
    BY <1>1, <2>3, EnterStack
  <2>5. AtPlace(Top, k).op = Top.op /\ AtPlace(Top, k).unit = Top.unit /\ AtPlace(Top, k).at = k
    BY <1>1, <2>3, PlacedFrame
  <2>6. Depth' = 1 .. N + 1
    BY <2>2, <2>4 DEF Depth
  <2> QED
    BY <1>1, <1>2, <2>1, <2>2, <2>4, <2>5, <2>6
<1>4. CASE Top.at = 0 /\ stack' = Append(At(1), Call("collect", Top.unit, Top.node)) /\ UNCHANGED <<compiled, outcome>>
  <2>1. /\ Depth' = 1 .. N + 1 /\ \A i \in 1 .. N - 1 : stack'[i] = stack[i]
        /\ stack'[N].op = "compile" /\ stack'[N].unit = Top.unit /\ stack'[N].at = 1
        /\ stack'[N + 1].op = "collect" /\ stack'[N + 1].unit = Top.unit
        /\ stack'[N + 1].node = Root(Top.unit) /\ stack'[N + 1].at = 0
    BY <1>3, <1>4
  <2>2. /\ Top.at # 2 /\ Top.at + 1 = 1 /\ compiled' = compiled
        /\ (IF Top.at = 0 THEN "collect" ELSE "resolve") = "collect"
    BY <1>4
  <2> QED
    BY <1>1, <1>2, <2>1, <2>2
<1>5. CASE Top.at = 1 /\ stack' = Append(At(2), Call("resolve", Top.unit, Top.node)) /\ UNCHANGED <<compiled, outcome>>
  <2>1. /\ Depth' = 1 .. N + 1 /\ \A i \in 1 .. N - 1 : stack'[i] = stack[i]
        /\ stack'[N].op = "compile" /\ stack'[N].unit = Top.unit /\ stack'[N].at = 2
        /\ stack'[N + 1].op = "resolve" /\ stack'[N + 1].unit = Top.unit
        /\ stack'[N + 1].node = Root(Top.unit) /\ stack'[N + 1].at = 0
    BY <1>3, <1>5
  <2>2. /\ Top.at # 2 /\ Top.at + 1 = 2 /\ compiled' = compiled
        /\ (IF Top.at = 0 THEN "collect" ELSE "resolve") = "resolve"
    BY <1>5
  <2> QED
    BY <1>1, <1>2, <2>1, <2>2
<1>6. CASE /\ Top.at = 2 /\ compiled' = compiled \cup {Top.unit} /\ stack' = Below
           /\ outcome' = IF Len(stack) = 1 THEN "ok" ELSE outcome
  <2>1. Depth' = 1 .. N - 1 /\ \A i \in 1 .. N - 1 : stack'[i] = stack[i]
    BY <1>1, <1>6, BelowStack DEF Depth
  <2> HIDE DEF N
  <2> QED
    BY <1>1, <1>2, <1>6, <2>1 DEF N
<1> QED
  BY <1>4, <1>5, <1>6 DEF Compile

LEMMA CompileReaches ==
  ASSUME Control, Compile
  PROVE  /\ Reaches(Top.unit, 2) <=> Top.at = 2
         /\ Reaches(Top.unit, 1) <=> Top.at # 0
         /\ \A f, s : s \in {1, 2} => (Reaches(f, s)' <=> Reaches(f, s) \/ (f = Top.unit /\ s = Top.at + 1))
<1> DEFINE N == Len(stack)
           u == Top.unit
           Runs(c, f, s) == c.op = "compile" /\ c.unit = f /\ c.at >= s
<1>1. N \in Nat \ {0} /\ Depth = 1 .. N /\ Top = stack[N] /\ N \in Depth
  BY CompileMoves, TopFacts DEF Depth
<1>2. /\ Top.op = "compile" /\ Top.at \in {0, 1, 2}
      /\ \A i \in 1 .. N - 1 : stack'[i] = stack[i]
      /\ Top.at # 2 => /\ Depth' = 1 .. N + 1 /\ compiled' = compiled
                       /\ stack'[N].op = "compile" /\ stack'[N].unit = u /\ stack'[N].at = Top.at + 1
                       /\ stack'[N + 1].op # "compile"
      /\ Top.at = 2 => Depth' = 1 .. N - 1 /\ compiled' = compiled \cup {u}
  BY CompileMoves
<1> HIDE DEF N
<1>3. ASSUME NEW f, NEW s \in {1, 2}
      PROVE  Reaches(f, s) <=> f \in compiled \/ (\E i \in 1 .. N - 1 : Runs(stack[i], f, s)) \/ (f = u /\ Top.at >= s)
  <2>1. (\E i \in Depth : Runs(stack[i], f, s)) <=> (\E i \in 1 .. N - 1 : Runs(stack[i], f, s)) \/ Runs(stack[N], f, s)
    BY <1>1
  <2>2. Runs(stack[N], f, s) <=> f = u /\ Top.at >= s
    BY <1>1, <1>2
  <2> QED
    BY <2>1, <2>2 DEF Reaches
<1>4. u \notin compiled
  BY <1>1, StageOfCall
<1>5. \A i \in 1 .. N - 1 : ~(stack[i].op = "compile" /\ stack[i].unit = u)
  <2> SUFFICES ASSUME NEW i \in 1 .. N - 1, stack[i].op = "compile", stack[i].unit = u PROVE FALSE
    OBVIOUS
  <2>1. i \in Depth /\ i < N /\ stack[N].unit = stack[i].unit
    BY <1>1
  <2> QED
    BY <1>1, <1>2, <2>1 DEF Control, Chain, Nested
<1>6. ASSUME NEW s \in {1, 2} PROVE Reaches(u, s) <=> Top.at >= s
  BY <1>3, <1>4, <1>5
<1>7. ASSUME NEW f, NEW s \in {1, 2}
      PROVE  Reaches(f, s)' <=> Reaches(f, s) \/ (f = u /\ s = Top.at + 1)
  <2>1. CASE Top.at # 2
    <3>1. (\E i \in Depth' : Runs(stack'[i], f, s))
            <=> (\E i \in 1 .. N - 1 : Runs(stack[i], f, s)) \/ (f = u /\ Top.at + 1 >= s)
      <4>1. \A i \in Depth' : i \in 1 .. N - 1 \/ i = N \/ i = N + 1
        BY <1>1, <1>2, <2>1
      <4>2. N \in Depth' /\ \A i \in 1 .. N - 1 : i \in Depth'
        BY <1>1, <1>2, <2>1
      <4> QED
        BY <1>2, <2>1, <4>1, <4>2
    <3>2. Reaches(f, s)' <=> f \in compiled \/ (\E i \in 1 .. N - 1 : Runs(stack[i], f, s)) \/ (f = u /\ Top.at + 1 >= s)
      BY <1>2, <2>1, <3>1 DEF Reaches
    <3>3. Top.at + 1 >= s <=> Top.at >= s \/ s = Top.at + 1
      BY <1>2
    <3> QED
      BY <1>3, <3>2, <3>3
  <2>2. CASE Top.at = 2
    <3>1. (\E i \in Depth' : Runs(stack'[i], f, s)) <=> (\E i \in 1 .. N - 1 : Runs(stack[i], f, s))
      BY <1>2, <2>2
    <3>2. Reaches(f, s)' <=> f \in compiled \/ f = u \/ \E i \in 1 .. N - 1 : Runs(stack[i], f, s)
      BY <1>2, <2>2, <3>1 DEF Reaches
    <3>3. Top.at >= s
      BY <2>2
    <3> QED
      BY <1>3, <2>2, <3>2, <3>3
  <2> QED
    BY <2>1, <2>2
<1>8. (Top.at >= 2 <=> Top.at = 2) /\ (Top.at >= 1 <=> Top.at # 0)
  BY <1>2
<1> QED
  BY <1>6, <1>7, <1>8

LEMMA PendingAfterCompile ==
  ASSUME Control, Pending, Compile
  PROVE  Pending'
<1> DEFINE N == Len(stack)
           u == Top.unit
<1>1. /\ N \in Nat \ {0} /\ Depth = 1 .. N /\ N \in Depth /\ u \in File /\ InTree /\ tree' = tree
      /\ symbolOf' = symbolOf /\ scopeOf' = scopeOf /\ reported' = reported
      /\ Top.at \in {0, 1, 2} /\ \A i \in 1 .. N - 1 : stack'[i] = stack[i]
      /\ Top.at # 2 => /\ Depth' = 1 .. N + 1
                       /\ stack'[N].op = "compile"
                       /\ stack'[N + 1].op = IF Top.at = 0 THEN "collect" ELSE "resolve"
                       /\ stack'[N + 1].node = Root(u)
      /\ Top.at = 2 => Depth' = 1 .. N - 1
  BY CompileMoves, TopFacts DEF Depth, tables, Control
<1>2. /\ Node' = Node /\ \A m : Kind(m)' = Kind(m) /\ Kids(m)' = Kids(m) /\ Subtree(m)' = Subtree(m)
      /\ \A f : Root(f)' = Root(f)
  BY <1>1, TreeStays
<1>3. \A m : (Untouched(m)' <=> Untouched(m)) /\ (Unbound(m)' <=> Unbound(m))
  BY <1>1, <1>2 DEF Untouched, Unbound
<1>4. /\ \A f, s : s \in {1, 2} /\ Reaches(f, s) => Reaches(f, s)'
      /\ Top.at # 2 => ~Reaches(u, 2)
      /\ Top.at = 0 => ~Reaches(u, 1)
  BY CompileReaches
<1>5. /\ \A f \in File : ~Reaches(f, 1)' => \A m \in Subtree(Root(f)) : Untouched(m)'
      /\ \A f \in File : ~Reaches(f, 2)' => \A m \in Subtree(Root(f)) : Unbound(m)'
  BY <1>3, <1>4 DEF Pending
<1>6. /\ Root(u) \in Node /\ Kind(Root(u)) # "member"
      /\ \A k \in Kids(Root(u)) : Subtree(k) \subseteq Subtree(Root(u))
  BY <1>1, RootFacts, KidFacts, SubtreeFacts
<1> HIDE DEF N, u
<1>7. \A i \in Depth' : i \in 1 .. N - 1 \/ (Top.at # 2 /\ i \in {N, N + 1})
  BY <1>1
<1>9. \A i \in 1 .. N - 1 : i \in Depth
  BY <1>1
<1>8. ASSUME NEW i \in Depth', stack'[i].op = "collect", NEW k \in Kids(stack'[i].node), k > stack'[i].at,
             NEW m \in Subtree(k)
      PROVE  Untouched(m)'
  <2>1. CASE i \in 1 .. N - 1
    BY <1>1, <1>3, <1>8, <1>9, <2>1 DEF Pending
  <2>2. CASE Top.at # 2 /\ i \in {N, N + 1}
    <3>1. Top.at = 0 /\ stack'[i].node = Root(u)
      BY <1>1, <1>8, <2>2
    <3> QED
      BY <1>1, <1>3, <1>4, <1>6, <1>8, <3>1 DEF Pending
  <2> QED
    BY <1>7, <2>1, <2>2
<1>10. ASSUME NEW i \in Depth', stack'[i].op = "resolve"
       PROVE  /\ Kind(stack'[i].node) = "member" => symbolOf'[stack'[i].node] = 0
              /\ \A k \in Kids(stack'[i].node) : k > stack'[i].at => \A m \in Subtree(k) : Unbound(m)'
  <2>1. CASE i \in 1 .. N - 1
    BY <1>1, <1>3, <1>9, <1>10, <2>1 DEF Pending
  <2>2. CASE Top.at # 2 /\ i \in {N, N + 1}
    <3>1. stack'[i].node = Root(u)
      BY <1>1, <1>10, <2>2
    <3> QED
      BY <1>1, <1>3, <1>4, <1>6, <2>2, <3>1 DEF Pending
  <2> QED
    BY <1>7, <2>1, <2>2
<1> QED
  BY <1>2, <1>5, <1>8, <1>10 DEF Pending
=============================================================================
