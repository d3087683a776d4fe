------------------------------ MODULE NamesProofs ------------------------------
(***************************************************************************)
(* Theorems about Names, for any files and any programs.                   *)
(***************************************************************************)
EXTENDS NamesTablesProofs

(* The context of a walk.                                                  *)
ContextTyped == context \in [File -> Context]

LEMMA HeldFacts ==
  ASSUME ContextTyped, NEW f \in File
  PROVE  /\ context[f].saved \in Seq(Nat) /\ context[f].current \in Nat
         /\ Held(f) \in Seq(Nat) /\ Len(context[f].saved) \in Nat
         /\ Len(Held(f)) = Len(context[f].saved) + 1
         /\ Held(f)[Len(context[f].saved) + 1] = context[f].current
         /\ \A i \in 1 .. Len(context[f].saved) : Held(f)[i] = context[f].saved[i]
<1>1. context[f].saved \in Seq(Nat) /\ context[f].current \in Nat
  BY DEF ContextTyped, Context
<1> QED
  BY <1>1, AppendProperties, LenProperties DEF Held

LEMMA PushFacts ==
  ASSUME ContextTyped, Top.unit \in File, NEW s \in Nat, context' = Push(s)
  PROVE  /\ ContextTyped'
         /\ \A f \in File : f # Top.unit => Held(f)' = Held(f)
         /\ \A f \in File : f = Top.unit =>
              /\ Len(Held(f)') = Len(Held(f)) + 1
              /\ Held(f)'[Len(Held(f)) + 1] = s
              /\ \A i \in 1 .. Len(Held(f)) : Held(f)'[i] = Held(f)[i]
<1> DEFINE u == Top.unit
           d == [current |-> s, saved |-> Append(context[u].saved, context[u].current)]
<1>1. /\ context[u].saved \in Seq(Nat) /\ context[u].current \in Nat /\ Held(u) \in Seq(Nat)
  BY HeldFacts
<1>2. d \in Context /\ d.current = s /\ d.saved = Held(u)
  BY <1>1, AppendProperties DEF Context, Held
<1>3. context' = [context EXCEPT ![u] = d]
  BY DEF Push
<1> HIDE DEF d
<1>4. ContextTyped'
  BY <1>2, <1>3 DEF ContextTyped
<1>5. context'[u] = d /\ \A f \in File : f # u => context'[f] = context[f]
  BY <1>3 DEF ContextTyped
<1>6. \A f \in File : f # u => Held(f)' = Held(f)
  BY <1>5 DEF Held
<1>7. \A f \in File : f = u => Held(f)' = Append(Held(f), s)
  BY <1>2, <1>5 DEF Held
<1>8. /\ Len(Append(Held(u), s)) = Len(Held(u)) + 1
      /\ Append(Held(u), s)[Len(Held(u)) + 1] = s
      /\ \A i \in 1 .. Len(Held(u)) : Append(Held(u), s)[i] = Held(u)[i]
  BY <1>1, AppendProperties
<1> QED
  BY <1>4, <1>6, <1>7, <1>8

LEMMA PopFacts ==
  ASSUME ContextTyped, Top.unit \in File, Len(Held(Top.unit)) >= 2, context' = Pop
  PROVE  /\ ContextTyped'
         /\ \A f \in File : f # Top.unit => Held(f)' = Held(f)
         /\ \A f \in File : f = Top.unit =>
              /\ Len(Held(f)') = Len(Held(f)) - 1
              /\ \A i \in 1 .. Len(Held(f)) - 1 : Held(f)'[i] = Held(f)[i]
<1> DEFINE u == Top.unit
           v == context[u].saved
           k == Len(v)
           d == [current |-> v[k], saved |-> SubSeq(v, 1, k - 1)]
<1>0. /\ v \in Seq(Nat) /\ k \in Nat /\ Len(Held(u)) = k + 1
      /\ \A i \in 1 .. k : Held(u)[i] = v[i]
  BY HeldFacts
<1>1. /\ v \in Seq(Nat) /\ k \in Nat /\ k >= 1 /\ Len(Held(u)) = k + 1
      /\ \A i \in 1 .. k : Held(u)[i] = v[i]
  BY <1>0
<1>2. v[k] \in Nat /\ \A i \in 1 .. k : v[i] \in Nat
  <2>1. \A i \in 1 .. k : v[i] \in Nat
    BY <1>1, ElementOfSeq
  <2> QED
    BY <1>1, <2>1
<1>3. SubSeq(v, 1, k - 1) \in Seq(Nat) /\ Len(SubSeq(v, 1, k - 1)) = k - 1
      /\ \A i \in 1 .. k - 1 : SubSeq(v, 1, k - 1)[i] = v[i]
  <2>1. k - 1 \in Nat
    BY <1>1
  <2>2. \A i \in 1 .. k - 1 : v[i] \in Nat
    BY <1>1, <1>2
  <2>3. 1 \in Int /\ k - 1 \in Int
    BY <2>1
  <2>4. /\ SubSeq(v, 1, k - 1) \in Seq(Nat)
        /\ Len(SubSeq(v, 1, k - 1)) = IF 1 <= k - 1 THEN k - 1 - 1 + 1 ELSE 0
        /\ \A i \in 1 .. k - 1 - 1 + 1 : SubSeq(v, 1, k - 1)[i] = v[1 + i - 1]
    BY <1>1, <2>2, <2>3, SubSeqProperties
  <2> HIDE DEF k, v
  <2> QED
    BY <2>1, <2>4
<1>4. d \in Context /\ d.current = v[k] /\ d.saved = SubSeq(v, 1, k - 1)
  BY <1>2, <1>3 DEF Context
<1>5. context' = [context EXCEPT ![u] = d]
  BY DEF Pop
<1> HIDE DEF d
<1>6. ContextTyped'
  BY <1>4, <1>5 DEF ContextTyped
<1>7. context'[u] = d /\ \A f \in File : f # u => context'[f] = context[f]
  BY <1>5 DEF ContextTyped
<1>8. \A f \in File : f # u => Held(f)' = Held(f)
  BY <1>7 DEF Held
<1>9. \A f \in File : f = u => Held(f)' = Append(SubSeq(v, 1, k - 1), v[k])
  BY <1>4, <1>7 DEF Held
<1> HIDE DEF v, k, u
<1>10. /\ Len(Append(SubSeq(v, 1, k - 1), v[k])) = k
       /\ \A i \in 1 .. k : Append(SubSeq(v, 1, k - 1), v[k])[i] = v[i]
  <2>1. /\ Len(Append(SubSeq(v, 1, k - 1), v[k])) = k - 1 + 1
        /\ \A i \in 1 .. k - 1 : Append(SubSeq(v, 1, k - 1), v[k])[i] = SubSeq(v, 1, k - 1)[i]
        /\ Append(SubSeq(v, 1, k - 1), v[k])[k - 1 + 1] = v[k]
    BY <1>2, <1>3, AppendProperties
  <2> QED
    BY <1>1, <1>3, <2>1
<1>11. \A i \in 1 .. k : Held(u)[i] = v[i]
  BY <1>1
<1> QED
  BY <1>1, <1>6, <1>8, <1>9, <1>10 DEF u

LEMMA FreshFacts ==
  ASSUME ContextTyped, Top.unit \in File, context' = [context EXCEPT ![Top.unit] = Fresh]
  PROVE  /\ ContextTyped'
         /\ \A f \in File : f # Top.unit => Held(f)' = Held(f)
         /\ \A f \in File : f = Top.unit => Len(Held(f)') = 1
<1>1. Fresh \in Context /\ Fresh.saved = << >> /\ Fresh.current = 0
  BY DEF Fresh, Context
<1>2. ContextTyped'
  BY <1>1 DEF ContextTyped
<1>3. context'[Top.unit] = Fresh /\ \A f \in File : f # Top.unit => context'[f] = context[f]
  BY DEF ContextTyped
<1>4. Len(Append(<< >>, 0)) = 1
  OBVIOUS
<1> QED
  BY <1>1, <1>2, <1>3, <1>4 DEF Held

LEMMA OneInnermost ==
  ASSUME Control, stack # << >>, Top.op \in Walk \cup {"compile"},
         NEW i \in Depth, Innermost(i), stack[i].unit = Top.unit
  PROVE  i = Len(stack)
<1> DEFINE N == Len(stack)
<1>1. N \in Depth /\ N \in Nat \ {0} /\ Top = stack[N] /\ Depth = 1 .. N
  BY TopFacts, StackFacts
<1>2. stack[i].op \in Walk
  BY DEF Innermost
<1> SUFFICES ASSUME i # N PROVE FALSE
  OBVIOUS
<1>3. i < N /\ i + 1 \in Depth /\ i \in 1 .. N - 1
  BY <1>1
<1>4. stack[i].op # "load" /\ Top.op # "compile"
  BY <1>1, <1>3 DEF Control, Chain, Nested
<1>5. stack[i + 1].op \notin Walk
  BY <1>3 DEF Innermost
<1>6. Awaits(stack[i], stack[i + 1]) /\ stack[i + 1].op \in {"compile", "collect", "resolve", "load"}
  BY <1>3, StackFacts DEF Control, Chain
<1>7. stack[i + 1].op = "load" /\ stack[i + 1].unit = Top.unit
  BY <1>2, <1>5, <1>6 DEF Awaits, Walk
<1>8. i + 1 # N
  BY <1>1, <1>4, <1>7 DEF Walk
<1>9. i + 1 < N
  BY <1>3, <1>8
<1>10. stack[i + 1].op # "load"
  BY <1>1, <1>3, <1>7, <1>9 DEF Control, Chain, Nested
<1> QED
  BY <1>7, <1>10

(* The scopes that a list holds, for a node and a table of scopes.         *)
HoldsIn(held, n, table) ==
  /\ Len(held) = Cardinality(Inside(n)) + 1
  /\ \A a \in Inside(n) : held[Cardinality(Inside(a)) + 1] = table[a]

LEMMA HoldsFacts ==
  ASSUME tree' = tree
  PROVE  /\ \A f, n : Holds(Held(f), n) <=> HoldsIn(Held(f), n, scopeOf)
         /\ \A f, n : Holds(Held(f), n)' <=> HoldsIn(Held(f)', n, scopeOf')
<1>1. \A n : Inside(n)' = Inside(n)
  BY TreeStays
<1> QED
  BY <1>1 DEF Holds, HoldsIn

LEMMA HoldsSame ==
  ASSUME NEW held, NEW n, NEW t, NEW u, HoldsIn(held, n, t), \A a \in Inside(n) : u[a] = t[a]
  PROVE  HoldsIn(held, n, u)
BY DEF HoldsIn

LEMMA HoldsPassed ==
  ASSUME InTree, NEW n \in Node, NEW k \in Kids(n), Kind(k) \notin HomeKinds, NEW held, NEW t
  PROVE  HoldsIn(held, k, t) <=> HoldsIn(held, n, t)
BY InsideOfKid DEF HoldsIn

LEMMA HoldsPushed ==
  ASSUME InTree, NEW n \in Node, NEW k \in Kids(n), Kind(k) \in HomeKinds,
         NEW held, NEW t, HoldsIn(held, n, t),
         NEW pushed, Len(pushed) = Len(held) + 1,
         \A i \in 1 .. Len(held) : pushed[i] = held[i],
         NEW u, \A a \in Inside(n) : u[a] = t[a], pushed[Len(held) + 1] = u[k]
  PROVE  HoldsIn(pushed, k, u)
<1>1. /\ Inside(k) = Inside(n) \cup {k} /\ Cardinality(Inside(k)) = Cardinality(Inside(n)) + 1
      /\ Cardinality(Inside(n)) \in Nat
  BY InsideOfKid, InsideFinite
<1>2. \A a \in Inside(n) : Cardinality(Inside(a)) + 1 \in 1 .. Len(held)
  <2> TAKE a \in Inside(n)
  <2>1. Cardinality(Inside(a)) \in 1 .. Cardinality(Inside(n))
    BY InsideOfHome
  <2> QED
    BY <1>1, <2>1 DEF HoldsIn
<1>3. Len(held) = Cardinality(Inside(n)) + 1 /\ \A a \in Inside(n) : held[Cardinality(Inside(a)) + 1] = t[a]
  BY DEF HoldsIn
<1>4. \A a \in Inside(n) : pushed[Cardinality(Inside(a)) + 1] = u[a]
  BY <1>2, <1>3
<1>5. pushed[Cardinality(Inside(k)) + 1] = u[k]
  BY <1>1, <1>3
<1> QED
  BY <1>1, <1>3, <1>4, <1>5 DEF HoldsIn

LEMMA HoldsPopped ==
  ASSUME InTree, NEW n \in Node, NEW k \in Kids(n), Kind(k) \in HomeKinds,
         NEW held, NEW t, HoldsIn(held, k, t),
         NEW popped, Len(popped) = Len(held) - 1,
         \A i \in 1 .. Len(held) - 1 : popped[i] = held[i]
  PROVE  HoldsIn(popped, n, t)
<1>1. /\ Inside(k) = Inside(n) \cup {k} /\ Cardinality(Inside(k)) = Cardinality(Inside(n)) + 1
      /\ Cardinality(Inside(n)) \in Nat
  BY InsideOfKid, InsideFinite
<1>2. Len(held) = Cardinality(Inside(k)) + 1 /\ \A a \in Inside(k) : held[Cardinality(Inside(a)) + 1] = t[a]
  BY DEF HoldsIn
<1>3. \A a \in Inside(n) : Cardinality(Inside(a)) + 1 \in 1 .. Len(held) - 1
  <2> TAKE a \in Inside(n)
  <2>1. Cardinality(Inside(a)) \in 1 .. Cardinality(Inside(n))
    BY InsideOfHome
  <2> QED
    BY <1>1, <1>2, <2>1
<1>4. \A a \in Inside(n) : popped[Cardinality(Inside(a)) + 1] = t[a]
  BY <1>1, <1>2, <1>3
<1>5. Len(popped) = Cardinality(Inside(n)) + 1
  BY <1>1, <1>2
<1> QED
  BY <1>4, <1>5 DEF HoldsIn

(* The scope a walk is in is that of the home of the children it visits.   *)
LEMMA AtTop ==
  ASSUME Control, ContextTyped, InContext, stack # << >>, Top.op \in Walk, NEW n \in Kids(Top.node)
  PROVE  /\ HoldsIn(Held(Top.unit), Top.node, scopeOf)
         /\ Homes(n) = Inside(Top.node)
         /\ Homes(n) # {} => Current = HomeScope(n)
         /\ Kind(Top.node) # "root" => Homes(n) # {}
         /\ Kind(n) # "module" => Homes(n) # {}
         /\ Top.op = "collect" => \A h \in Homes(n) : scopeOf[h] # 0
<1> DEFINE N == Len(stack)
           p == Top.node
           u == Top.unit
<1>1. N \in Depth /\ N \in Nat /\ Top = stack[N] /\ p \in Node /\ u \in File /\ InTree
  BY TopFacts DEF Control
<1>2. Innermost(N)
  BY <1>1 DEF Innermost
<1>3. HoldsIn(Held(u), p, scopeOf)
  BY <1>1, <1>2 DEF InContext, Holds, HoldsIn
<1>4. Homes(n) = Inside(p)
  BY <1>1, HomesOfKid
<1>5. Kind(p) # "root" => Inside(p) # {}
  BY <1>1 DEF InContext
<1>6. Kind(n) # "module" => Homes(n) # {}
  BY <1>1, <1>4, <1>5, RootInside
<1>7. Top.op = "collect" => \A h \in Homes(n) : scopeOf[h] # 0
  BY <1>1, <1>4 DEF InContext
<1>8. ASSUME Homes(n) # {} PROVE Current = HomeScope(n)
  <2>1. /\ Greatest(Inside(p)) \in Inside(p)
        /\ Inside(Greatest(Inside(p))) = Inside(p)
    BY <1>1, <1>4, <1>8, InnermostHome
  <2>2. Held(u)[Cardinality(Inside(p)) + 1] = scopeOf[Greatest(Inside(p))]
    BY <1>3, <2>1 DEF HoldsIn
  <2>3. Len(Held(u)) = Cardinality(Inside(p)) + 1
    BY <1>3 DEF HoldsIn
  <2>4. Held(u)[Len(Held(u))] = context[u].current
    BY <1>1, HeldFacts
  <2> QED
    BY <1>4, <2>2, <2>3, <2>4 DEF Current, HomeScope
<1> QED
  BY <1>3, <1>4, <1>5, <1>6, <1>7, <1>8

(* The part of InContext that speaks of one call.                          *)
ContextAt(i) ==
  /\ Innermost(i) => Holds(Held(stack[i].unit), stack[i].node)
  /\ stack[i].op \in Walk /\ Kind(stack[i].node) # "root" => Inside(stack[i].node) # {}
  /\ stack[i].op = "resolve" /\ Kind(stack[i].node) \in HomeKinds => Kind(stack[i].node) \in Entered
  /\ stack[i].op = "collect" => \A h \in Inside(stack[i].node) : scopeOf[h] # 0

LEMMA ContextPart ==
  /\ InContext <=> \A i \in Depth : ContextAt(i)
  /\ InContext' <=> \A i \in Depth' : ContextAt(i)'
BY DEF InContext, ContextAt

(* A call other than the last two, and the last but one if the call above  *)
(* it goes on, keeps its context.                                          *)
LEMMA ContextBelow ==
  ASSUME Control, InContext, stack # << >>, tree' = tree,
         Top.op \in Walk \cup {"compile"},
         \A f \in File : f # Top.unit => Held(f)' = Held(f),
         NEW i \in 1 .. Len(stack) - 1, stack'[i] = stack[i],
         stack[i].op \in Walk => \A h \in Inside(stack[i].node) : scopeOf'[h] = scopeOf[h],
         stack[i].op \in Walk => stack'[i + 1].op = stack[i + 1].op,
         stack[i].op \in Walk => i + 1 <= Len(stack')
  PROVE  ContextAt(i)'
<1>4. Len(stack) \in Nat /\ Depth = 1 .. Len(stack)
  BY StackFacts
<1>0. i \in Depth /\ i < Len(stack) /\ i # Len(stack)
  BY <1>4
<1>1. i \in Depth /\ i # Len(stack) /\ stack[i].unit \in File /\ ContextAt(i)
  BY <1>0, StackFacts, ContextPart
<1>2. \A m : Kind(m)' = Kind(m) /\ Inside(m)' = Inside(m)
  BY TreeStays
<1>3. ASSUME Innermost(i)' PROVE Holds(Held(stack[i].unit), stack[i].node)'
  <2>1. stack[i].op \in Walk /\ stack[i + 1].op \notin Walk
    BY <1>3 DEF Innermost
  <2>2. Innermost(i)
    BY <2>1 DEF Innermost
  <2>3. stack[i].unit # Top.unit
    BY <1>1, <2>2, OneInnermost
  <2>4. Held(stack[i].unit)' = Held(stack[i].unit)
    BY <1>1, <2>3
  <2>5. HoldsIn(Held(stack[i].unit), stack[i].node, scopeOf)
    BY <1>1, <2>2, HoldsFacts DEF ContextAt
  <2>6. HoldsIn(Held(stack[i].unit), stack[i].node, scopeOf')
    BY <2>1, <2>5, HoldsSame
  <2> QED
    BY <2>4, <2>6, <1>2 DEF Holds, HoldsIn
<1> QED
  BY <1>1, <1>2, <1>3 DEF ContextAt, Walk

(* A walk that comes to a child n: the scope of n may be made.             *)
ComingTo(n) ==
  /\ tree' = tree
  /\ \A m \in Node : m # n => scopeOf'[m] = scopeOf[m]

LEMMA ComingKeeps ==
  ASSUME Control, stack # << >>, Top.op \in Walk, NEW n \in Kids(Top.node), n > Top.at, ComingTo(n)
  PROVE  \A i \in Depth : stack[i].op \in Walk =>
           \A h \in Inside(stack[i].node) : h # n /\ scopeOf'[h] = scopeOf[h]
<1> TAKE i \in Depth
<1> HAVE stack[i].op \in Walk
<1> TAKE h \in Inside(stack[i].node)
<1>1. InTree /\ stack[i].node \in Node
  BY StackFacts DEF Control
<1>2. h \in Node /\ stack[i].node \in Subtree(h)
  BY <1>1, HomeFacts
<1>3. stack[i].node \notin Subtree(n)
  BY ComesTo
<1> QED
  BY <1>2, <1>3 DEF ComingTo

LEMMA ContextAfterMove ==
  ASSUME Control, ContextTyped, InContext, stack # << >>, Top.op \in Walk, NEW n \in Kids(Top.node),
         n > Top.at, ComingTo(n), context' = context, stack' = At(n)
  PROVE  InContext'
<1> DEFINE N == Len(stack)
<1>1. N \in Depth /\ N \in Nat /\ Depth = 1 .. N /\ Top = stack[N] /\ Top \in Frame /\ n \in Node /\ n \in Nat
  BY TopFacts, StackFacts, ComesTo, TreeFacts DEF Control
<1>2. /\ Len(stack') = N /\ Depth' = 1 .. N
      /\ \A i \in 1 .. N - 1 : stack'[i] = stack[i]
      /\ stack'[N].op = Top.op /\ stack'[N].unit = Top.unit /\ stack'[N].node = Top.node
  <2>1. Len(At(n)) = N /\ (\A i \in 1 .. N - 1 : At(n)[i] = stack[i]) /\ At(n)[N] = AtPlace(Top, n)
    BY <1>1, AtStack
  <2>2. AtPlace(Top, n).op = Top.op /\ AtPlace(Top, n).unit = Top.unit /\ AtPlace(Top, n).node = Top.node
    BY <1>1, PlacedFrame
  <2>3. Len(stack') = N /\ Depth' = 1 .. N
    BY <2>1 DEF Depth
  <2> QED
    BY <2>1, <2>2, <2>3
<1>3. \A i \in Depth : stack[i].op \in Walk =>
        \A h \in Inside(stack[i].node) : scopeOf'[h] = scopeOf[h]
  BY ComingKeeps
<1>4. \A f : Held(f)' = Held(f)
  BY DEF Held
<1>5. tree' = tree /\ \A m : Kind(m)' = Kind(m) /\ Inside(m)' = Inside(m)
  BY TreeStays DEF ComingTo
<1> HIDE DEF N
<1>6. ASSUME NEW i \in 1 .. N PROVE ContextAt(i)'
  <2>1. i \in Depth /\ ContextAt(i)
    BY <1>1, ContextPart
  <2>2. stack'[i].op = stack[i].op /\ stack'[i].unit = stack[i].unit /\ stack'[i].node = stack[i].node
    BY <1>1, <1>2
  <2>3. i < N => i + 1 \in 1 .. N /\ stack'[i + 1].op = stack[i + 1].op
    BY <1>1, <1>2
  <2>4. Innermost(i)' <=> Innermost(i)
    BY <1>2, <2>2, <2>3 DEF Innermost, N
  <2>5. ASSUME Innermost(i) PROVE HoldsIn(Held(stack[i].unit), stack[i].node, scopeOf')
    <3>1. HoldsIn(Held(stack[i].unit), stack[i].node, scopeOf)
      BY <1>5, <2>1, <2>5, HoldsFacts DEF ContextAt
    <3>2. \A h \in Inside(stack[i].node) : scopeOf'[h] = scopeOf[h]
      BY <1>3, <2>1, <2>5 DEF Innermost
    <3> QED
      BY <3>1, <3>2, HoldsSame
  <2>6. Innermost(i)' => Holds(Held(stack[i].unit), stack[i].node)'
    BY <1>4, <1>5, <2>2, <2>4, <2>5 DEF Holds, HoldsIn
  <2> QED
    BY <1>3, <1>5, <2>1, <2>2, <2>6 DEF ContextAt, Walk
<1> QED
  BY <1>2, <1>6, ContextPart

LEMMA ContextAfterEnter ==
  ASSUME Control, ContextTyped, InContext, stack # << >>, Top.op \in Walk, NEW n \in Kids(Top.node),
         n > Top.at, ComingTo(n), stack' = Enter(Top.op, n),
         Kind(n) \notin HomeKinds => context' = context,
         Kind(n) \in HomeKinds => /\ scopeOf'[n] \in Nat /\ context' = Push(scopeOf'[n])
                                  /\ Top.op = "collect" => scopeOf'[n] # 0
                                  /\ Top.op = "resolve" => Kind(n) \in Entered
  PROVE  InContext'
<1>a. PICK N \in Nat : N = Len(stack)
  BY StackFacts
<1>b. PICK u \in File : u = Top.unit
  BY TopFacts
<1>c. PICK p \in Node : p = Top.node
  BY TopFacts
<1>1. /\ N \in Depth /\ N \in Nat /\ Depth = 1 .. N /\ Top = stack[N] /\ Top \in Frame /\ n \in Node /\ n \in Nat
      /\ u \in File /\ p \in Node /\ InTree
  <2>1. N \in Depth /\ Depth = 1 .. N /\ Top = stack[N] /\ Top \in Frame
    BY <1>a, TopFacts, StackFacts
  <2>2. n \in Node /\ n \in Nat /\ InTree
    BY ComesTo, TreeFacts DEF Control
  <2> QED
    BY <2>1, <2>2
<1>2. /\ Len(stack') = N + 1 /\ Depth' = 1 .. N + 1
      /\ \A i \in 1 .. N - 1 : stack'[i] = stack[i]
      /\ stack'[N].op = Top.op /\ stack'[N].unit = u /\ stack'[N].node = p
      /\ stack'[N + 1].op = Top.op /\ stack'[N + 1].unit = u /\ stack'[N + 1].node = n
  <2>1. /\ Call(Top.op, u, n) \in Frame
        /\ Call(Top.op, u, n).op = Top.op /\ Call(Top.op, u, n).unit = u /\ Call(Top.op, u, n).node = n
    BY <1>b, <1>1, CallIsFrame DEF Walk
  <2>2. /\ Len(Enter(Top.op, n)) = N + 1 /\ (\A i \in 1 .. N - 1 : Enter(Top.op, n)[i] = stack[i])
        /\ Enter(Top.op, n)[N] = AtPlace(Top, n) /\ Enter(Top.op, n)[N + 1] = Call(Top.op, u, n)
    <3>1. Enter(Top.op, n) = Append(At(n), Call(Top.op, u, n))
      BY <1>b DEF Enter
    <3>2. PICK c \in Frame : c = Call(Top.op, u, n)
      BY <2>1
    <3>3. n \in Nat
      BY <1>1
    <3>4. /\ Len(Append(At(n), c)) = Len(stack) + 1
          /\ \A i \in 1 .. Len(stack) - 1 : Append(At(n), c)[i] = stack[i]
          /\ Append(At(n), c)[Len(stack)] = AtPlace(Top, n)
          /\ Append(At(n), c)[Len(stack) + 1] = c
      BY <3>3, EnterStack
    <3> QED
      BY <1>a, <3>1, <3>2, <3>4
  <2>3. AtPlace(Top, n).op = Top.op /\ AtPlace(Top, n).unit = u /\ AtPlace(Top, n).node = p
    BY <1>b, <1>c, <1>1, PlacedFrame
  <2>4. Depth' = 1 .. Len(stack')
    BY DEF Depth
  <2> QED
    BY <2>1, <2>2, <2>3, <2>4
<1>3. \A i \in Depth : stack[i].op \in Walk =>
        \A h \in Inside(stack[i].node) : scopeOf'[h] = scopeOf[h]
  BY ComingKeeps
<1>4. \A f \in File : f # u => Held(f)' = Held(f)
  <2>1. CASE Kind(n) \in HomeKinds
    BY <1>b, <2>1, PushFacts
  <2>2. CASE Kind(n) \notin HomeKinds
    BY <2>2 DEF Held
  <2> QED
    BY <2>1, <2>2
<1>5. tree' = tree /\ \A m : Kind(m)' = Kind(m) /\ Inside(m)' = Inside(m)
  BY TreeStays DEF ComingTo
<1>6. /\ HoldsIn(Held(u), p, scopeOf) /\ Homes(n) = Inside(p)
      /\ Kind(p) # "root" => Inside(p) # {}
      /\ Kind(n) # "module" => Homes(n) # {}
      /\ Top.op = "collect" => \A h \in Inside(p) : scopeOf[h] # 0
  BY <1>b, <1>c, AtTop
<1>7. n \in Kids(p) /\ \A h \in Inside(p) : scopeOf'[h] = scopeOf[h]
  BY <1>c, <1>1, <1>3
<1>8. HoldsIn(Held(u)', n, scopeOf')
  <2>1. CASE Kind(n) \notin HomeKinds
    <3>1. Held(u)' = Held(u)
      BY <2>1 DEF Held
    <3>2. HoldsIn(Held(u), p, scopeOf')
      BY <1>6, <1>7, HoldsSame
    <3> QED
      BY <1>1, <1>7, <2>1, <3>1, <3>2, HoldsPassed
  <2>2. CASE Kind(n) \in HomeKinds
    <3>1. /\ Len(Held(u)') = Len(Held(u)) + 1
          /\ Held(u)'[Len(Held(u)) + 1] = scopeOf'[n]
          /\ \A i \in 1 .. Len(Held(u)) : Held(u)'[i] = Held(u)[i]
      BY <1>b, <2>2, PushFacts
    <3> QED
      BY <1>1, <1>6, <1>7, <2>2, <3>1, HoldsPushed
  <2> QED
    BY <2>1, <2>2
<1>9. /\ Homes(n) \subseteq Inside(n) /\ Inside(n) \subseteq Inside(p) \cup {n}
      /\ n \in Inside(n) => Kind(n) \in HomeKinds
      /\ Kind(n) = "module" => Inside(n) # {}
  <2>1. \A h \in Inside(n) : Kind(h) \in HomeKinds
    BY <1>1, HomeFacts
  <2>2. Kind(n) \in HomeKinds => n \in Inside(n)
    BY DEF Inside
  <2>3. Homes(n) \subseteq Inside(n) /\ Inside(n) \subseteq Homes(n) \cup {n}
    BY DEF Inside
  <2> QED
    BY <1>6, <2>1, <2>2, <2>3 DEF HomeKinds
<1>10. ASSUME NEW i \in 1 .. N - 1 PROVE ContextAt(i)'
  <2>1. i \in Depth /\ i + 1 \in 1 .. N /\ i + 1 <= Len(stack')
    <3>1. N \in Nat /\ Depth = 1 .. N /\ Len(stack') = N + 1
      BY <1>1, <1>2
    <3> QED
      BY <3>1
  <2>2. stack'[i + 1].op = stack[i + 1].op
    BY <1>1, <1>2, <2>1
  <2>3. stack[i].op \in Walk => \A h \in Inside(stack[i].node) : scopeOf'[h] = scopeOf[h]
    BY <1>3, <2>1
  <2>5. \A f \in File : f # Top.unit => Held(f)' = Held(f)
    BY <1>b, <1>4
  <2>4. stack'[i] = stack[i] /\ Top.op \in Walk \cup {"compile"} /\ i \in 1 .. Len(stack) - 1
    BY <1>a, <1>2
  <2> QED
    BY <1>5, <2>1, <2>2, <2>3, <2>4, <2>5, ContextBelow
<1>11. ContextAt(N)'
  <2>1. stack'[N + 1].op \in Walk /\ N < Len(stack')
    BY <1>1, <1>2
  <2>2. ~Innermost(N)'
    BY <2>1 DEF Innermost
  <2>3. ContextAt(N)
    BY <1>1, ContextPart
  <2> QED
    BY <1>c, <1>1, <1>2, <1>3, <1>5, <2>2, <2>3 DEF ContextAt
<1>12. ContextAt(N + 1)'
  <2>1. Holds(Held(u), n)'
    BY <1>5, <1>8 DEF Holds, HoldsIn
  <2>2. Holds(Held(stack[N + 1].unit), stack[N + 1].node)'
    BY <1>2, <1>5, <1>8 DEF Holds, HoldsIn
  <2>3. Inside(n) # {}
    BY <1>6, <1>9
  <2>4. Top.op = "collect" => \A h \in Inside(n) : scopeOf'[h] # 0
    BY <1>6, <1>7, <1>9
  <2>5. Kind(n) \in HomeKinds /\ Top.op = "resolve" => Kind(n) \in Entered
    OBVIOUS
  <2> QED
    BY <1>2, <1>5, <2>2, <2>3, <2>4, <2>5 DEF ContextAt
<1> QED
  <2>1. \A i \in Depth' : i \in 1 .. N - 1 \/ i = N \/ i = N + 1
    BY <1>1, <1>2
  <2> QED
    BY <1>10, <1>11, <1>12, <2>1, ContextPart

LEMMA ContextAfterReturn ==
  ASSUME Control, ContextTyped, InContext, stack # << >>, Top.op \in Walk,
         UNCHANGED <<tree, scopeOf>>, stack' = Below,
         Kind(Top.node) \in HomeKinds => context' = Pop,
         Kind(Top.node) \notin HomeKinds => context' = context
  PROVE  ContextTyped' /\ InContext'
<1>a. PICK N \in Nat : N = Len(stack)
  BY StackFacts
<1>b. PICK u \in File : u = Top.unit
  BY TopFacts
<1>c. PICK p \in Node : p = Top.node
  BY TopFacts
<1>1. N \in Depth /\ Depth = 1 .. N /\ Top = stack[N] /\ InTree
  BY <1>a, TopFacts, StackFacts DEF Control
<1>2. /\ Len(stack') = N - 1 /\ Depth' = 1 .. N - 1
      /\ \A i \in 1 .. N - 1 : stack'[i] = stack[i]
  <2>1. Len(Below) = N - 1 /\ \A i \in 1 .. N - 1 : Below[i] = stack[i]
    BY <1>a, BelowStack
  <2>2. Depth' = 1 .. Len(stack')
    BY DEF Depth
  <2> QED
    BY <2>1, <2>2
<1>3. HoldsIn(Held(u), p, scopeOf)
  <2>1. Innermost(N)
    BY <1>a, <1>1 DEF Innermost
  <2>2. Holds(Held(stack[N].unit), stack[N].node)
    BY <1>1, <2>1 DEF InContext
  <2> QED
    BY <1>1, <1>b, <1>c, <2>2 DEF Holds, HoldsIn
<1>4. Kind(p) \in HomeKinds => Len(Held(Top.unit)) >= 2
  <2> HAVE Kind(p) \in HomeKinds
  <2>1. p \in Inside(p)
    BY DEF Inside
  <2>2. Cardinality(Inside(p)) \in Nat /\ Cardinality(Inside(p)) >= 1
    BY <1>1, <2>1, InsideFinite, InsideOfHome
  <2>3. Len(Held(u)) = Cardinality(Inside(p)) + 1
    BY <1>3 DEF HoldsIn
  <2> QED
    BY <1>b, <2>2, <2>3
<1>5. /\ ContextTyped'
      /\ \A f \in File : f # Top.unit => Held(f)' = Held(f)
      /\ Kind(p) \notin HomeKinds => Held(u)' = Held(u)
      /\ Kind(p) \in HomeKinds => /\ Len(Held(u)') = Len(Held(u)) - 1
                                  /\ \A i \in 1 .. Len(Held(u)) - 1 : Held(u)'[i] = Held(u)[i]
  <2>1. CASE Kind(p) \in HomeKinds
    BY <1>b, <1>c, <1>4, <2>1, PopFacts
  <2>2. CASE Kind(p) \notin HomeKinds
    BY <1>c, <2>2 DEF Held, ContextTyped
  <2> QED
    BY <2>1, <2>2
<1>6. \A m : Kind(m)' = Kind(m) /\ Inside(m)' = Inside(m)
  BY TreeStays
<1>7. ASSUME NEW i \in 1 .. N - 1, i # N - 1 PROVE ContextAt(i)'
  <2>1. i + 1 \in 1 .. N - 1
    BY <1>7
  <2>2. stack'[i] = stack[i] /\ stack'[i + 1] = stack[i + 1] /\ i + 1 <= Len(stack')
    BY <1>2, <2>1
  <2>3. i \in 1 .. Len(stack) - 1
    BY <1>a
  <2> QED
    BY <1>5, <2>2, <2>3, ContextBelow
<1>8. ASSUME NEW i \in 1 .. N - 1, i = N - 1 PROVE ContextAt(i)'
  <2>1. i \in Depth /\ ContextAt(i) /\ stack'[i] = stack[i] /\ stack[i].node \in Node
    <3>1. i \in Depth
      BY <1>1
    <3> QED
      BY <1>1, <1>2, <3>1, ContextPart, StackFacts
  <2>2. ASSUME stack[i].op \in Walk PROVE Holds(Held(stack[i].unit), stack[i].node)'
    <3>1. Awaits(stack[i], stack[i + 1]) /\ i + 1 = N
      BY <1>a, <1>8 DEF Control, Chain
    <3>2. stack[i].unit = u
      BY <1>1, <1>b, <2>2, <3>1 DEF Awaits, Walk
    <3>3. stack[i].at \in Kids(stack[i].node)
      BY <1>1, <1>b, <1>8, <2>1, <2>2, <3>2 DEF Control, Chain, Nested
    <3>4. p = stack[i].at
      BY <1>1, <1>c, <2>2, <3>1 DEF Awaits, Walk
    <3>5. HoldsIn(Held(u)', stack[i].node, scopeOf)
      <4>1. CASE Kind(p) \in HomeKinds
        BY <1>1, <1>3, <1>5, <2>1, <3>3, <3>4, <4>1, HoldsPopped
      <4>2. CASE Kind(p) \notin HomeKinds
        BY <1>1, <1>3, <1>5, <2>1, <3>3, <3>4, <4>2, HoldsPassed
      <4> QED
        BY <4>1, <4>2
    <3> QED
      BY <1>6, <2>1, <3>2, <3>5 DEF Holds, HoldsIn
  <2> QED
    BY <1>6, <2>1, <2>2 DEF ContextAt, Innermost
<1> QED
  BY <1>2, <1>5, <1>7, <1>8, ContextPart

LEMMA ContextStays ==
  ASSUME Control, InContext, UNCHANGED <<tree, scopeOf, context>>,
         \A i \in Depth' : stack'[i].op \in Walk =>
           /\ i \in Depth /\ stack'[i].op = stack[i].op
           /\ stack'[i].unit = stack[i].unit /\ stack'[i].node = stack[i].node
           /\ i < Len(stack) /\ stack[i + 1].op \in Walk => i < Len(stack') /\ stack'[i + 1].op \in Walk
  PROVE  InContext'
<1>1. \A m : Kind(m)' = Kind(m) /\ Inside(m)' = Inside(m)
  BY TreeStays
<1>2. \A f : Held(f)' = Held(f)
  BY DEF Held
<1>3. ASSUME NEW i \in Depth' PROVE ContextAt(i)'
  <2>1. CASE stack'[i].op \in Walk
    <3>1. /\ i \in Depth /\ stack'[i].op = stack[i].op
          /\ stack'[i].unit = stack[i].unit /\ stack'[i].node = stack[i].node /\ ContextAt(i)
      BY <2>1, ContextPart
    <3>2. Innermost(i)' => Innermost(i)
      BY <2>1, <3>1 DEF Innermost
    <3>3. Holds(Held(stack[i].unit), stack[i].node)' <=> Holds(Held(stack[i].unit), stack[i].node)
      BY <1>1, <1>2, <3>1 DEF Holds
    <3> QED
      BY <1>1, <3>1, <3>2, <3>3 DEF ContextAt
  <2>2. CASE stack'[i].op \notin Walk
    BY <2>2 DEF ContextAt, Innermost, Walk
  <2> QED
    BY <2>1, <2>2
<1> QED
  BY <1>3, ContextPart

LEMMA ContextAfterCompile ==
  ASSUME Control, ContextTyped, InContext, Compile
  PROVE  ContextTyped' /\ InContext'
<1>a. PICK N \in Nat : N = Len(stack)
  BY StackFacts
<1>1. /\ stack # << >> /\ Top.op = "compile" /\ tree' = tree /\ scopeOf' = scopeOf
      /\ context' = [context EXCEPT ![Top.unit] = Fresh] /\ Top.at \in {0, 1, 2}
  BY CompileMoves DEF tables
<1>b. PICK u \in File : u = Top.unit
  BY <1>1, TopFacts
<1>2. N \in Depth /\ Depth = 1 .. N /\ Top = stack[N] /\ InTree
  BY <1>a, <1>1, TopFacts, StackFacts DEF Control
<1>3. /\ ContextTyped' /\ Len(Held(u)') = 1
      /\ \A f \in File : f # Top.unit => Held(f)' = Held(f)
  BY <1>1, <1>b, FreshFacts
<1>4. \A m : Kind(m)' = Kind(m) /\ Inside(m)' = Inside(m)
  BY <1>1, TreeStays
<1>5. /\ \A i \in 1 .. N - 1 : stack'[i] = stack[i]
      /\ Top.at # 2 => /\ Depth' = 1 .. N + 1
                       /\ stack'[N].op = "compile"
                       /\ stack'[N + 1].unit = u /\ stack'[N + 1].node = Root(u)
      /\ Top.at = 2 => Depth' = 1 .. N - 1
  BY <1>a, <1>b, CompileMoves
<1>6. ASSUME NEW i \in 1 .. N - 1 PROVE ContextAt(i)'
  <2>1. stack'[i] = stack[i] /\ i \in 1 .. Len(stack) - 1 /\ i \in Depth /\ Depth' = 1 .. Len(stack')
    BY <1>a, <1>2, <1>5 DEF Depth
  <2>2. Awaits(stack[i], stack[i + 1])
    BY <2>1 DEF Control, Chain
  <2>3. CASE i = N - 1
    <3>1. i + 1 = N
      BY <2>3
    <3>2. stack[i].op = "load"
      BY <1>1, <1>2, <2>2, <3>1 DEF Awaits
    <3> QED
      BY <2>1, <3>2 DEF ContextAt, Innermost, Walk
  <2>4. CASE i # N - 1
    <3>1. i + 1 \in 1 .. N - 1 /\ stack'[i + 1] = stack[i + 1]
      BY <1>5, <2>4
    <3>2. i + 1 <= Len(stack')
      BY <1>1, <1>5, <2>1, <3>1
    <3> QED
      BY <1>1, <1>3, <2>1, <3>1, <3>2, ContextBelow
  <2> QED
    BY <2>3, <2>4
<1>7. ASSUME Top.at # 2 PROVE ContextAt(N)'
  BY <1>5, <1>7 DEF ContextAt, Innermost, Walk
<1>8. ASSUME Top.at # 2, NEW i, i = N + 1 PROVE ContextAt(i)'
  <2>1. PICK r \in Node : r = Root(u)
    BY <1>2, RootFacts
  <2>2. Kind(r) = "root" /\ Inside(r) = {} /\ "root" \notin HomeKinds
    BY <1>2, <2>1, RootFacts, RootInside DEF HomeKinds, Opening
  <2>3. HoldsIn(Held(u)', r, scopeOf)
    BY <1>3, <2>2, FS_EmptySet DEF HoldsIn
  <2>4. Holds(Held(u), r)'
    BY <1>1, <1>4, <2>3 DEF Holds, HoldsIn
  <2>5. stack'[i].unit = u /\ stack'[i].node = r
    BY <1>5, <1>8, <2>1
  <2> QED
    BY <1>4, <2>2, <2>4, <2>5 DEF ContextAt
<1> QED
  <2>1. \A i \in Depth' : i \in 1 .. N - 1 \/ (Top.at # 2 /\ i \in {N, N + 1})
    BY <1>1, <1>5
  <2> QED
    BY <1>3, <1>6, <1>7, <1>8, <2>1, ContextPart
-----------------------------------------------------------------------------
(* Lookup: what its recursion over the parents of a scope comes to.        *)
FindBody(f, x) ==
  [s \in 0 .. Len(scopes) |->
     CASE s = 0                      -> 0
       [] s # 0 /\ scopes[s].table[x] # 0 -> scopes[s].table[x]
       [] OTHER                      -> f[scopes[s].parent]]
FindsUpTo(m, x) ==
  \E g \in [0 .. m -> Nat] : \A s \in 0 .. m :
    g[s] = IF s = 0 THEN 0 ELSE IF scopes[s].table[x] # 0 THEN scopes[s].table[x] ELSE g[scopes[s].parent]

LEMMA FindExists ==
  ASSUME Tables, NEW x \in Name
  PROVE  \A m \in 0 .. Len(scopes) : FindsUpTo(m, x)
<1> DEFINE L == Len(scopes)
           Bad == {m \in 0 .. L : ~FindsUpTo(m, x)}
<1>1. /\ L \in Nat /\ DOMAIN scopes = 1 .. L
      /\ \A s \in 1 .. L : scopes[s].table[x] \in Nat /\ scopes[s].parent \in 0 .. s - 1
  <2>1. /\ L \in Nat /\ DOMAIN scopes = 1 .. L
        /\ \A s \in 1 .. L : scopes[s].parent \in Nat /\ scopes[s].table \in [Name -> Nat]
    BY TableFacts
  <2>2. \A s \in 1 .. L : scopes[s].parent < s
    BY <2>1 DEF Tables, Scoped
  <2> QED
    BY <2>1, <2>2
<1> HIDE DEF L
<1>2. FindsUpTo(0, x)
  <2>1. [s \in 0 .. 0 |-> 0] \in [0 .. 0 -> Nat]
    OBVIOUS
  <2>2. \A s \in 0 .. 0 : s = 0 /\ [t \in 0 .. 0 |-> 0][s] = 0
    OBVIOUS
  <2> QED
    BY <2>1, <2>2 DEF FindsUpTo
<1>3. ASSUME NEW m \in Nat, m + 1 <= L, FindsUpTo(m, x) PROVE FindsUpTo(m + 1, x)
  <2>1. PICK g \in [0 .. m -> Nat] : \A s \in 0 .. m :
          g[s] = IF s = 0 THEN 0 ELSE IF scopes[s].table[x] # 0 THEN scopes[s].table[x] ELSE g[scopes[s].parent]
    BY <1>3 DEF FindsUpTo
  <2> DEFINE v == IF scopes[m + 1].table[x] # 0 THEN scopes[m + 1].table[x] ELSE g[scopes[m + 1].parent]
             h == [s \in 0 .. m + 1 |-> IF s = m + 1 THEN v ELSE g[s]]
  <2>2. m + 1 \in 1 .. L /\ scopes[m + 1].table[x] \in Nat /\ scopes[m + 1].parent \in 0 .. m
    <3>1. m + 1 \in 1 .. L
      BY <1>1, <1>3
    <3> QED
      BY <1>1, <3>1
  <2>3. v \in Nat
    BY <2>1, <2>2
  <2> HIDE DEF v
  <2>4. h \in [0 .. m + 1 -> Nat] /\ h[m + 1] = v /\ \A s \in 0 .. m : h[s] = g[s]
    BY <2>1, <2>3
  <2> HIDE DEF h
  <2>5. ASSUME NEW s \in 0 .. m + 1
        PROVE  h[s] = IF s = 0 THEN 0 ELSE IF scopes[s].table[x] # 0 THEN scopes[s].table[x] ELSE h[scopes[s].parent]
    <3>1. CASE s = m + 1
      BY <2>2, <2>4, <3>1 DEF v
    <3>2. CASE s # m + 1
      <4>1. s \in 0 .. m /\ s \in 0 .. L
        BY <1>1, <1>3, <3>2
      <4>2. s # 0 => scopes[s].parent \in 0 .. m
        BY <1>1, <4>1
      <4> QED
        BY <2>1, <2>4, <4>1, <4>2
    <3> QED
      BY <3>1, <3>2
  <2> QED
    BY <2>4, <2>5 DEF FindsUpTo
<1>4. Bad = {}
  <2> SUFFICES ASSUME Bad # {} PROVE FALSE
    OBVIOUS
  <2>1. Bad \in SUBSET Nat
    OBVIOUS
  <2>2. Least(Bad) \in Bad /\ \A k \in Bad : Least(Bad) <= k
    BY <2>1, LeastMember
  <2>3. PICK m \in Bad : \A k \in Bad : m <= k
    BY <2>2
  <2>4. m \in Nat /\ m # 0 /\ m <= L
    BY <1>1, <1>2, <2>3
  <2>5. m - 1 \in Nat /\ m - 1 \in 0 .. L /\ m - 1 \notin Bad
    BY <1>1, <2>3, <2>4
  <2>6. FindsUpTo(m - 1, x) /\ (m - 1) + 1 = m
    BY <2>4, <2>5
  <2>7. FindsUpTo((m - 1) + 1, x)
    BY <1>3, <2>4, <2>5, <2>6
  <2> QED
    BY <2>3, <2>6, <2>7
<1> QED
  BY <1>4 DEF L

LEMMA LookupFacts ==
  ASSUME Tables, NEW x \in Name
  PROVE  /\ Lookup(0, x) = 0
         /\ \A s \in DOMAIN scopes :
              Lookup(s, x) = IF scopes[s].table[x] # 0 THEN scopes[s].table[x] ELSE Lookup(scopes[s].parent, x)
<1>1. /\ Len(scopes) \in Nat /\ DOMAIN scopes = 1 .. Len(scopes)
      /\ \A s \in DOMAIN scopes : scopes[s].parent \in 0 .. s - 1
  <2>1. /\ Len(scopes) \in Nat /\ DOMAIN scopes = 1 .. Len(scopes)
        /\ \A s \in DOMAIN scopes : scopes[s].parent \in Nat /\ scopes[s].parent < s
    BY TableFacts DEF Tables, Scoped
  <2> QED
    BY <2>1
<1>2. \E g : g = FindBody(g, x)
  <2>1. FindsUpTo(Len(scopes), x)
    BY <1>1, FindExists
  <2>2. PICK g \in [0 .. Len(scopes) -> Nat] : \A s \in 0 .. Len(scopes) :
          g[s] = IF s = 0 THEN 0 ELSE IF scopes[s].table[x] # 0 THEN scopes[s].table[x] ELSE g[scopes[s].parent]
    BY <2>1 DEF FindsUpTo
  <2>3. \A s \in 0 .. Len(scopes) : g[s] = FindBody(g, x)[s]
    BY <2>2 DEF FindBody
  <2>4. DOMAIN g = 0 .. Len(scopes) /\ g = [s \in DOMAIN g |-> g[s]]
    BY <2>2
  <2>5. FindBody(g, x) = [s \in 0 .. Len(scopes) |-> FindBody(g, x)[s]]
    BY DEF FindBody
  <2> QED
    BY <2>3, <2>4, <2>5
<1> DEFINE find == CHOOSE g : g = FindBody(g, x)
<1>3. find = FindBody(find, x)
  BY <1>2
<1>4. \A s : Lookup(s, x) = find[s]
  BY DEF Lookup, FindBody
<1> HIDE DEF find
<1>5. \A s \in 0 .. Len(scopes) : find[s] = FindBody(find, x)[s]
  BY <1>3
<1>6. \A s \in 0 .. Len(scopes) :
        find[s] = IF s = 0 THEN 0 ELSE IF scopes[s].table[x] # 0 THEN scopes[s].table[x] ELSE find[scopes[s].parent]
  BY <1>5 DEF FindBody
<1> QED
  BY <1>1, <1>4, <1>6

LEMMA LookupBound ==
  ASSUME Tables, NEW x \in Name
  PROVE  \A s \in 0 .. Len(scopes) : Lookup(s, x) \in 0 .. Len(symbols)
<1> DEFINE Bad == {s \in 0 .. Len(scopes) : Lookup(s, x) \notin 0 .. Len(symbols)}
<1>1. /\ Len(scopes) \in Nat /\ DOMAIN scopes = 1 .. Len(scopes) /\ Len(symbols) \in Nat
      /\ DOMAIN symbols = 1 .. Len(symbols)
      /\ \A s \in DOMAIN scopes : scopes[s].parent \in Nat /\ scopes[s].parent < s
      /\ \A s \in DOMAIN scopes : scopes[s].table[x] # 0 => scopes[s].table[x] \in 1 .. Len(symbols)
  BY TableFacts DEF Tables, Scoped, Entries
<1> SUFFICES ASSUME Bad # {} PROVE FALSE
  OBVIOUS
<1>2. Bad \in SUBSET Nat
  BY <1>1
<1>3. PICK s \in Bad : \A k \in Bad : s <= k
  BY <1>2, LeastMember
<1>4. CASE s = 0
  BY <1>1, <1>3, <1>4, LookupFacts
<1>5. CASE s # 0
  <2>1. s \in DOMAIN scopes
    BY <1>1, <1>3, <1>5
  <2>2. scopes[s].parent \in 0 .. Len(scopes) /\ scopes[s].parent < s /\ s \in Nat
    BY <1>1, <2>1
  <2>3. scopes[s].parent \notin Bad
    BY <1>3, <2>2
  <2>4. Lookup(scopes[s].parent, x) \in 0 .. Len(symbols)
    BY <2>2, <2>3
  <2>5. Lookup(s, x) = IF scopes[s].table[x] # 0 THEN scopes[s].table[x] ELSE Lookup(scopes[s].parent, x)
    BY <2>1, LookupFacts
  <2>6. Lookup(s, x) \in 0 .. Len(symbols)
    BY <1>1, <2>1, <2>4, <2>5
  <2> QED
    BY <1>3, <2>6
<1> QED
  BY <1>4, <1>5

LEMMA UseFacts ==
  ASSUME InTree, NEW n \in Node, Kind(n) \in Opening \cup Leaf \cup Use
  PROVE  NameOf(n) \in Name /\ Of(n) \in Module \cup {Unqualified} /\ Kind(n) # "module"
<1>1. IsParsed(tree) /\ tree[n] \in TreeNode /\ n \in DOMAIN tree
  BY TreeFacts
<1> QED
  BY <1>1 DEF IsParsed, TreeNode, NameOf, Of, Kind, Opening, Leaf, Use

LEMMA MeaningBound ==
  ASSUME Control, ContextTyped, InContext, Tables, stack # << >>, Top.op \in Walk,
         NEW n \in Kids(Top.node), Kind(n) \in Use
  PROVE  /\ Meaning(n) \in 0 .. Len(symbols)
         /\ Homes(n) # {} /\ Current = HomeScope(n) /\ Current \in 0 .. Len(scopes)
<1>1. n \in Node /\ InTree
  BY KidFacts, TopFacts DEF Control
<1>2. NameOf(n) \in Name /\ Of(n) \in Module \cup {Unqualified} /\ Kind(n) # "module"
  BY <1>1, UseFacts
<1>3. Homes(n) # {} /\ Current = HomeScope(n)
  BY <1>2, AtTop
<1>4. Current \in 0 .. Len(scopes)
  <2>1. Greatest(Homes(n)) \in Node
    BY <1>1, <1>3, GreatestHome
  <2> QED
    BY <1>3, <2>1 DEF HomeScope, Tables, TablesTyped
<1>5. Of(n) # Unqualified => modules[Of(n)] \in 0 .. Len(scopes)
  BY <1>2, TableFacts
<1>6. \A s \in 0 .. Len(scopes) : Lookup(s, NameOf(n)) \in 0 .. Len(symbols)
  BY <1>2, LookupBound
<1>7. 0 \in 0 .. Len(symbols)
  BY TableFacts
<1> QED
  BY <1>3, <1>4, <1>5, <1>6, <1>7 DEF Meaning
-----------------------------------------------------------------------------
(* What is below a redeclaration.                                          *)
LEMMA AvoidedStays ==
  ASSUME Control, Avoided, tree' = tree,
         \A a \in reported' : a \notin reported =>
           \A i \in Depth : stack[i].op \in Walk => stack[i].node \notin Subtree(a),
         \A i \in Depth' : stack'[i].op \in Walk =>
           \/ \E j \in Depth : stack[j].op = stack'[i].op /\ stack[j].node = stack'[i].node
           \/ \A a \in reported' : stack'[i].node \in Subtree(a) =>
                stack'[i].op = "resolve" /\ Kind(a) \in Passable
  PROVE  Avoided'
<1>1. \A m : Kind(m)' = Kind(m) /\ Subtree(m)' = Subtree(m)
  BY TreeStays
<1>2. ASSUME NEW i \in Depth', stack'[i].op \in Walk, NEW a \in reported', stack'[i].node \in Subtree(a)
      PROVE  stack'[i].op = "resolve" /\ Kind(a) \in Passable
  <2>1. CASE \E j \in Depth : stack[j].op = stack'[i].op /\ stack[j].node = stack'[i].node
    <3>1. PICK j \in Depth : stack[j].op = stack'[i].op /\ stack[j].node = stack'[i].node
      BY <2>1
    <3>2. a \in reported
      BY <1>2, <3>1
    <3> QED
      BY <1>2, <3>1, <3>2 DEF Avoided
  <2>2. CASE \A b \in reported' : stack'[i].node \in Subtree(b) => stack'[i].op = "resolve" /\ Kind(b) \in Passable
    BY <1>2, <2>2
  <2> QED
    BY <1>2, <2>1, <2>2
<1> QED
  BY <1>1, <1>2 DEF Avoided

(* A walk comes to n below Top: what is below n or above it was reported   *)
(* before, or is n.                                                        *)
LEMMA AboveComing ==
  ASSUME Control, Avoided, Tables, stack # << >>, Top.op \in Walk, NEW n \in Kids(Top.node),
         NEW a \in reported, n \in Subtree(a), a # n
  PROVE  Top.node \in Subtree(a) /\ Top.op = "resolve" /\ Kind(a) \in Passable /\ a \in Node
<1>1. Top.node \in Node /\ InTree /\ Len(stack) \in Depth /\ Top = stack[Len(stack)]
  BY TopFacts DEF Control
<1>2. a \in Node
  BY DEF Tables, TablesTyped
<1>3. n \in Node /\ IsAbove(a, n)
  BY <1>1, <1>2, KidFacts, SubtreeFacts
<1>4. a = Top.node \/ IsAbove(a, Top.node)
  BY <1>1, <1>2, <1>3, AboveKid
<1>5. Top.node \in Subtree(a)
  BY <1>1, <1>4 DEF Subtree
<1> QED
  BY <1>1, <1>2, <1>5 DEF Avoided

Shown == {"field", "variant"}

LEMMA DarkStays ==
  ASSUME RedeclaredStaysDark, tree' = tree, reported' = reported,
         \A n \in Node : symbolOf'[n] # symbolOf[n] \/ scopeOf'[n] # scopeOf[n] =>
           \A a \in reported : IsAbove(a, n) => Kind(a) \in Shown
  PROVE  RedeclaredStaysDark'
<1>1. /\ \A m : Kind(m)' = Kind(m)
      /\ \A m, n : IsAbove(m, n)' <=> IsAbove(m, n)
      /\ Node' = Node
  BY TreeStays
<1> QED
  BY <1>1 DEF RedeclaredStaysDark, Shown

(* Below a reported function, struct or enum the resolver finds nothing.   *)
LEMMA DarkNames ==
  ASSUME Control, ContextTyped, InContext, Tables, Avoided, RedeclaredStaysDark, stack # << >>,
         Top.op \in Walk, NEW n \in Kids(Top.node), Kind(n) \in Use,
         NEW a \in reported, IsAbove(a, n), Kind(a) \notin Shown
  PROVE  Meaning(n) = 0
<1>1. n \in Node /\ InTree /\ a \in Node
  BY KidFacts, TopFacts DEF Control, Tables, TablesTyped
<1>2. n \in Subtree(a) /\ a # n
  BY <1>1, SubtreeFacts, TreeFacts DEF IsAbove, Subtree
<1>3. Kind(a) \in {"function", "struct", "enum"}
  BY <1>2, AboveComing DEF Passable, Shown
<1>4. Homes(n) # {} /\ Current = HomeScope(n)
  BY MeaningBound
<1>5. a \in Homes(n)
  BY <1>1, <1>3, AncestorFacts DEF Homes, HomeKinds, Opening
<1> DEFINE g == Greatest(Homes(n))
<1>6. g \in Homes(n) /\ g \in Node /\ a <= g /\ g < n
  BY <1>1, <1>4, <1>5, GreatestHome
<1>7. scopeOf[g] = 0
  <2>1. CASE a = g
    BY <2>1 DEF Tables, Accounted
  <2>2. CASE a # g
    <3>1. IsAbove(g, n)
      BY <1>1, <1>6, AncestorFacts DEF Homes
    <3>2. a < g
      BY <1>1, <1>6, <2>2, TreeFacts
    <3>3. IsAbove(a, g)
      BY <1>1, <1>6, <3>1, <3>2, AboveChain
    <3> QED
      BY <1>3, <1>6, <3>3 DEF RedeclaredStaysDark
  <2> QED
    BY <2>1, <2>2
<1> QED
  BY <1>4, <1>7 DEF Meaning, HomeScope

(* A member access has its base as first child.                            *)
LEMMA BaseFacts ==
  ASSUME InTree, NEW n \in Node, Kind(n) = "member"
  PROVE  n + 1 \in Kids(n) /\ n + 1 \in Node
<1>1. /\ IsParsed(tree) /\ Len(tree) \in Nat /\ Node = 1 .. Len(tree) /\ n \in DOMAIN tree
      /\ \A m \in Node : tree[m].depth \in Nat
  BY TreeFacts
<1>2. HasChild(tree, n)
  BY <1>1 DEF IsParsed, Kind
<1>3. n + 1 \in Node /\ tree[n + 1].depth = tree[n].depth + 1
  BY <1>2 DEF HasChild, Node
<1>4. IsAbove(n, n + 1)
  <2>1. \A k \in n + 1 .. n + 1 : k = n + 1
    BY <1>1
  <2>2. tree[n + 1].depth > tree[n].depth /\ n < n + 1
    BY <1>1, <1>3
  <2> QED
    BY <2>1, <2>2 DEF IsAbove
<1>5. n + 1 \in n + 1 .. Len(tree)
  BY <1>1, <1>3
<1> QED
  BY <1>3, <1>4, <1>5 DEF Kids
-----------------------------------------------------------------------------
(* What the collector has come by.                                         *)
TouchedStays ==
  /\ tree' = tree
  /\ reported \subseteq reported'
  /\ \A m \in Node : Untouched(m)' => Untouched(m)

LEMMA ReachedBefore ==
  ASSUME TouchedStays
  PROVE  \A n : Reached(n)' => Reached(n)
<1>1. \A n : Ancestors(n)' = Ancestors(n) /\ Kids(n)' = Kids(n) /\ Collected(n)' = Collected(n)
  BY TreeStays DEF TouchedStays
<1> TAKE n
<1>3. HAVE Reached(n)'
<1>4. \A a \in Ancestors(n) : a \notin reported' /\
        \A k \in Kids(a) : k \in Ancestors(n) \cup {n} => k \in Collected(a)
  BY <1>1, <1>3 DEF Reached
<1> QED
  BY <1>4 DEF Reached, TouchedStays

(* Settled, for one file that the collector is at or through with.         *)
SettledIn(f) ==
  \A n \in Subtree(Root(f)) :
    Kind(n) \in HomeKinds \cup Leaf /\ Reached(n) => ~Untouched(n) \/ Ahead(n)

LEMMA SettledStays ==
  ASSUME Control, Settled, TouchedStays,
         \A f \in File : Reaches(f, 1)' => Reaches(f, 1),
         \A i \in Depth : stack[i].op = "collect" =>
           \/ i \in Depth' /\ stack'[i] = stack[i]
           \/ \A k \in Collected(stack[i].node) : ~(k > stack[i].at)
  PROVE  Settled'
<1>1. /\ \A m : Kind(m)' = Kind(m) /\ Subtree(m)' = Subtree(m) /\ Collected(m)' = Collected(m)
      /\ \A f : Root(f)' = Root(f)
  BY TreeStays DEF TouchedStays
<1>2. \A n : Ahead(n) => Ahead(n)'
  <2> TAKE n
  <2> HAVE Ahead(n)
  <2>1. PICK i \in Depth : /\ stack[i].op = "collect"
                           /\ \E k \in Collected(stack[i].node) : k > stack[i].at /\ n \in Subtree(k)
    BY DEF Ahead
  <2>2. i \in Depth' /\ stack'[i] = stack[i]
    BY <2>1
  <2> QED
    BY <1>1, <2>1, <2>2 DEF Ahead
<1>3. ASSUME NEW f \in File, Reaches(f, 1)', NEW n \in Subtree(Root(f)),
             Kind(n) \in HomeKinds \cup Leaf, Reached(n)', Untouched(n)'
      PROVE  Ahead(n)'
  <2>1. n \in Node /\ Reaches(f, 1)
    BY <1>3, FileTypes
  <2>2. Reached(n) /\ Untouched(n)
    BY <1>3, <2>1, ReachedBefore DEF TouchedStays
  <2> QED
    BY <1>2, <1>3, <2>1, <2>2 DEF Settled
<1> QED
  BY <1>1, <1>3 DEF Settled

LEMMA SettledAfterMove ==
  ASSUME Control, Settled, Collecting, TouchedStays, NEW n \in Node, n = Collectee, compiled' = compiled,
         \/ stack' = At(n) /\ (n \in reported' \/ Collected(n) = {})
         \/ stack' = Enter("collect", n),
         Kind(n) \in HomeKinds \cup Leaf => ~Untouched(n)'
  PROVE  Settled'
<1>0. /\ stack # << >> /\ Top.op = "collect" /\ n \in Kids(Top.node) /\ n > Top.at
      /\ \A k \in Collected(Top.node) : k > Top.at => n <= k
  BY CollecteeFacts
<1>a. PICK N \in Nat : N = Len(stack)
  BY StackFacts
<1>1. /\ N \in Depth /\ Depth = 1 .. N /\ Top = stack[N] /\ Top \in Frame /\ Top.unit \in File /\ InTree
      /\ n \in Nat /\ Top.node \in Node
  <2>1. Top \in Frame /\ Top.unit \in File /\ Top.node \in Node /\ Top = stack[Len(stack)] /\ Len(stack) \in Depth
    BY <1>0, TopFacts
  <2>2. InTree /\ n \in Nat
    BY TreeFacts DEF Control
  <2> QED
    BY <1>a, <2>1, <2>2, StackFacts
<1>2. /\ \A m : Kind(m)' = Kind(m) /\ Subtree(m)' = Subtree(m) /\ Collected(m)' = Collected(m)
                /\ Kids(m)' = Kids(m) /\ Ancestors(m)' = Ancestors(m)
      /\ \A f : Root(f)' = Root(f)
  BY TreeStays DEF TouchedStays
<1>3. /\ \A i \in 1 .. N - 1 : stack'[i] = stack[i]
      /\ stack'[N].op = "collect" /\ stack'[N].node = Top.node /\ stack'[N].at = n
      /\ 1 .. N \subseteq Depth'
      /\ n \in reported' \/ Collected(n) = {} \/
           (N + 1 \in Depth' /\ stack'[N + 1].op = "collect" /\ stack'[N + 1].node = n /\ stack'[N + 1].at = 0)
  <2>0. Depth' = 1 .. Len(stack')
    BY DEF Depth
  <2>1. /\ AtPlace(Top, n).op = "collect" /\ AtPlace(Top, n).node = Top.node /\ AtPlace(Top, n).at = n
    BY <1>0, <1>1, PlacedFrame
  <2>2. CASE stack' = At(n) /\ (n \in reported' \/ Collected(n) = {})
    BY <1>0, <1>a, <1>1, <2>0, <2>1, <2>2, AtStack
  <2>3. CASE stack' = Enter("collect", n)
    <3>1. PICK c \in Frame : c = Call("collect", Top.unit, n) /\ c.op = "collect" /\ c.node = n /\ c.at = 0
      BY <1>1, CallIsFrame
    <3>2. /\ Len(Append(At(n), c)) = N + 1
          /\ \A i \in 1 .. N - 1 : Append(At(n), c)[i] = stack[i]
          /\ Append(At(n), c)[N] = AtPlace(Top, n)
          /\ Append(At(n), c)[N + 1] = c
      <4>1. /\ Len(Append(At(n), c)) = Len(stack) + 1
            /\ \A i \in 1 .. Len(stack) - 1 : Append(At(n), c)[i] = stack[i]
            /\ Append(At(n), c)[Len(stack)] = AtPlace(Top, n)
            /\ Append(At(n), c)[Len(stack) + 1] = c
        BY <1>0, <1>1, EnterStack
      <4> QED
        BY <1>a, <4>1
    <3>3. stack' = Append(At(n), c)
      BY <2>3, <3>1 DEF Enter
    <3>4. /\ Len(stack') = N + 1 /\ stack'[N] = AtPlace(Top, n) /\ stack'[N + 1] = c
          /\ \A i \in 1 .. N - 1 : stack'[i] = stack[i]
      BY <3>2, <3>3
    <3>5. N + 1 \in Depth' /\ 1 .. N \subseteq Depth'
      BY <2>0, <3>4
    <3> QED
      BY <2>1, <3>1, <3>4, <3>5
  <2> QED
    BY <2>2, <2>3
<1>4. \A f : Reaches(f, 1)' => Reaches(f, 1)
  <2>1. Call("collect", Top.unit, n) \in Frame /\ Call("collect", Top.unit, n).op = "collect"
    BY <1>1, CallIsFrame
  <2>2. \A f, s : s \in {1, 2} => (Reaches(f, s)' <=> Reaches(f, s))
    BY <1>0, <1>1, <2>1, ReachesStays DEF Enter
  <2> QED
    BY <2>2
<1>5. ASSUME NEW f \in File, Reaches(f, 1)', NEW m \in Subtree(Root(f)),
             Kind(m) \in HomeKinds \cup Leaf, Reached(m)', Untouched(m)'
      PROVE  Ahead(m)'
  <2>1. m \in Node /\ Reached(m) /\ Untouched(m) /\ Reaches(f, 1)
    BY <1>4, <1>5, FileTypes, ReachedBefore DEF TouchedStays
  <2>2. Ahead(m)
    BY <1>5, <2>1 DEF Settled
  <2>7. PICK i \in Depth : /\ stack[i].op = "collect"
                           /\ \E k \in Collected(stack[i].node) : k > stack[i].at /\ m \in Subtree(k)
    BY <2>2 DEF Ahead
  <2>3. PICK k \in Collected(stack[i].node) : stack[i].op = "collect" /\ k > stack[i].at /\ m \in Subtree(k)
    BY <2>7
  <2>4. CASE i # N
    <3>1. i \in Depth' /\ stack'[i] = stack[i]
      BY <1>1, <1>3, <2>4
    <3> QED
      BY <1>2, <2>3, <3>1 DEF Ahead
  <2>5. CASE i = N /\ k # n
    <3>1. k \in Collected(Top.node) /\ k > Top.at /\ k \in Nat
      BY <1>1, <2>3, <2>5, VisitedKids
    <3>2. k > n
      BY <1>0, <1>1, <2>5, <3>1
    <3>3. N \in Depth' /\ k \in Collected(stack'[N].node) /\ k > stack'[N].at
      BY <1>1, <1>3, <3>1, <3>2
    <3> QED
      BY <1>2, <1>3, <2>3, <3>3 DEF Ahead
  <2>6. CASE i = N /\ k = n
    <3>1. m # n
      BY <1>5
    <3>2. PICK l \in Kids(n) : m \in Subtree(l)
      BY <1>1, <2>3, <2>6, <3>1, BelowIsBelowKid
    <3>3. l \in Node /\ l \in Nat /\ l > 0
      BY <1>1, <3>2, KidFacts, TreeFacts
    <3>4. n \in Ancestors(m) /\ l \in Ancestors(m) \cup {m}
      <4>1. m \in Subtree(n)
        BY <2>3, <2>6
      <4> QED
        BY <1>1, <2>1, <3>1, <3>2, <3>3, <4>1, AncestorFacts
    <3>5. n \notin reported' /\ l \in Collected(n)
      BY <1>2, <1>5, <3>2, <3>4 DEF Reached
    <3>6. N + 1 \in Depth' /\ stack'[N + 1].op = "collect" /\ stack'[N + 1].node = n /\ stack'[N + 1].at = 0
      BY <1>3, <3>5
    <3> QED
      BY <1>2, <3>2, <3>3, <3>5, <3>6 DEF Ahead
  <2> QED
    BY <2>4, <2>5, <2>6
<1> QED
  BY <1>2, <1>5 DEF Settled

LEMMA SettledAfterCompile ==
  ASSUME Control, Settled, Compile
  PROVE  Settled'
<1>a. PICK N \in Nat : N = Len(stack)
  BY StackFacts
<1>1. /\ Top.op = "compile" /\ tree' = tree /\ scopeOf' = scopeOf /\ symbolOf' = symbolOf /\ reported' = reported
      /\ Top.at \in {0, 1, 2} /\ stack # << >>
  BY CompileMoves DEF tables
<1>b. PICK u \in File : u = Top.unit
  BY <1>1, TopFacts
<1>2. N \in Depth /\ Depth = 1 .. N /\ Top = stack[N] /\ InTree
  BY <1>a, <1>1, TopFacts, StackFacts DEF Control
<1>3. /\ \A i \in 1 .. N - 1 : stack'[i] = stack[i] /\ i \in Depth'
      /\ Top.at = 0 => /\ N + 1 \in Depth'
                       /\ stack'[N + 1].op = "collect" /\ stack'[N + 1].node = Root(u) /\ stack'[N + 1].at = 0
  <2>1. Top.at = 2 => Depth' = 1 .. N - 1
    BY <1>a, CompileMoves
  <2>2. Top.at # 2 => Depth' = 1 .. N + 1
    BY <1>a, CompileMoves
  <2>3. \A i \in 1 .. N - 1 : stack'[i] = stack[i]
    BY <1>a, CompileMoves
  <2>4. Top.at = 0 => stack'[N + 1].op = "collect" /\ stack'[N + 1].node = Root(u) /\ stack'[N + 1].at = 0
    BY <1>a, <1>b, CompileMoves
  <2> QED
    BY <2>1, <2>2, <2>3, <2>4
<1>4. \A f : Reaches(f, 1)' => Reaches(f, 1) \/ (f = u /\ Top.at = 0)
  BY <1>1, <1>b, CompileReaches
<1>5. /\ \A m : Kind(m)' = Kind(m) /\ Subtree(m)' = Subtree(m) /\ Collected(m)' = Collected(m)
                /\ Kids(m)' = Kids(m) /\ Ancestors(m)' = Ancestors(m)
      /\ \A f : Root(f)' = Root(f)
  BY <1>1, TreeStays
<1>6. \A m : (Untouched(m)' <=> Untouched(m)) /\ (Reached(m)' <=> Reached(m))
  BY <1>1, <1>5 DEF Untouched, Reached
<1>7. ASSUME NEW f \in File, Reaches(f, 1)', NEW m \in Subtree(Root(f)),
             Kind(m) \in HomeKinds \cup Leaf, Reached(m), Untouched(m)
      PROVE  Ahead(m)'
  <2>1. CASE Reaches(f, 1)
    <3>1. PICK i \in Depth : /\ stack[i].op = "collect"
                             /\ \E k \in Collected(stack[i].node) : k > stack[i].at /\ m \in Subtree(k)
      BY <1>7, <2>1 DEF Settled, Ahead
    <3>2. i \in 1 .. N - 1
      BY <1>1, <1>2, <3>1
    <3> QED
      BY <1>3, <1>5, <3>1, <3>2 DEF Ahead
  <2>2. CASE f = u /\ Top.at = 0
    <3>1. PICK r \in Node : r = Root(u)
      BY <1>2, RootFacts
    <3>2. Kind(r) = "root" /\ m # r
      BY <1>2, <1>7, <3>1, RootFacts DEF HomeKinds, Opening, Leaf
    <3>3. PICK k \in Kids(r) : m \in Subtree(k)
      BY <1>2, <1>7, <2>2, <3>1, <3>2, BelowIsBelowKid
    <3>4. k \in Collected(r) /\ k > 0
      BY <1>2, <3>2, KidFacts, TreeFacts DEF Collected, Opening
    <3> QED
      BY <1>3, <1>5, <2>2, <3>1, <3>3, <3>4 DEF Ahead
  <2> QED
    BY <1>4, <1>7, <2>1, <2>2
<1> QED
  BY <1>5, <1>6, <1>7 DEF Settled
-----------------------------------------------------------------------------
(* The actions.                                                            *)
WalksOK == ContextTyped /\ Pending /\ InContext /\ Tables /\ Avoided /\ RedeclaredStaysDark /\ Settled

LEMMA InductiveParts == Inductive <=> Control /\ WalksOK
BY DEF Inductive, Control, WalksOK, TypeOK, Tables, TablesTyped, ContextTyped, InTree

LEMMA CollectFacts ==
  ASSUME Control, WalksOK, Collecting, NEW n, n = Collectee
  PROVE  /\ stack # << >> /\ Top.op = "collect" /\ n \in Kids(Top.node) /\ n \in Node /\ n > Top.at
         /\ \A m \in Subtree(n) : Untouched(m)
         /\ Untouched(n)
         /\ Kind(n) # "module" => Homes(n) # {} /\ Current = HomeScope(n) /\ HomeScope(n) # 0
                                  /\ Current \in DOMAIN scopes
         /\ \A i \in Depth : stack[i].op \in Walk => stack[i].node \notin Subtree(n)
<1>1. stack # << >> /\ Top.op = "collect" /\ n \in Kids(Top.node) /\ n \in Node /\ n > Top.at
  BY CollecteeFacts
<1>2. Len(stack) \in Depth /\ Top = stack[Len(stack)] /\ InTree
  BY <1>1, TopFacts DEF Control
<1>3. \A m \in Subtree(n) : Untouched(m)
  BY <1>1, <1>2 DEF WalksOK, Pending
<1>4. Untouched(n)
  BY <1>1, <1>2, <1>3, SubtreeFacts
<1>5. ASSUME Kind(n) # "module"
      PROVE  /\ Homes(n) # {} /\ Current = HomeScope(n) /\ HomeScope(n) # 0
             /\ Current \in DOMAIN scopes
  <2>1. Homes(n) # {} /\ Current = HomeScope(n) /\ \A h \in Homes(n) : scopeOf[h] # 0
    BY <1>1, <1>5, AtTop DEF WalksOK, Walk
  <2>2. Greatest(Homes(n)) \in Homes(n) /\ Greatest(Homes(n)) \in Node
    BY <1>1, <1>2, <2>1, GreatestHome
  <2>3. HomeScope(n) \in 0 .. Len(scopes) /\ Len(scopes) \in Nat /\ DOMAIN scopes = 1 .. Len(scopes)
    BY <2>2, TableFacts DEF WalksOK, HomeScope
  <2> QED
    BY <2>1, <2>2, <2>3 DEF HomeScope
<1>6. \A i \in Depth : stack[i].op \in Walk => stack[i].node \notin Subtree(n)
  BY <1>1, ComesTo DEF Walk
<1> QED
  BY <1>1, <1>3, <1>4, <1>5, <1>6

LEMMA AtFrames ==
  ASSUME Control, stack # << >>, NEW n \in Nat, stack' = At(n)
  PROVE  /\ Len(stack') = Len(stack) /\ Depth' = Depth
         /\ \A i \in Depth : /\ stack'[i].op = stack[i].op /\ stack'[i].unit = stack[i].unit
                             /\ stack'[i].node = stack[i].node
                             /\ i # Len(stack) => stack'[i] = stack[i]
<1>a. PICK N \in Nat : N = Len(stack)
  BY StackFacts
<1>1. N \in Depth /\ Depth = 1 .. N /\ Top = stack[N] /\ Top \in Frame
  BY <1>a, TopFacts, StackFacts
<1>2. /\ Len(At(n)) = N /\ (\A i \in 1 .. N - 1 : At(n)[i] = stack[i]) /\ At(n)[N] = AtPlace(Top, n)
  BY <1>a, AtStack
<1>3. AtPlace(Top, n).op = Top.op /\ AtPlace(Top, n).unit = Top.unit /\ AtPlace(Top, n).node = Top.node
  BY <1>1, PlacedFrame
<1>4. Depth' = 1 .. Len(stack')
  BY DEF Depth
<1>5. \A i \in Depth : i \in 1 .. N - 1 \/ i = N
  BY <1>1
<1> QED
  BY <1>a, <1>1, <1>2, <1>3, <1>4, <1>5

LEMMA EnterFrames ==
  ASSUME Control, stack # << >>, NEW n \in Nat, NEW op \in {"compile", "collect", "resolve", "load"},
         stack' = Enter(op, n)
  PROVE  /\ Len(stack') = Len(stack) + 1 /\ Depth' = 1 .. Len(stack) + 1 /\ Depth \subseteq Depth'
         /\ \A i \in Depth : /\ stack'[i].op = stack[i].op /\ stack'[i].unit = stack[i].unit
                             /\ stack'[i].node = stack[i].node
                             /\ i # Len(stack) => stack'[i] = stack[i]
         /\ stack'[Len(stack) + 1].op = op /\ stack'[Len(stack) + 1].node = n
<1>a. PICK N \in Nat : N = Len(stack)
  BY StackFacts
<1>1. N \in Depth /\ Depth = 1 .. N /\ Top = stack[N] /\ Top \in Frame /\ Top.unit \in File
  BY <1>a, TopFacts, StackFacts
<1>b. PICK c \in Frame : c = Call(op, Top.unit, n) /\ c.op = op /\ c.node = n
  BY <1>1, CallIsFrame
<1>2. /\ Len(Append(At(n), c)) = Len(stack) + 1
      /\ \A i \in 1 .. Len(stack) - 1 : Append(At(n), c)[i] = stack[i]
      /\ Append(At(n), c)[Len(stack)] = AtPlace(Top, n)
      /\ Append(At(n), c)[Len(stack) + 1] = c
  BY EnterStack
<1>3. AtPlace(Top, n).op = Top.op /\ AtPlace(Top, n).unit = Top.unit /\ AtPlace(Top, n).node = Top.node
  BY <1>1, PlacedFrame
<1>4. Depth' = 1 .. Len(stack')
  BY DEF Depth
<1>5. \A i \in Depth : i \in 1 .. N - 1 \/ i = N
  BY <1>1
<1>6. stack' = Append(At(n), c)
  BY <1>b DEF Enter
<1>7. /\ Len(stack') = N + 1 /\ (\A i \in 1 .. N - 1 : stack'[i] = stack[i])
      /\ stack'[N] = AtPlace(Top, n) /\ stack'[N + 1] = c
  BY <1>a, <1>2, <1>6
<1>8. Depth' = 1 .. N + 1 /\ Depth \subseteq Depth'
  BY <1>1, <1>4, <1>7
<1> QED
  BY <1>a, <1>b, <1>1, <1>3, <1>5, <1>7, <1>8

(* The two ways to go on at a child that the collector comes to.           *)
CollectPasses(n) == stack' = At(n) /\ context' = context /\ (n \in reported' \/ Collected(n) = {})
CollectEnters(n) ==
  /\ stack' = Enter("collect", n) /\ reported' = reported
  /\ Kind(n) \in HomeKinds => scopeOf'[n] \in Nat /\ scopeOf'[n] # 0 /\ context' = Push(scopeOf'[n])
  /\ Kind(n) \notin HomeKinds => context' = context

LEMMA CollectMoves ==
  ASSUME Control, WalksOK, Collecting, NEW n, n = Collectee, UNCHANGED <<tree, compiled>>, Tables',
         TouchesOnly(n), TouchedStays, CollectPasses(n) \/ CollectEnters(n),
         Kind(n) \in HomeKinds \cup Leaf => ~Untouched(n)'
  PROVE  WalksOK'
<1>1. /\ stack # << >> /\ Top.op = "collect" /\ n \in Kids(Top.node) /\ n \in Node /\ n > Top.at
      /\ \A m \in Subtree(n) : Untouched(m)
      /\ \A i \in Depth : stack[i].op \in Walk => stack[i].node \notin Subtree(n)
      /\ Top.op \in Walk /\ InTree
  BY CollectFacts DEF Walk, Control
<1>2. ContextTyped /\ Pending /\ InContext /\ Tables /\ Avoided /\ RedeclaredStaysDark /\ Settled
  BY DEF WalksOK
<1>3. stack' = At(n) \/ stack' = Enter("collect", n)
  BY DEF CollectPasses, CollectEnters
<1>4. ComingTo(n)
  BY DEF ComingTo, TouchesOnly
<1>5. Pending'
  BY <1>1, <1>2, <1>3, PendingAfterMove
<1>6. ContextTyped' /\ InContext'
  <2>1. CASE CollectPasses(n)
    <3>1. stack' = At(n) /\ context' = context
      BY <2>1 DEF CollectPasses
    <3>2. InContext'
      BY <1>1, <1>2, <1>4, <3>1, ContextAfterMove
    <3> QED
      BY <1>2, <3>1, <3>2 DEF ContextTyped
  <2>2. CASE CollectEnters(n)
    <3>1. /\ stack' = Enter(Top.op, n)
          /\ Kind(n) \in HomeKinds => scopeOf'[n] \in Nat /\ scopeOf'[n] # 0 /\ context' = Push(scopeOf'[n])
          /\ Kind(n) \notin HomeKinds => context' = context
      BY <1>1, <2>2 DEF CollectEnters
    <3>2. Top.op = "resolve" => Kind(n) \in Entered
      BY <1>1
    <3>3. InContext'
      BY <1>1, <1>2, <1>4, <3>1, <3>2, ContextAfterEnter
    <3>4. Top.unit \in File
      BY <1>1, TopFacts
    <3>5. ContextTyped'
      BY <1>2, <3>1, <3>4, PushFacts DEF ContextTyped
    <3> QED
      BY <3>3, <3>5
  <2> QED
    BY <2>1, <2>2
<1>7. Settled'
  <2>1. \/ stack' = At(n) /\ (n \in reported' \/ Collected(n) = {})
        \/ stack' = Enter("collect", n)
    BY DEF CollectPasses, CollectEnters
  <2> QED
    BY <1>1, <1>2, <2>1, SettledAfterMove
<1>8. \A a \in reported : a # n /\ n \notin Subtree(a)
  <2> TAKE a \in reported
  <2>1. a # n
    BY <1>1, SubtreeFacts DEF Untouched
  <2> QED
    BY <1>1, <1>2, <2>1, AboveComing
<1>9. \A a \in reported' : a \in reported \/ a = n
  <2>1. reported' \subseteq Node' /\ Node' = Node
    BY TreeStays DEF Tables, TablesTyped
  <2> QED
    BY <2>1 DEF TouchesOnly
<1>10. RedeclaredStaysDark'
  <2>1. ASSUME NEW a \in reported', NEW m \in Node, IsAbove(a, m), Kind(a) \notin Shown
        PROVE  symbolOf'[m] = 0 /\ scopeOf'[m] = 0
    <3>1. CASE a = n
      <4>1. m \in Subtree(n) /\ m # n
        BY <1>1, <2>1, <3>1, TreeFacts DEF Subtree, IsAbove
      <4> QED
        BY <1>1, <4>1 DEF TouchesOnly, Untouched
    <3>2. CASE a \in reported
      <4>1. m # n
        BY <1>8, <2>1, <3>2 DEF Subtree
      <4>2. symbolOf[m] = 0 /\ scopeOf[m] = 0
        BY <1>2, <2>1, <3>2 DEF RedeclaredStaysDark, Shown
      <4> QED
        BY <4>1, <4>2 DEF TouchesOnly
    <3> QED
      BY <1>9, <2>1, <3>1, <3>2
  <2>2. /\ \A m : Kind(m)' = Kind(m)
        /\ \A k, m : IsAbove(k, m)' <=> IsAbove(k, m)
        /\ Node' = Node
    BY TreeStays
  <2> QED
    BY <2>1, <2>2 DEF RedeclaredStaysDark, Shown
<1>11. Avoided'
  <2>0. n \in Nat /\ \A i \in Depth' : i \in Depth \/ i = Len(stack) + 1
    <3>1. n \in Nat
      BY <1>1, TreeFacts
    <3>2. CASE stack' = At(n)
      BY <1>1, <3>1, <3>2, AtFrames
    <3>3. CASE stack' = Enter("collect", n)
      BY <1>1, <3>1, <3>3, EnterFrames, StackFacts
    <3> QED
      BY <1>3, <3>1, <3>2, <3>3
  <2>1. ASSUME NEW i \in Depth', stack'[i].op \in Walk
        PROVE  \/ \E j \in Depth : stack[j].op = stack'[i].op /\ stack[j].node = stack'[i].node
               \/ \A a \in reported' : stack'[i].node \in Subtree(a) => stack'[i].op = "resolve" /\ Kind(a) \in Passable
    <3>1. CASE CollectPasses(n)
      BY <1>1, <2>0, <2>1, <3>1, AtFrames DEF CollectPasses
    <3>2. CASE CollectEnters(n)
      <4>1. stack' = Enter("collect", n) /\ reported' = reported
        BY <3>2 DEF CollectEnters
      <4>2. /\ \A j \in Depth : stack'[j].op = stack[j].op /\ stack'[j].node = stack[j].node
            /\ stack'[Len(stack) + 1].node = n
        BY <1>1, <2>0, <4>1, EnterFrames
      <4> QED
        BY <1>8, <2>0, <4>1, <4>2
    <3> QED
      BY <3>1, <3>2
  <2> QED
    BY <1>1, <1>2, <1>9, <2>1, AvoidedStays
<1> QED
  BY <1>5, <1>6, <1>7, <1>10, <1>11 DEF WalksOK

LEMMA Touching ==
  ASSUME Control, WalksOK, Collecting, NEW n, n = Collectee, tree' = tree, Kind(n) \notin Bound \/ symbolOf' = symbolOf,
         symbolOf' = symbolOf \/ \E v : symbolOf' = [symbolOf EXCEPT ![n] = v],
         scopeOf' = scopeOf \/ \E v : scopeOf' = [scopeOf EXCEPT ![n] = v],
         reported' = reported \/ reported' = reported \cup {n}
  PROVE  TouchesOnly(n) /\ TouchedStays
<1>1. Top.op = "collect" /\ Untouched(n) /\ n \in Node
  BY CollectFacts
<1>2. symbolOf \in [Node -> 0 .. Len(symbols)] /\ scopeOf \in [Node -> 0 .. Len(scopes)]
  BY DEF WalksOK, Tables, TablesTyped
<1>3. \A m \in Node : m # n => symbolOf'[m] = symbolOf[m]
  BY <1>2
<1>4. \A m \in Node : m # n => scopeOf'[m] = scopeOf[m]
  BY <1>2
<1>5. \A m : m # n => (m \in reported' <=> m \in reported)
  OBVIOUS
<1>6. Kind(n) \in Bound => symbolOf'[n] = symbolOf[n]
  OBVIOUS
<1>7. TouchesOnly(n)
  BY <1>1, <1>3, <1>4, <1>5, <1>6 DEF TouchesOnly
<1>8. \A m \in Node : Untouched(m)' => Untouched(m)
  BY <1>1, <1>3, <1>4, <1>5 DEF Untouched
<1> QED
  BY <1>7, <1>8 DEF TouchedStays

LEMMA CollectOpeningOK ==
  ASSUME Control, WalksOK, CollectOpening
  PROVE  WalksOK'
<1>0. Collecting
  BY DEF CollectOpening
<1>n. PICK n \in Node : n = Collectee
  BY <1>0, CollectFacts
<1>1. /\ Kind(n) \in Opening /\ Free(NameOf(n)) /\ Declare(n)
      /\ scopes' = Append(Declared(n), [parent |-> Current, table |-> NoEntries])
      /\ scopeOf' = [scopeOf EXCEPT ![n] = Len(scopes) + 1]
      /\ context' = Push(Len(scopes) + 1)
      /\ stack' = Enter("collect", n)
      /\ UNCHANGED <<tree, modules, reported, compiled, outcome>>
  BY <1>n DEF CollectOpening
<1>2. /\ n \in Node /\ Untouched(n) /\ Homes(n) # {} /\ HomeScope(n) # 0 /\ Current = HomeScope(n)
  BY <1>0, <1>n, <1>1, CollectFacts DEF Opening
<1>3. Tables /\ Len(scopes) \in Nat /\ Len(symbols) \in Nat
      /\ scopeOf \in [Node -> 0 .. Len(scopes)] /\ symbolOf \in [Node -> 0 .. Len(symbols)]
  BY TableFacts DEF WalksOK, Tables, TablesTyped
<1>4. Tables'
  BY <1>1, <1>2, <1>3, DeclareTables
<1>5. symbolOf' = [symbolOf EXCEPT ![n] = Len(symbols) + 1] /\ Kind(n) \notin Bound
  BY <1>1 DEF Declare, Opening, Bound, Use
<1>6. TouchesOnly(n) /\ TouchedStays
  BY <1>0, <1>n, <1>1, <1>5, Touching
<1>7. scopeOf'[n] = Len(scopes) + 1 /\ Len(scopes) + 1 \in Nat /\ Len(scopes) + 1 # 0
  BY <1>1, <1>2, <1>3
<1>8. CollectEnters(n)
  BY <1>1, <1>7 DEF CollectEnters, HomeKinds
<1>9. ~Untouched(n)'
  BY <1>7 DEF Untouched
<1> QED
  BY <1>0, <1>n, <1>1, <1>4, <1>6, <1>8, <1>9, CollectMoves

LEMMA CollectLeafOK ==
  ASSUME Control, WalksOK, CollectLeaf
  PROVE  WalksOK'
<1>0. Collecting
  BY DEF CollectLeaf
<1>n. PICK n \in Node : n = Collectee
  BY <1>0, CollectFacts
<1>1. /\ Kind(n) \in Leaf /\ Free(NameOf(n)) /\ Declare(n) /\ scopes' = Declared(n)
      /\ stack' = At(n)
      /\ UNCHANGED <<tree, modules, scopeOf, reported, context, compiled, outcome>>
  BY <1>n DEF CollectLeaf
<1>2. /\ n \in Node /\ Untouched(n) /\ Homes(n) # {} /\ HomeScope(n) # 0 /\ Current = HomeScope(n)
  BY <1>0, <1>n, <1>1, CollectFacts DEF Leaf
<1>3. Tables /\ Len(symbols) \in Nat /\ symbolOf \in [Node -> 0 .. Len(symbols)]
  BY TableFacts DEF WalksOK, Tables, TablesTyped
<1>4. Tables'
  BY <1>1, <1>2, <1>3, DeclareTables
<1>5. symbolOf' = [symbolOf EXCEPT ![n] = Len(symbols) + 1] /\ Kind(n) \notin Bound
  BY <1>1 DEF Declare, Leaf, Bound, Use
<1>6. TouchesOnly(n) /\ TouchedStays
  BY <1>0, <1>n, <1>1, <1>5, Touching
<1>7. symbolOf'[n] # 0
  BY <1>2, <1>3, <1>5
<1>8. CollectPasses(n)
  BY <1>1 DEF CollectPasses, Collected, Leaf, Opening
<1>9. ~Untouched(n)'
  BY <1>7 DEF Untouched
<1> QED
  BY <1>0, <1>n, <1>1, <1>4, <1>6, <1>8, <1>9, CollectMoves

LEMMA CollectRedeclaredOK ==
  ASSUME Control, WalksOK, CollectRedeclared
  PROVE  WalksOK'
<1>0. Collecting
  BY DEF CollectRedeclared
<1>n. PICK n \in Node : n = Collectee
  BY <1>0, CollectFacts
<1>1. /\ Kind(n) \in Opening \cup Leaf /\ ~Free(NameOf(n)) /\ reported' = reported \cup {n}
      /\ stack' = At(n)
      /\ UNCHANGED <<tree, modules, scopes, symbols, symbolOf, scopeOf, context, compiled, outcome>>
  BY <1>n DEF CollectRedeclared
<1>2. /\ n \in Node /\ Untouched(n) /\ Homes(n) # {} /\ HomeScope(n) # 0 /\ Current = HomeScope(n)
  BY <1>0, <1>n, <1>1, CollectFacts DEF Leaf, Opening
<1>3. Tables /\ symbolOf[n] = 0 /\ scopeOf[n] = 0 /\ scopes[HomeScope(n)].table[NameOf(n)] # 0
  BY <1>1, <1>2 DEF WalksOK, Untouched, Free
<1>4. Tables'
  BY <1>1, <1>2, <1>3, RedeclaredTables
<1>6. TouchesOnly(n) /\ TouchedStays
  BY <1>0, <1>n, <1>1, Touching
<1>7. n \in reported'
  BY <1>1
<1>8. CollectPasses(n)
  BY <1>1, <1>7 DEF CollectPasses
<1>9. ~Untouched(n)'
  BY <1>7 DEF Untouched
<1> QED
  BY <1>0, <1>n, <1>1, <1>4, <1>6, <1>8, <1>9, CollectMoves

LEMMA CollectImplOK ==
  ASSUME Control, WalksOK, CollectImpl
  PROVE  WalksOK'
<1>0. Collecting
  BY DEF CollectImpl
<1>n. PICK n \in Node : n = Collectee
  BY <1>0, CollectFacts
<1>1. /\ Kind(n) = "impl" /\ scopes' = NewScope(Current)
      /\ scopeOf' = [scopeOf EXCEPT ![n] = Len(scopes) + 1]
      /\ context' = Push(Len(scopes) + 1)
      /\ stack' = Enter("collect", n)
      /\ UNCHANGED <<tree, modules, symbols, symbolOf, reported, compiled, outcome>>
  BY <1>n DEF CollectImpl
<1>2. /\ n \in Node /\ Untouched(n) /\ Homes(n) # {} /\ HomeScope(n) # 0 /\ Current = HomeScope(n)
  BY <1>0, <1>n, <1>1, CollectFacts
<1>3. Tables /\ Len(scopes) \in Nat /\ scopeOf[n] = 0 /\ scopeOf \in [Node -> 0 .. Len(scopes)]
  BY <1>2, TableFacts DEF WalksOK, Tables, TablesTyped, Untouched
<1>4. Tables'
  BY <1>1, <1>2, <1>3, ImplTables
<1>6. TouchesOnly(n) /\ TouchedStays
  BY <1>0, <1>n, <1>1, Touching
<1>7. scopeOf'[n] = Len(scopes) + 1 /\ Len(scopes) + 1 \in Nat /\ Len(scopes) + 1 # 0
  BY <1>1, <1>2, <1>3
<1>8. CollectEnters(n)
  BY <1>1, <1>7 DEF CollectEnters, HomeKinds
<1>9. ~Untouched(n)'
  BY <1>7 DEF Untouched
<1> QED
  BY <1>0, <1>n, <1>1, <1>4, <1>6, <1>8, <1>9, CollectMoves

LEMMA CollectModuleOK ==
  ASSUME Control, WalksOK, CollectModule
  PROVE  WalksOK'
<1>0. Collecting
  BY DEF CollectModule
<1>n. PICK n \in Node : n = Collectee
  BY <1>0, CollectFacts
<1>s. PICK s : s = IF modules[NameOf(n)] # 0 THEN modules[NameOf(n)] ELSE Len(scopes) + 1
  OBVIOUS
<1>1. /\ Kind(n) = "module"
      /\ scopes' = IF modules[NameOf(n)] # 0 THEN scopes ELSE NewScope(modules[Builtin])
      /\ modules' = [modules EXCEPT ![NameOf(n)] = s]
      /\ scopeOf' = [scopeOf EXCEPT ![n] = s]
      /\ context' = Push(s)
      /\ stack' = Enter("collect", n)
      /\ UNCHANGED <<tree, symbols, symbolOf, reported, compiled, outcome>>
  BY <1>n, <1>s DEF CollectModule
<1>2. n \in Node /\ Untouched(n)
  BY <1>0, <1>n, CollectFacts
<1>3. Tables /\ scopeOf[n] = 0 /\ scopeOf \in [Node -> 0 .. Len(scopes)]
  BY <1>2 DEF WalksOK, Tables, TablesTyped, Untouched
<1>4. Tables' /\ s \in Nat \ {0}
  BY <1>1, <1>2, <1>3, <1>s, ModuleTables
<1>6. TouchesOnly(n) /\ TouchedStays
  BY <1>0, <1>n, <1>1, Touching
<1>7. scopeOf'[n] = s
  BY <1>1, <1>2, <1>3
<1>8. CollectEnters(n)
  BY <1>1, <1>4, <1>7 DEF CollectEnters, HomeKinds
<1>9. ~Untouched(n)'
  BY <1>4, <1>7 DEF Untouched
<1> QED
  BY <1>0, <1>n, <1>1, <1>4, <1>6, <1>8, <1>9, CollectMoves

LEMMA CollectInitOK ==
  ASSUME Control, WalksOK, CollectInit
  PROVE  WalksOK'
<1>0. Collecting
  BY DEF CollectInit
<1>n. PICK n \in Node : n = Collectee
  BY <1>0, CollectFacts
<1>1. /\ Kind(n) = "init" /\ scopeOf' = [scopeOf EXCEPT ![n] = Current]
      /\ stack' = Enter("collect", n)
      /\ UNCHANGED <<tree, modules, scopes, symbols, symbolOf, reported, context, compiled, outcome>>
  BY <1>n DEF CollectInit
<1>2. /\ n \in Node /\ Untouched(n) /\ Homes(n) # {} /\ HomeScope(n) # 0 /\ Current = HomeScope(n)
  BY <1>0, <1>n, <1>1, CollectFacts
<1>3. Tables /\ scopeOf[n] = 0
  BY <1>2 DEF WalksOK, Untouched
<1>4. Tables'
  BY <1>1, <1>2, <1>3, InitTables
<1>6. TouchesOnly(n) /\ TouchedStays
  BY <1>0, <1>n, <1>1, Touching
<1>7. Kind(n) \notin HomeKinds \cup Leaf
  BY <1>1 DEF HomeKinds, Opening, Leaf
<1>8. CollectEnters(n)
  BY <1>1, <1>7 DEF CollectEnters
<1> QED
  BY <1>0, <1>n, <1>1, <1>4, <1>6, <1>7, <1>8, CollectMoves

LEMMA CollectOtherOK ==
  ASSUME Control, WalksOK, CollectOther
  PROVE  WalksOK'
<1>0. Collecting
  BY DEF CollectOther
<1>n. PICK n \in Node : n = Collectee
  BY <1>0, CollectFacts
<1>1. /\ Kind(n) \notin Opening \cup Leaf \cup {"impl", "module", "init"}
      /\ stack' = IF Collected(n) = {} THEN At(n) ELSE Enter("collect", n)
      /\ UNCHANGED <<tree, tables, context, compiled, outcome>>
  BY <1>n DEF CollectOther
<1>3. /\ Tables
      /\ UNCHANGED <<modules, scopes, symbols, symbolOf, scopeOf, reported>>
  BY <1>1 DEF WalksOK, tables
<1>4. Tables'
  BY <1>1, <1>3, SameTables
<1>6. TouchesOnly(n) /\ TouchedStays
  BY <1>0, <1>n, <1>1, <1>3, Touching
<1>7. Kind(n) \notin HomeKinds \cup Leaf
  BY <1>1 DEF HomeKinds
<1>8. CollectPasses(n) \/ CollectEnters(n)
  BY <1>1, <1>3, <1>7 DEF CollectEnters, CollectPasses
<1> QED
  BY <1>0, <1>n, <1>1, <1>4, <1>6, <1>7, <1>8, CollectMoves

LEMMA ReturnMoves ==
  ASSUME Control, WalksOK, stack # << >>, Top.op \in Walk, stack' = Below,
         UNCHANGED <<tree, compiled, scopeOf, reported>>, Tables',
         Kind(Top.node) \in HomeKinds => context' = Pop,
         Kind(Top.node) \notin HomeKinds => context' = context,
         \A m \in Node : symbolOf'[m] # symbolOf[m] =>
           /\ m = Top.node /\ Top.op = "resolve" /\ symbolOf'[m] # 0
           /\ \A a \in reported : IsAbove(a, m) => Kind(a) \in Shown,
         Top.op = "collect" => Left(Collected(Top.node)) = {}
  PROVE  WalksOK'
<1>1. ContextTyped /\ Pending /\ InContext /\ Tables /\ Avoided /\ RedeclaredStaysDark /\ Settled
  BY DEF WalksOK
<1>2. Top.op # "compile"
  BY DEF Walk
<1>3. Pending'
  BY <1>1, <1>2, PendingAfterReturn
<1>4. ContextTyped' /\ InContext'
  BY <1>1, ContextAfterReturn
<1>5. RedeclaredStaysDark'
  BY <1>1, DarkStays
<1>a. PICK N \in Nat : N = Len(stack)
  BY StackFacts
<1>6. /\ N \in Depth /\ Depth = 1 .. N /\ Top = stack[N] /\ Depth' = 1 .. N - 1
      /\ \A i \in 1 .. N - 1 : stack'[i] = stack[i]
  <2>1. N \in Depth /\ Depth = 1 .. N /\ Top = stack[N]
    BY <1>a, TopFacts, StackFacts
  <2>2. Len(Below) = N - 1 /\ \A i \in 1 .. N - 1 : Below[i] = stack[i]
    BY <1>a, BelowStack
  <2>3. Depth' = 1 .. Len(stack')
    BY DEF Depth
  <2> QED
    BY <2>1, <2>2, <2>3
<1>7. Avoided'
  <2>1. \A i \in Depth' : stack'[i].op \in Walk =>
          \E j \in Depth : stack[j].op = stack'[i].op /\ stack[j].node = stack'[i].node
    BY <1>6
  <2> QED
    BY <1>1, <2>1, AvoidedStays
<1>8. Settled'
  <2>1. TouchedStays
    BY DEF TouchedStays, Untouched
  <2>2. \A f \in File : Reaches(f, 1)' => Reaches(f, 1)
    <3>1. 0 \in Nat /\ \A f, s : s \in {1, 2} => (Reaches(f, s)' <=> Reaches(f, s))
      BY <1>2, ReachesStays
    <3> QED
      BY <3>1
  <2>3. \A i \in Depth : stack[i].op = "collect" =>
           \/ i \in Depth' /\ stack'[i] = stack[i]
           \/ \A k \in Collected(stack[i].node) : ~(k > stack[i].at)
    <3> TAKE i \in Depth
    <3> HAVE stack[i].op = "collect"
    <3>1. CASE i = N
      <4>1. \A k \in Collected(Top.node) : ~(k > Top.at)
        BY <1>6, <3>1 DEF Left
      <4> QED
        BY <1>6, <3>1, <4>1
    <3>2. CASE i # N
      BY <1>6, <3>2
    <3> QED
      BY <3>1, <3>2
  <2> QED
    BY <1>1, <2>1, <2>2, <2>3, SettledStays
<1> QED
  BY <1>3, <1>4, <1>5, <1>7, <1>8 DEF WalksOK

LEMMA CollectReturnOK ==
  ASSUME Control, WalksOK, CollectReturn
  PROVE  WalksOK'
<1>1. /\ stack # << >> /\ Top.op = "collect" /\ Top.op \in Walk /\ stack' = Below
      /\ Left(Collected(Top.node)) = {}
      /\ UNCHANGED <<tree, tables, compiled, outcome>>
      /\ Kind(Top.node) \in HomeKinds => context' = Pop
      /\ Kind(Top.node) \notin HomeKinds => context' = context
  BY DEF CollectReturn, In, Walk, HomeKinds
<1>2. UNCHANGED <<modules, scopes, symbols, symbolOf, scopeOf, reported>>
  BY <1>1 DEF tables
<1>3. Tables'
  BY <1>1, SameTables DEF WalksOK
<1> QED
  BY <1>1, <1>2, <1>3, ReturnMoves

LEMMA ResolveReturnOK ==
  ASSUME Control, WalksOK, ResolveReturn
  PROVE  WalksOK'
<1>p. PICK p : p = Top.node
  OBVIOUS
<1>1. /\ stack # << >> /\ Top.op = "resolve" /\ Top.op \in Walk /\ stack' = Below
      /\ UNCHANGED <<tree, modules, scopes, symbols, scopeOf, reported, compiled, outcome>>
      /\ context' = IF Kind(p) \in Entered THEN Pop ELSE context
      /\ symbolOf' = IF Kind(p) = "member" /\ symbolOf[p + 1] # 0
                     THEN [symbolOf EXCEPT ![p] = symbolOf[p + 1]] ELSE symbolOf
  BY <1>p DEF ResolveReturn, In, Walk
<1>2. /\ p \in Node /\ Len(stack) \in Depth /\ Top = stack[Len(stack)] /\ InTree
  BY <1>1, <1>p, TopFacts DEF Control
<1>3. Kind(p) \in HomeKinds <=> Kind(p) \in Entered
  <2>1. Kind(p) \in HomeKinds => Kind(p) \in Entered
    BY <1>1, <1>2, <1>p DEF WalksOK, InContext
  <2> QED
    BY <2>1 DEF Entered, HomeKinds, Opening
<1>4. Tables /\ RedeclaredStaysDark /\ symbolOf \in [Node -> 0 .. Len(symbols)]
      /\ DOMAIN symbols = 1 .. Len(symbols) /\ Len(symbols) \in Nat
  BY TableFacts DEF WalksOK, Tables, TablesTyped
<1>5. CASE Kind(p) = "member" /\ symbolOf[p + 1] # 0
  <2>1. p + 1 \in Kids(p) /\ p + 1 \in Node
    BY <1>2, <1>5, BaseFacts
  <2>2. symbolOf' = [symbolOf EXCEPT ![p] = symbolOf[p + 1]] /\ symbolOf[p + 1] \in DOMAIN symbols
    BY <1>1, <1>4, <1>5, <2>1
  <2>3. Tables'
    BY <1>1, <1>2, <1>4, <1>5, <2>2, BindTables DEF Bound
  <2>4. \A a \in reported : IsAbove(a, p) => Kind(a) \in Shown
    <3> SUFFICES ASSUME NEW a \in reported, IsAbove(a, p), Kind(a) \notin Shown PROVE FALSE
      OBVIOUS
    <3>1. a \in Node
      BY <1>4 DEF Tables, TablesTyped
    <3>2. IsAbove(a, p + 1)
      BY <1>2, <2>1, <3>1, AboveKid
    <3> QED
      BY <1>4, <1>5, <2>1, <3>2 DEF RedeclaredStaysDark, Shown
  <2>5. \A m \in Node : symbolOf'[m] # symbolOf[m] => m = p /\ symbolOf'[m] # 0
    BY <1>4, <1>5, <2>2
  <2> QED
    BY <1>1, <1>3, <1>p, <2>3, <2>4, <2>5, ReturnMoves
<1>6. CASE ~(Kind(p) = "member" /\ symbolOf[p + 1] # 0)
  <2>1. symbolOf' = symbolOf
    BY <1>1, <1>6
  <2>2. Tables'
    BY <1>1, <1>4, <2>1, SameTables DEF tables
  <2> QED
    BY <1>1, <1>3, <1>p, <2>1, <2>2, ReturnMoves
<1> QED
  BY <1>5, <1>6

LEMMA OtherMoves ==
  ASSUME Control, WalksOK, UNCHANGED <<tree, tables, context>>,
         \A f, s : f \in File /\ s \in {1, 2} => (Reaches(f, s)' <=> Reaches(f, s)),
         \A i \in Depth' : stack'[i].op \in Walk =>
           /\ i \in Depth /\ stack'[i] = stack[i]
           /\ i < Len(stack) /\ stack[i + 1].op \in Walk => i < Len(stack') /\ stack'[i + 1].op \in Walk,
         \A i \in Depth : stack[i].op = "collect" => i \in Depth' /\ stack'[i] = stack[i]
  PROVE  WalksOK'
<1>1. ContextTyped /\ Pending /\ InContext /\ Tables /\ Avoided /\ RedeclaredStaysDark /\ Settled
  BY DEF WalksOK
<1>2. UNCHANGED <<tree, modules, scopes, symbols, symbolOf, scopeOf, reported, context>>
  BY DEF tables
<1>3. Pending'
  BY <1>1, <1>2, PendingStays
<1>4. ContextTyped'
  BY <1>1, <1>2 DEF ContextTyped
<1>5. InContext'
  BY <1>1, <1>2, ContextStays
<1>6. Tables'
  BY <1>1, SameTables
<1>7. Avoided'
  <2>1. \A i \in Depth' : stack'[i].op \in Walk =>
          \E j \in Depth : stack[j].op = stack'[i].op /\ stack[j].node = stack'[i].node
    OBVIOUS
  <2> QED
    BY <1>1, <1>2, <2>1, AvoidedStays
<1>8. RedeclaredStaysDark'
  BY <1>1, <1>2, DarkStays
<1>9. Settled'
  <2>1. TouchedStays
    BY <1>2 DEF TouchedStays, Untouched
  <2>2. \A f \in File : Reaches(f, 1)' => Reaches(f, 1)
    OBVIOUS
  <2> QED
    BY <1>1, <2>1, <2>2, SettledStays
<1> QED
  BY <1>3, <1>4, <1>5, <1>6, <1>7, <1>8, <1>9 DEF WalksOK

(* The ways to go on at a child that the resolver comes to.                *)
ResolveEnters(n) ==
  /\ stack' = Enter("resolve", n)
  /\ Kind(n) \in HomeKinds => Kind(n) \in Entered /\ context' = Push(scopeOf[n])
  /\ Kind(n) \notin HomeKinds => context' = context
  /\ Kind(n) \in Opening \cup Leaf /\ symbolOf[n] = 0 => Kind(n) \in Passable
ResolveLoads(n) == stack' = Enter("load", n) /\ context' = context /\ Kind(n) = "import"

LEMMA ResolveMoves ==
  ASSUME Control, WalksOK, Resolving, NEW n, n = Resolvee,
         UNCHANGED <<tree, compiled, modules, scopes, symbols, scopeOf, reported>>,
         symbolOf' = symbolOf \/ (Kind(n) \in Use /\ Meaning(n) # 0 /\ symbolOf' = [symbolOf EXCEPT ![n] = Meaning(n)]),
         (stack' = At(n) /\ context' = context) \/ ResolveEnters(n) \/ ResolveLoads(n)
  PROVE  WalksOK'
<1>1. /\ stack # << >> /\ Top.op = "resolve" /\ n \in Kids(Top.node) /\ n \in Node /\ n > Top.at
      /\ Top.op \in Walk /\ InTree /\ n \in Nat
  BY ResolveeFacts, TreeFacts DEF Walk, Control
<1>2. /\ ContextTyped /\ Pending /\ InContext /\ Tables /\ Avoided /\ RedeclaredStaysDark /\ Settled
      /\ symbolOf \in [Node -> 0 .. Len(symbols)] /\ scopeOf \in [Node -> 0 .. Len(scopes)]
      /\ reported \subseteq Node
  BY DEF WalksOK, Tables, TablesTyped
<1>3. \/ stack' = At(n) \/ stack' = Enter(Top.op, n) \/ (stack' = Enter("load", n) /\ Kind(n) # "member")
  BY <1>1 DEF ResolveEnters, ResolveLoads
<1>4. /\ \A m \in Node : m # n => symbolOf'[m] = symbolOf[m]
      /\ symbolOf'[n] # symbolOf[n] => Kind(n) \in Use /\ Meaning(n) # 0 /\ symbolOf'[n] # 0
  BY <1>1, <1>2
<1>5. TouchesOnly(n)
  BY <1>1, <1>4 DEF TouchesOnly
<1>6. Pending'
  BY <1>1, <1>2, <1>3, <1>5, PendingAfterMove
<1>7. Tables'
  <2>1. CASE symbolOf' = symbolOf
    BY <1>2, <2>1, SameTables DEF tables
  <2>2. CASE Kind(n) \in Use /\ Meaning(n) # 0 /\ symbolOf' = [symbolOf EXCEPT ![n] = Meaning(n)]
    <3>1. Meaning(n) \in 0 .. Len(symbols) /\ Len(symbols) \in Nat /\ DOMAIN symbols = 1 .. Len(symbols)
      BY <1>1, <1>2, <2>2, MeaningBound, TableFacts
    <3>2. Meaning(n) \in DOMAIN symbols
      BY <2>2, <3>1
    <3> QED
      BY <1>1, <1>2, <2>2, <3>2, BindTables DEF Bound
  <2> QED
    BY <2>1, <2>2
<1>8. RedeclaredStaysDark'
  <2>1. ASSUME NEW m \in Node, symbolOf'[m] # symbolOf[m], NEW a \in reported, IsAbove(a, m), Kind(a) \notin Shown
        PROVE  FALSE
    <3>1. m = n /\ Kind(n) \in Use /\ Meaning(n) # 0
      BY <1>4, <2>1
    <3> QED
      BY <1>1, <1>2, <2>1, <3>1, DarkNames
  <2> QED
    BY <1>2, <2>1, DarkStays
<1>9. ComingTo(n)
  BY DEF ComingTo
<1>10. ContextTyped' /\ InContext'
  <2>1. CASE stack' = At(n) /\ context' = context
    <3>1. InContext'
      BY <1>1, <1>2, <1>9, <2>1, ContextAfterMove
    <3> QED
      BY <1>2, <2>1, <3>1 DEF ContextTyped
  <2>2. CASE ResolveEnters(n)
    <3>1. scopeOf'[n] \in Nat /\ scopeOf'[n] = scopeOf[n]
      BY <1>1, <1>2
    <3>2. /\ stack' = Enter(Top.op, n)
          /\ Kind(n) \notin HomeKinds => context' = context
          /\ Kind(n) \in HomeKinds => Kind(n) \in Entered /\ context' = Push(scopeOf'[n])
      BY <1>1, <2>2, <3>1 DEF ResolveEnters
    <3>3. Top.op # "collect"
      BY <1>1
    <3>4. InContext'
      BY <1>1, <1>2, <1>9, <3>1, <3>2, <3>3, ContextAfterEnter
    <3>5. Top.unit \in File
      BY <1>1, TopFacts
    <3>6. ContextTyped'
      BY <1>2, <3>1, <3>2, <3>5, PushFacts DEF ContextTyped
    <3> QED
      BY <3>4, <3>6
  <2>3. CASE ResolveLoads(n)
    <3>1. stack' = Enter("load", n) /\ context' = context
      BY <2>3 DEF ResolveLoads
    <3>2. /\ Depth' = 1 .. Len(stack) + 1
          /\ \A i \in Depth : stack'[i].op = stack[i].op /\ stack'[i].unit = stack[i].unit /\ stack'[i].node = stack[i].node
          /\ stack'[Len(stack) + 1].op = "load" /\ Len(stack') = Len(stack) + 1
      BY <1>1, <3>1, EnterFrames
    <3>3. Len(stack) \in Nat /\ Depth = 1 .. Len(stack)
      BY StackFacts
    <3>4. \A i \in Depth' : i \in Depth \/ i = Len(stack) + 1
      BY <3>2, <3>3
    <3>5. \A i \in Depth : i < Len(stack) => i + 1 \in Depth /\ i < Len(stack')
      BY <3>2, <3>3
    <3>6. \A i \in Depth' : stack'[i].op \in Walk =>
            /\ i \in Depth /\ stack'[i].op = stack[i].op
            /\ stack'[i].unit = stack[i].unit /\ stack'[i].node = stack[i].node
            /\ i < Len(stack) /\ stack[i + 1].op \in Walk => i < Len(stack') /\ stack'[i + 1].op \in Walk
      BY <3>2, <3>4, <3>5 DEF Walk
    <3>7. InContext'
      BY <1>2, <3>1, <3>6, ContextStays
    <3> QED
      BY <1>2, <3>1, <3>7 DEF ContextTyped
  <2> QED
    BY <2>1, <2>2, <2>3
<1>11. /\ Depth \subseteq Depth' /\ \A i \in Depth' : i \in Depth \/ i = Len(stack) + 1
       /\ \A i \in Depth : /\ stack'[i].op = stack[i].op /\ stack'[i].node = stack[i].node
                           /\ i # Len(stack) => stack'[i] = stack[i]
  <2>1. Len(stack) \in Nat /\ Depth = 1 .. Len(stack)
    BY StackFacts
  <2>2. CASE stack' = At(n)
    BY <1>1, <2>2, AtFrames
  <2>3. CASE stack' = Enter("resolve", n)
    <3>1. Depth' = 1 .. Len(stack) + 1 /\ Depth \subseteq Depth'
          /\ \A i \in Depth : /\ stack'[i].op = stack[i].op /\ stack'[i].node = stack[i].node
                              /\ i # Len(stack) => stack'[i] = stack[i]
      BY <1>1, <2>3, EnterFrames
    <3> QED
      BY <2>1, <3>1
  <2>4. CASE stack' = Enter("load", n)
    <3>1. Depth' = 1 .. Len(stack) + 1 /\ Depth \subseteq Depth'
          /\ \A i \in Depth : /\ stack'[i].op = stack[i].op /\ stack'[i].node = stack[i].node
                              /\ i # Len(stack) => stack'[i] = stack[i]
      BY <1>1, <2>4, EnterFrames
    <3> QED
      BY <2>1, <3>1
  <2> QED
    BY <1>1, <1>3, <2>2, <2>3, <2>4
<1>12. Avoided'
  <2>1. ASSUME NEW i \in Depth', stack'[i].op \in Walk
        PROVE  \/ \E j \in Depth : stack[j].op = stack'[i].op /\ stack[j].node = stack'[i].node
               \/ \A a \in reported' : stack'[i].node \in Subtree(a) => stack'[i].op = "resolve" /\ Kind(a) \in Passable
    <3>1. CASE i \in Depth
      BY <1>11, <3>1
    <3>2. CASE i = Len(stack) + 1 /\ ResolveEnters(n)
      <4>1. stack' = Enter("resolve", n) /\ (Kind(n) \in Opening \cup Leaf /\ symbolOf[n] = 0 => Kind(n) \in Passable)
        BY <3>2 DEF ResolveEnters
      <4>2. stack'[i].op = "resolve" /\ stack'[i].node = n
        BY <1>1, <3>2, <4>1, EnterFrames
      <4>3. ASSUME NEW a \in reported, n \in Subtree(a) PROVE Kind(a) \in Passable
        <5>1. CASE a = n
          BY <1>2, <4>1, <5>1 DEF Tables, Accounted
        <5>2. CASE a # n
          BY <1>1, <1>2, <4>3, <5>2, AboveComing
        <5> QED
          BY <5>1, <5>2
      <4> QED
        BY <4>2, <4>3
    <3>3. CASE i = Len(stack) + 1 /\ stack' = At(n)
      BY <1>1, <3>3, AtFrames, StackFacts
    <3>4. CASE i = Len(stack) + 1 /\ ResolveLoads(n)
      <4>1. stack'[i].op = "load"
        BY <1>1, <3>4, EnterFrames DEF ResolveLoads
      <4> QED
        BY <2>1, <4>1 DEF Walk
    <3> QED
      BY <1>11, <3>1, <3>2, <3>3, <3>4
  <2> QED
    BY <1>2, <2>1, AvoidedStays
<1>13. Settled'
  <2>1. TouchedStays
    BY <1>4 DEF TouchedStays, Untouched
  <2>2. \A f \in File : Reaches(f, 1)' => Reaches(f, 1)
    <3>1. \A op \in {"resolve", "load"} : Call(op, Top.unit, n) \in Frame /\ Call(op, Top.unit, n).op = op
      BY <1>1, TopFacts, CallIsFrame
    <3>2. \/ stack' = At(n)
          \/ \E c \in Frame : stack' = Append(At(n), c) /\ (c.op = "compile" => c.at = 0)
      <4>1. CASE stack' = At(n)
        BY <4>1
      <4>2. CASE stack' = Enter("resolve", n)
        BY <3>1, <4>2 DEF Enter
      <4>3. CASE stack' = Enter("load", n)
        BY <3>1, <4>3 DEF Enter
      <4> QED
        BY <1>1, <1>3, <4>1, <4>2, <4>3
    <3>3. \A f, s : s \in {1, 2} => (Reaches(f, s)' <=> Reaches(f, s))
      BY <1>1, <3>2, ReachesStays
    <3> QED
      BY <3>3
  <2>3. \A i \in Depth : stack[i].op = "collect" => i \in Depth' /\ stack'[i] = stack[i]
    BY <1>1, <1>11 DEF Top
  <2> QED
    BY <1>2, <2>1, <2>2, <2>3, SettledStays
<1> QED
  BY <1>6, <1>7, <1>8, <1>10, <1>12, <1>13 DEF WalksOK

LEMMA ResolveEnteredOK ==
  ASSUME Control, WalksOK, ResolveEntered
  PROVE  WalksOK'
<1>0. Resolving
  BY DEF ResolveEntered
<1>n. PICK n \in Node : n = Resolvee
  BY <1>0, ResolveeFacts
<1>1. /\ Kind(n) \in Entered /\ context' = Push(scopeOf[n]) /\ stack' = Enter("resolve", n)
      /\ UNCHANGED <<tree, tables, compiled, outcome>>
  BY <1>n DEF ResolveEntered
<1>2. UNCHANGED <<modules, scopes, symbols, symbolOf, scopeOf, reported>>
  BY <1>1 DEF tables
<1>3. Kind(n) \in HomeKinds /\ (Kind(n) \in Opening \cup Leaf => Kind(n) \in Passable)
  BY <1>1 DEF Entered, HomeKinds, Opening, Leaf, Passable
<1>4. ResolveEnters(n)
  BY <1>1, <1>3 DEF ResolveEnters
<1> QED
  BY <1>0, <1>n, <1>1, <1>2, <1>4, ResolveMoves

LEMMA ResolveUseOK ==
  ASSUME Control, WalksOK, ResolveUse
  PROVE  WalksOK'
<1>0. Resolving
  BY DEF ResolveUse
<1>n. PICK n \in Node : n = Resolvee
  BY <1>0, ResolveeFacts
<1>1. /\ Kind(n) \in Use
      /\ symbolOf' = IF Meaning(n) = 0 THEN symbolOf ELSE [symbolOf EXCEPT ![n] = Meaning(n)]
      /\ stack' = IF Kind(n) = "generic type" THEN Enter("resolve", n) ELSE At(n)
      /\ UNCHANGED <<tree, modules, scopes, symbols, scopeOf, reported, context, compiled, outcome>>
  BY <1>n DEF ResolveUse
<1>2. Kind(n) \notin HomeKinds /\ Kind(n) \notin Opening \cup Leaf
  BY <1>1 DEF HomeKinds, Opening, Leaf, Use
<1>3. (stack' = At(n) /\ context' = context) \/ ResolveEnters(n)
  BY <1>1, <1>2 DEF ResolveEnters
<1>4. symbolOf' = symbolOf \/ (Meaning(n) # 0 /\ symbolOf' = [symbolOf EXCEPT ![n] = Meaning(n)])
  BY <1>1
<1> QED
  BY <1>0, <1>n, <1>1, <1>3, <1>4, ResolveMoves

LEMMA ResolveImportOK ==
  ASSUME Control, WalksOK, ResolveImport
  PROVE  WalksOK'
<1>0. Resolving
  BY DEF ResolveImport
<1>n. PICK n \in Node : n = Resolvee
  BY <1>0, ResolveeFacts
<1>1. ResolveLoads(n) /\ UNCHANGED <<tree, tables, compiled, outcome>>
  BY <1>n DEF ResolveImport, ResolveLoads
<1>2. UNCHANGED <<modules, scopes, symbols, symbolOf, scopeOf, reported>>
  BY <1>1 DEF tables
<1> QED
  BY <1>0, <1>n, <1>1, <1>2, ResolveMoves

LEMMA ResolveOtherOK ==
  ASSUME Control, WalksOK, ResolveOther
  PROVE  WalksOK'
<1>0. Resolving
  BY DEF ResolveOther
<1>n. PICK n \in Node : n = Resolvee
  BY <1>0, ResolveeFacts
<1>1. /\ Kind(n) \notin Entered \cup Use \cup {"import"}
      /\ stack' = IF Resolved(n) = {} THEN At(n) ELSE Enter("resolve", n)
      /\ UNCHANGED <<tree, tables, context, compiled, outcome>>
  BY <1>n DEF ResolveOther
<1>2. UNCHANGED <<modules, scopes, symbols, symbolOf, scopeOf, reported>>
  BY <1>1 DEF tables
<1>3. ASSUME Resolved(n) # {}
      PROVE  Kind(n) \notin HomeKinds /\ (Kind(n) \in Opening \cup Leaf /\ symbolOf[n] = 0 => Kind(n) \in Passable)
  <2>1. Kind(n) \notin {"type", "capability", "impl"}
    BY <1>3 DEF Resolved, Skipped, NeedsSymbol
  <2>2. Kind(n) \in {"generic", "pattern"} => symbolOf[n] # 0
    BY <1>3 DEF Resolved, Skipped, NeedsSymbol
  <2> QED
    BY <1>1, <2>1, <2>2 DEF HomeKinds, Opening, Leaf, Passable, Entered
<1>4. (stack' = At(n) /\ context' = context) \/ ResolveEnters(n)
  BY <1>1, <1>3 DEF ResolveEnters
<1> QED
  BY <1>0, <1>n, <1>1, <1>2, <1>4, ResolveMoves

LEMMA LoadOK ==
  ASSUME Control, WalksOK, LoadCompiled \/ LoadProvider \/ LoadCyclic \/ LoadReturn
  PROVE  WalksOK'
<1>a. PICK N \in Nat : N = Len(stack)
  BY StackFacts
<1>1. /\ stack # << >> /\ Top.op = "load" /\ UNCHANGED <<tree, tables, context, compiled>>
  BY DEF LoadCompiled, LoadProvider, LoadCyclic, LoadReturn, Loading, In
<1>2. /\ N \in Depth /\ Depth = 1 .. N /\ Top = stack[N] /\ Top \in Frame /\ Top.op # "compile"
      /\ Depth' = 1 .. Len(stack')
  BY <1>a, <1>1, TopFacts, StackFacts DEF Depth
<1>3. CASE stack' = stack
  <2>1. \A f, s : Reaches(f, s)' <=> Reaches(f, s)
    BY <1>1, <1>3 DEF Reaches, Depth
  <2> QED
    BY <1>1, <1>3, <2>1, OtherMoves DEF Depth
<1>4. CASE stack' = Below
  <2>1. Len(stack') = N - 1 /\ \A i \in 1 .. N - 1 : stack'[i] = stack[i]
    <3>1. Len(Below) = N - 1 /\ \A i \in 1 .. N - 1 : Below[i] = stack[i]
      BY <1>a, <1>1, BelowStack
    <3> QED
      BY <1>4, <3>1
  <2>2. \A f, s : s \in {1, 2} => (Reaches(f, s)' <=> Reaches(f, s))
    <3>1. 0 \in Nat
      OBVIOUS
    <3> QED
      BY <1>1, <1>2, <1>4, <3>1, ReachesStays
  <2>3. \A i \in Depth : i # N => i \in 1 .. N - 1
    BY <1>2
  <2>4. \A i \in Depth : stack[i].op = "collect" => i \in Depth' /\ stack'[i] = stack[i]
    BY <1>1, <1>2, <2>1, <2>3
  <2>5. \A i \in Depth' : /\ i \in Depth /\ stack'[i] = stack[i]
                          /\ i < N /\ stack[i + 1].op \in Walk => i < Len(stack') /\ stack'[i + 1].op \in Walk
    <3> TAKE i \in Depth'
    <3>1. i \in 1 .. N - 1
      BY <1>2, <2>1
    <3>2. i + 1 = N => stack[i + 1].op \notin Walk
      BY <1>1, <1>2 DEF Walk
    <3>3. i + 1 # N => i + 1 \in 1 .. N - 1
      BY <3>1
    <3> QED
      BY <1>2, <2>1, <3>1, <3>2, <3>3
  <2> QED
    BY <1>a, <1>1, <2>2, <2>4, <2>5, OtherMoves
<1>5. ASSUME NEW k \in Nat,
             stack' = At(k) \/ \E c \in Frame : stack' = Append(At(k), c) /\ c.op = "compile" /\ c.at = 0
      PROVE  WalksOK'
  <2>1. /\ N <= Len(stack') /\ stack'[N].op = "load"
        /\ \A i \in 1 .. N - 1 : stack'[i] = stack[i]
        /\ \A i \in Depth' : i \in 1 .. N \/ stack'[i].op = "compile"
    <3>0. AtPlace(Top, k).op = "load"
      BY <1>1, <1>2, PlacedFrame
    <3>1. CASE stack' = At(k)
      <4>1. Len(At(k)) = N /\ At(k)[N] = AtPlace(Top, k) /\ \A i \in 1 .. N - 1 : At(k)[i] = stack[i]
        BY <1>a, <1>1, AtStack
      <4> QED
        BY <1>2, <3>0, <3>1, <4>1
    <3>2. ASSUME NEW c \in Frame, stack' = Append(At(k), c), c.op = "compile"
          PROVE  /\ Len(stack') = N + 1 /\ stack'[N].op = "load" /\ stack'[N + 1].op = "compile"
                 /\ \A i \in 1 .. N - 1 : stack'[i] = stack[i]
      <4>1. /\ Len(Append(At(k), c)) = N + 1 /\ Append(At(k), c)[N] = AtPlace(Top, k)
            /\ Append(At(k), c)[N + 1] = c /\ \A i \in 1 .. N - 1 : Append(At(k), c)[i] = stack[i]
        BY <1>a, <1>1, EnterStack
      <4> QED
        BY <3>0, <3>2, <4>1
    <3> QED
      BY <1>2, <1>5, <3>1, <3>2
  <2>2. \A f, s : s \in {1, 2} => (Reaches(f, s)' <=> Reaches(f, s))
    BY <1>1, <1>2, <1>5, ReachesStays
  <2>3. \A i \in Depth : i # N => i \in 1 .. N - 1
    BY <1>2
  <2>4. \A i \in Depth : stack[i].op = "collect" => i \in Depth' /\ stack'[i] = stack[i]
    BY <1>1, <1>2, <2>1, <2>3
  <2>5. \A i \in Depth' : stack'[i].op \in Walk =>
          /\ i \in Depth /\ stack'[i] = stack[i]
          /\ i < N /\ stack[i + 1].op \in Walk => i < Len(stack') /\ stack'[i + 1].op \in Walk
    <3> TAKE i \in Depth'
    <3> HAVE stack'[i].op \in Walk
    <3>1. i \in 1 .. N - 1
      BY <2>1 DEF Walk
    <3>2. i + 1 = N => stack[i + 1].op \notin Walk
      BY <1>1, <1>2 DEF Walk
    <3>3. i + 1 # N => i + 1 \in 1 .. N - 1
      BY <3>1
    <3> QED
      BY <1>2, <2>1, <3>1, <3>2, <3>3
  <2> QED
    BY <1>a, <1>1, <2>2, <2>4, <2>5, OtherMoves
<1>6. CASE LoadCompiled
  <2>1. NextListed \in Nat /\ stack' = At(NextListed)
    BY <1>6, ProviderFacts DEF LoadCompiled
  <2> QED
    BY <1>5, <2>1
<1>7. CASE LoadProvider
  <2>1. /\ NextListed \in Nat /\ stack' = Append(At(NextListed), Call("compile", Provider, Root(Provider)))
        /\ Provider \in File
    BY <1>7, ProviderFacts DEF LoadProvider
  <2>2. Root(Provider) \in Nat
    BY <2>1, RootFacts, TreeFacts DEF Control
  <2>3. PICK c \in Frame : c = Call("compile", Provider, Root(Provider)) /\ c.op = "compile" /\ c.at = 0
    BY <2>1, <2>2, CallIsFrame
  <2> QED
    BY <1>5, <2>1, <2>3
<1>8. LoadCyclic => stack' = stack
  BY DEF LoadCyclic
<1>9. LoadReturn => stack' = Below
  BY DEF LoadReturn
<1> QED
  BY <1>3, <1>4, <1>6, <1>7, <1>8, <1>9

LEMMA CompileOK ==
  ASSUME Control, WalksOK, Compile
  PROVE  WalksOK'
<1>1. ContextTyped /\ Pending /\ InContext /\ Tables /\ Avoided /\ RedeclaredStaysDark /\ Settled
  BY DEF WalksOK
<1>2. UNCHANGED <<tree, tables>> /\ UNCHANGED <<modules, scopes, symbols, symbolOf, scopeOf, reported>>
  BY CompileMoves DEF tables
<1>3. Pending' /\ ContextTyped' /\ InContext' /\ Settled'
  BY <1>1, PendingAfterCompile, ContextAfterCompile, SettledAfterCompile
<1>4. Tables'
  BY <1>1, <1>2, SameTables
<1>5. RedeclaredStaysDark'
  BY <1>1, <1>2, DarkStays
<1>6. Avoided'
  <2>a. PICK N \in Nat : N = Len(stack)
    BY StackFacts
  <2>b. PICK r \in Node : r = Root(Top.unit) /\ Kind(r) = "root"
    BY CompileMoves, TopFacts, RootFacts DEF Control
  <2>1. /\ Depth = 1 .. N /\ Top.at \in {0, 1, 2} /\ InTree
        /\ \A i \in 1 .. N - 1 : stack'[i] = stack[i]
        /\ Top.at # 2 => Depth' = 1 .. N + 1 /\ stack'[N].op = "compile" /\ stack'[N + 1].node = r
        /\ Top.at = 2 => Depth' = 1 .. N - 1
    BY <2>a, <2>b, CompileMoves, StackFacts DEF Control
  <2>2. \A a \in reported : r \notin Subtree(a)
    <3> TAKE a \in reported
    <3>1. a \in Node /\ Kind(a) \in Opening \cup Leaf
      BY <1>1 DEF Tables, TablesTyped, Accounted
    <3>2. a # r /\ Ancestors(r) = {}
      BY <2>b, <2>1, <3>1, NothingAboveRoot DEF Opening, Leaf
    <3> QED
      BY <2>1, <3>1, <3>2, AncestorFacts
  <2>3. \A i \in Depth' : i \in 1 .. N - 1 \/ (Top.at # 2 /\ i \in {N, N + 1})
    BY <2>1
  <2>4. ASSUME NEW i \in Depth', stack'[i].op \in Walk
        PROVE  \/ \E j \in Depth : stack[j].op = stack'[i].op /\ stack[j].node = stack'[i].node
               \/ \A a \in reported' : stack'[i].node \in Subtree(a) => stack'[i].op = "resolve" /\ Kind(a) \in Passable
    <3>1. CASE i \in 1 .. N - 1
      BY <2>1, <3>1
    <3>2. CASE Top.at # 2 /\ i \in {N, N + 1}
      BY <1>2, <2>1, <2>2, <2>4, <3>2 DEF Walk
    <3> QED
      BY <2>3, <3>1, <3>2
  <2> QED
    BY <1>1, <1>2, <2>4, AvoidedStays
<1> QED
  BY <1>1, <1>3, <1>4, <1>5, <1>6 DEF WalksOK
-----------------------------------------------------------------------------
(* The invariant is inductive.                                             *)
BuiltinTable == [x \in Name |-> IF x \in Elements(BuiltinName)
                               THEN CHOOSE i \in DOMAIN BuiltinName : BuiltinName[i] = x
                               ELSE 0]
LEMMA BuiltinEntries ==
  /\ BuiltinTable \in [Name -> Nat]
  /\ \A x \in Name : \A i \in {BuiltinTable[x]} \ {0} : i \in DOMAIN BuiltinName /\ BuiltinName[i] = x
  /\ \A i \in DOMAIN BuiltinName : BuiltinName[i] \in Name /\ BuiltinTable[BuiltinName[i]] = i
<1>1. /\ BuiltinName \in Seq(Name) /\ Len(BuiltinName) \in Nat /\ DOMAIN BuiltinName = 1 .. Len(BuiltinName)
      /\ \A i, j \in DOMAIN BuiltinName : BuiltinName[i] = BuiltinName[j] => i = j
  BY NamesAssumption, LenProperties
<1>2. ASSUME NEW x \in Name
      PROVE  /\ BuiltinTable[x] \in Nat
             /\ BuiltinTable[x] # 0 => BuiltinTable[x] \in DOMAIN BuiltinName /\ BuiltinName[BuiltinTable[x]] = x
  <2>1. CASE x \in Elements(BuiltinName)
    <3>1. BuiltinTable[x] = CHOOSE i \in DOMAIN BuiltinName : BuiltinName[i] = x
      BY <2>1 DEF BuiltinTable
    <3>2. \E i \in DOMAIN BuiltinName : BuiltinName[i] = x
      BY <2>1 DEF Elements
    <3>3. BuiltinTable[x] \in DOMAIN BuiltinName /\ BuiltinName[BuiltinTable[x]] = x
      BY <3>1, <3>2
    <3> QED
      BY <1>1, <3>3
  <2>2. CASE x \notin Elements(BuiltinName)
    BY <2>2 DEF BuiltinTable
  <2> QED
    BY <2>1, <2>2
<1>3. ASSUME NEW i \in DOMAIN BuiltinName
      PROVE  BuiltinName[i] \in Name /\ BuiltinTable[BuiltinName[i]] = i
  <2>1. BuiltinName[i] \in Name
    BY <1>1, ElementOfSeq
  <2>2. BuiltinTable[BuiltinName[i]] = CHOOSE j \in DOMAIN BuiltinName : BuiltinName[j] = BuiltinName[i]
    BY <2>1 DEF BuiltinTable, Elements
  <2> QED
    BY <1>1, <2>1, <2>2
<1>4. BuiltinTable \in [Name -> Nat]
  <2>1. BuiltinTable = [x \in Name |-> BuiltinTable[x]]
    BY DEF BuiltinTable
  <2> QED
    BY <1>2, <2>1
<1> QED
  BY <1>2, <1>3, <1>4

LEMMA TablesInit ==
  ASSUME Init
  PROVE  Tables
<1>1. /\ tree \in Elements(Programs)
      /\ modules = [m \in Module |-> IF m = Builtin THEN 1 ELSE 0]
      /\ scopes = <<[parent |-> 0, table |-> BuiltinTable]>>
      /\ symbols = [i \in DOMAIN BuiltinName |-> [name |-> BuiltinName[i], node |-> 0]]
      /\ symbolOf = [n \in Node |-> 0] /\ scopeOf = [n \in Node |-> 0] /\ reported = {}
  BY DEF Init, BuiltinTable
<1>2. Builtin \in Module /\ BuiltinName \in Seq(Name) /\ DOMAIN BuiltinName = 1 .. Len(BuiltinName)
      /\ Len(BuiltinName) \in Nat
  BY NamesAssumption, LenProperties
<1>3. InTree
  BY <1>1 DEF InTree
<1>4. scopes \in Seq(Scope) /\ Len(scopes) = 1 /\ DOMAIN scopes = {1}
      /\ scopes[1].parent = 0 /\ scopes[1].table = BuiltinTable
  BY <1>1, BuiltinEntries DEF Scope
<1>5. symbols \in Seq(Symbol) /\ Len(symbols) = Len(BuiltinName) /\ DOMAIN symbols = DOMAIN BuiltinName
      /\ \A i \in DOMAIN symbols : symbols[i].name = BuiltinName[i] /\ symbols[i].node = 0
  <2>1. \A i \in DOMAIN BuiltinName : [name |-> BuiltinName[i], node |-> 0] \in Symbol
    BY BuiltinEntries DEF Symbol
  <2>2. symbols \in [1 .. Len(BuiltinName) -> Symbol]
    BY <1>1, <1>2, <2>1
  <2>3. symbols \in Seq(Symbol) /\ Len(symbols) = Len(BuiltinName)
    BY <1>2, <2>2
  <2> QED
    BY <1>1, <1>2, <2>3
<1>6. TablesTyped
  BY <1>1, <1>2, <1>4, <1>5 DEF TablesTyped
<1>7. Scoped
  BY <1>1, <1>2, <1>4 DEF Scoped
<1>8. ScopesFollowTree
  BY <1>1 DEF ScopesFollowTree
<1>9. Entries
  <2>1. ASSUME NEW s \in DOMAIN scopes, NEW x \in Name, NEW i \in {scopes[s].table[x]} \ {0}
        PROVE  i \in DOMAIN symbols /\ symbols[i].name = x /\ ScopeOfSymbol(i) = s
    <3>1. s = 1 /\ i \in {BuiltinTable[x]} \ {0}
      BY <1>4, <2>1
    <3> QED
      BY <1>5, <3>1, BuiltinEntries DEF ScopeOfSymbol
  <2>2. ASSUME NEW i \in DOMAIN symbols
        PROVE  /\ ScopeOfSymbol(i) \in DOMAIN scopes
               /\ scopes[ScopeOfSymbol(i)].table[symbols[i].name] = i
               /\ symbols[i].node = 0
    BY <1>4, <1>5, BuiltinEntries DEF ScopeOfSymbol
  <2>3. \A n \in Node : symbolOf[n] = 0 /\ scopeOf[n] = 0
    BY <1>1
  <2> QED
    BY <2>1, <2>2, <2>3 DEF Entries
<1>10. Accounted
  BY <1>1 DEF Accounted
<1> QED
  BY <1>3, <1>6, <1>7, <1>8, <1>9, <1>10 DEF Tables

LEMMA InductiveInit == Init => Inductive
<1> SUFFICES ASSUME Init PROVE Inductive
  OBVIOUS
<1>1. Control /\ Tables
  BY ControlInit, TablesInit
<1>2. /\ symbolOf = [n \in Node |-> 0] /\ scopeOf = [n \in Node |-> 0] /\ reported = {}
      /\ context = [f \in File |-> Fresh] /\ compiled = {}
      /\ stack = <<[op |-> "compile", unit |-> Main, node |-> Root(Main), at |-> 0]>>
  BY DEF Init
<1>3. Depth = {1} /\ stack[1].op = "compile" /\ stack[1].at = 0
  BY <1>2 DEF Depth
<1>4. \A f : ~Reaches(f, 1) /\ ~Reaches(f, 2)
  <2>1. \A i \in Depth : ~(stack[i].at >= 1) /\ ~(stack[i].at >= 2)
    BY <1>3
  <2>2. \A f : f \notin compiled
    BY <1>2
  <2> QED
    BY <2>1, <2>2 DEF Reaches
<1>5. ContextTyped
  BY <1>2 DEF ContextTyped, Context, Fresh
<1>6. Pending
  <2>1. \A f \in File : \A n \in Subtree(Root(f)) : n \in Node
    BY <1>1, FileTypes
  <2>2. \A n \in Node : Untouched(n) /\ Unbound(n)
    BY <1>2 DEF Untouched, Unbound
  <2>3. \A i \in Depth : stack[i].op \notin {"collect", "resolve"}
    BY <1>3
  <2> QED
    BY <2>1, <2>2, <2>3 DEF Pending
<1>7. InContext
  BY <1>3 DEF InContext, Innermost, Walk
<1>8. Avoided /\ RedeclaredStaysDark
  BY <1>2 DEF Avoided, RedeclaredStaysDark
<1>9. Settled
  BY <1>4 DEF Settled
<1> QED
  BY <1>1, <1>5, <1>6, <1>7, <1>8, <1>9, InductiveParts DEF WalksOK

LEMMA InductiveStep == Inductive /\ [Next]_vars => Inductive'
<1> SUFFICES ASSUME Inductive, [Next]_vars PROVE Inductive'
  OBVIOUS
<1>1. Control /\ WalksOK
  BY InductiveParts
<1>2. Control'
  BY <1>1, ControlStep
<1>3. WalksOK'
  <2>1. CASE Compile
    BY <1>1, <2>1, CompileOK
  <2>2. CASE CollectOpening \/ CollectLeaf \/ CollectRedeclared
    BY <1>1, <2>2, CollectOpeningOK, CollectLeafOK, CollectRedeclaredOK
  <2>3. CASE CollectImpl \/ CollectModule \/ CollectInit \/ CollectOther
    BY <1>1, <2>3, CollectImplOK, CollectModuleOK, CollectInitOK, CollectOtherOK
  <2>4. CASE CollectReturn \/ ResolveReturn
    BY <1>1, <2>4, CollectReturnOK, ResolveReturnOK
  <2>5. CASE ResolveEntered \/ ResolveUse \/ ResolveImport \/ ResolveOther
    BY <1>1, <2>5, ResolveEnteredOK, ResolveUseOK, ResolveImportOK, ResolveOtherOK
  <2>6. CASE LoadCompiled \/ LoadProvider \/ LoadCyclic \/ LoadReturn
    BY <1>1, <2>6, LoadOK
  <2>7. CASE UNCHANGED vars
    <3>1. stack' = stack /\ UNCHANGED <<tree, tables, context, compiled>>
      BY <2>7 DEF vars
    <3>2. \A f, s : Reaches(f, s)' <=> Reaches(f, s)
      BY <3>1 DEF Reaches, Depth
    <3> QED
      BY <1>1, <3>1, <3>2, OtherMoves DEF Depth
  <2> QED
    BY <2>1, <2>2, <2>3, <2>4, <2>5, <2>6, <2>7 DEF Next, Step, Ended
<1>4. (Inductive <=> Control /\ WalksOK)'
  BY InductiveParts, PTL
<1> QED
  BY <1>2, <1>3, <1>4

(* The invariant holds at every step of the two walks, for any files,      *)
(* modules, names and trees: calls, contexts, scopes, tables and what is   *)
(* still to come are in step with one another (Inductive).                 *)
THEOREM InvariantHolds == Spec => []Inductive
<1>1. Init => Inductive
  BY InductiveInit
<1>2. Inductive /\ [Next]_vars => Inductive'
  BY InductiveStep
<1> QED
  BY <1>1, <1>2, PTL DEF Spec
-----------------------------------------------------------------------------
(* What follows from the invariant.                                        *)

(* The scope of a declaration stands for its home.                         *)
LEMMA ModuleCanon ==
  ASSUME InTree, NEW h \in Node, Kind(h) = "module"
  PROVE  /\ NameOf(h) = Builtin => Canon(h) = 0
         /\ NameOf(h) # Builtin => /\ Canon(h) \in Node /\ Canon(h) # 0
                                   /\ Kind(Canon(h)) = "module" /\ NameOf(Canon(h)) = NameOf(h)
<1>1. Node \subseteq Nat /\ 0 \notin Node
  BY TreeFacts
<1>2. NameOf(h) = Builtin => Canon(h) = 0
  BY DEF Canon
<1>3. ASSUME NameOf(h) # Builtin
      PROVE  /\ Canon(h) \in Node /\ Canon(h) # 0
             /\ Kind(Canon(h)) = "module" /\ NameOf(Canon(h)) = NameOf(h)
  <2> DEFINE S == {m \in Node : Kind(m) = "module" /\ NameOf(m) = NameOf(h)}
  <2>1. S \in SUBSET Nat /\ S # {}
    BY <1>1
  <2>2. Least(S) \in S
    BY <2>1, LeastMember
  <2>3. Canon(h) = Least(S)
    BY <1>3 DEF Canon
  <2> QED
    BY <1>1, <2>2, <2>3
<1> QED
  BY <1>2, <1>3

LEMMA HomesByScope ==
  ASSUME Tables, NEW g \in Node, Kind(g) \in HomeKinds, scopeOf[g] # 0
  PROVE  /\ Canon(g) = 0 <=> scopeOf[g] = 1
         /\ \A h \in Node : Kind(h) \in HomeKinds /\ scopeOf[h] # 0 =>
              (Canon(g) = Canon(h) <=> scopeOf[g] = scopeOf[h])
<1>1. /\ InTree /\ 0 \notin Node /\ "init" \notin HomeKinds /\ Builtin \in Module /\ modules[Builtin] = 1
      /\ \A l, m \in Module : modules[l] # 0 /\ modules[l] = modules[m] => l = m
  BY TreeFacts, NamesAssumption DEF Tables, Scoped, HomeKinds, Opening
<1>2. \A n \in Node : Kind(n) = "module" => NameOf(n) \in Module
  <2>1. IsParsed(tree) /\ Node = DOMAIN tree
    BY <1>1, TreeFacts DEF Node
  <2> QED
    BY <2>1 DEF IsParsed, Kind, NameOf
<1>3. \A n \in Node : Kind(n) = "module" /\ scopeOf[n] # 0 => scopeOf[n] = modules[NameOf(n)]
  BY DEF Tables, ScopesFollowTree
<1>4. \A n \in Node : Kind(n) \in HomeKinds \ {"module"} /\ scopeOf[n] # 0 =>
        Canon(n) = n /\ \A m \in Module : modules[m] # scopeOf[n]
  BY DEF Tables, Scoped, Canon
<1>5. Canon(g) = 0 <=> scopeOf[g] = 1
  <2>1. CASE Kind(g) = "module"
    BY <1>1, <1>2, <1>3, <2>1, ModuleCanon
  <2>2. CASE Kind(g) # "module"
    BY <1>1, <1>4, <2>2
  <2> QED
    BY <2>1, <2>2
<1>6. ASSUME NEW h \in Node, Kind(h) \in HomeKinds, scopeOf[h] # 0, Canon(g) = Canon(h)
      PROVE  scopeOf[g] = scopeOf[h]
  <2>1. CASE Kind(g) # "module" /\ Kind(h) # "module"
    BY <1>4, <1>6, <2>1
  <2>2. CASE Kind(g) = "module" /\ Kind(h) = "module"
    BY <1>1, <1>3, <1>6, <2>2, ModuleCanon
  <2>3. CASE Kind(g) # "module" /\ Kind(h) = "module"
    BY <1>1, <1>4, <1>6, <2>3, ModuleCanon
  <2>4. CASE Kind(g) = "module" /\ Kind(h) # "module"
    BY <1>1, <1>4, <1>6, <2>4, ModuleCanon
  <2> QED
    BY <2>1, <2>2, <2>3, <2>4
<1>7. ASSUME NEW h \in Node, Kind(h) \in HomeKinds, scopeOf[h] # 0, scopeOf[g] = scopeOf[h]
      PROVE  Canon(g) = Canon(h)
  BY <1>1, <1>7 DEF Tables, ScopesFollowTree
<1> QED
  BY <1>5, <1>6, <1>7

(* The home of a symbol is that of its scope, and a table holds the symbols *)
(* of a home.                                                              *)
LEMMA SymbolHome ==
  ASSUME Tables, NEW i \in DOMAIN symbols
  PROVE  /\ HomeOfSymbol(i) = 0 <=> ScopeOfSymbol(i) = 1
         /\ \A h \in Node : Kind(h) \in HomeKinds /\ scopeOf[h] # 0 =>
              (HomeOfSymbol(i) = Canon(h) <=> ScopeOfSymbol(i) = scopeOf[h])
<1>1. InTree /\ ScopeOfSymbol(i) \in DOMAIN scopes /\ 0 \notin DOMAIN scopes
  BY TableFacts DEF Tables, Entries
<1>2. CASE symbols[i].node = 0
  <2>1. HomeOfSymbol(i) = 0 /\ ScopeOfSymbol(i) = 1
    BY <1>2 DEF HomeOfSymbol, ScopeOfSymbol
  <2>2. ASSUME NEW h \in Node, Kind(h) \in HomeKinds, scopeOf[h] # 0
        PROVE  Canon(h) = 0 <=> scopeOf[h] = 1
    BY <2>2, HomesByScope
  <2> QED
    BY <2>1, <2>2
<1>3. CASE symbols[i].node # 0
  <2>1. PICK n \in Node : n = symbols[i].node /\ Homes(n) # {}
    BY <1>3 DEF Tables, Entries
  <2>2. PICK g \in Node : g = Greatest(Homes(n)) /\ Kind(g) \in HomeKinds
    BY <1>1, <2>1, GreatestHome
  <2>3. HomeOfSymbol(i) = Canon(g) /\ ScopeOfSymbol(i) = scopeOf[g]
    BY <1>3, <2>1, <2>2 DEF HomeOfSymbol, ScopeOfSymbol, HomeOf, HomeScope
  <2>4. scopeOf[g] # 0
    BY <1>1, <2>3
  <2> QED
    BY <2>2, <2>3, <2>4, HomesByScope
<1> QED
  BY <1>2, <1>3

LEMMA TableOfHome ==
  ASSUME Tables, NEW x \in Name
  PROVE  /\ scopes[1].table[x] # 0 => scopes[1].table[x] \in Within(0, x)
         /\ \A h \in Node : Kind(h) \in HomeKinds /\ scopeOf[h] # 0 =>
              LET i == scopes[scopeOf[h]].table[x]
              IN  /\ i # 0 => i \in Within(Canon(h), x)
                  /\ i = 0 => Within(Canon(h), x) = {}
<1>1. /\ 1 \in DOMAIN scopes /\ DOMAIN scopes = 1 .. Len(scopes) /\ Len(scopes) \in Nat
      /\ \A h \in Node : scopeOf[h] \in 0 .. Len(scopes)
      /\ \A i \in DOMAIN symbols : i # 0
  BY TableFacts
<1>2. \A s \in DOMAIN scopes : \A i \in {scopes[s].table[x]} \ {0} :
        i \in DOMAIN symbols /\ symbols[i].name = x /\ ScopeOfSymbol(i) = s
  BY DEF Tables, Entries
<1>3. \A i \in DOMAIN symbols : scopes[ScopeOfSymbol(i)].table[symbols[i].name] = i
  BY DEF Tables, Entries
<1>4. ASSUME scopes[1].table[x] # 0 PROVE scopes[1].table[x] \in Within(0, x)
  BY <1>1, <1>2, <1>4, SymbolHome DEF Within
<1>5. ASSUME NEW h \in Node, Kind(h) \in HomeKinds, scopeOf[h] # 0
      PROVE  /\ scopes[scopeOf[h]].table[x] # 0 => scopes[scopeOf[h]].table[x] \in Within(Canon(h), x)
             /\ scopes[scopeOf[h]].table[x] = 0 => Within(Canon(h), x) = {}
  <2>1. scopeOf[h] \in DOMAIN scopes
    BY <1>1, <1>5
  <2>2. ASSUME NEW i, i = scopes[scopeOf[h]].table[x], i # 0 PROVE i \in Within(Canon(h), x)
    <3>1. i \in DOMAIN symbols /\ symbols[i].name = x /\ ScopeOfSymbol(i) = scopeOf[h]
      BY <1>2, <2>1, <2>2
    <3>2. HomeOfSymbol(i) = Canon(h)
      BY <1>5, <3>1, SymbolHome
    <3> QED
      BY <3>1, <3>2 DEF Within
  <2>3. ASSUME NEW j \in Within(Canon(h), x) PROVE scopes[scopeOf[h]].table[x] = j /\ j # 0
    <3>1. j \in DOMAIN symbols /\ symbols[j].name = x /\ HomeOfSymbol(j) = Canon(h)
      BY DEF Within
    <3>2. ScopeOfSymbol(j) = scopeOf[h]
      BY <1>5, <3>1, SymbolHome
    <3> QED
      BY <1>1, <1>3, <3>1, <3>2
  <2> QED
    BY <2>2, <2>3
<1> QED
  BY <1>4, <1>5

(* The tree of scopes is the tree of declarations (ScopesFollowTree).      *)
THEOREM ScopesAreDeclarations == Spec => []ScopesFollowTree
<1>1. Inductive => ScopesFollowTree
  BY DEF Inductive
<1> QED
  BY <1>1, InvariantHolds, PTL

(* Two symbols of one name in one home would be one entry of the table of  *)
(* its scope.                                                              *)
LEMMA HomesDiffer == Inductive => OneMeaning
<1> SUFFICES ASSUME Inductive, NEW i \in DOMAIN symbols, NEW j \in DOMAIN symbols,
                    i < j, symbols[i].name = symbols[j].name, HomeOfSymbol(i) = HomeOfSymbol(j)
             PROVE  FALSE
  BY DEF OneMeaning
<1>1. Tables
  BY InductiveParts DEF WalksOK
<1>2. /\ i \in Nat /\ j \in Nat
      /\ \A k \in DOMAIN symbols : scopes[ScopeOfSymbol(k)].table[symbols[k].name] = k
  BY <1>1, TableFacts DEF Tables, Entries
<1>3. ScopeOfSymbol(i) = ScopeOfSymbol(j)
  <2>1. CASE symbols[i].node = 0
    <3>1. HomeOfSymbol(i) = 0 /\ ScopeOfSymbol(i) = 1
      BY <2>1 DEF HomeOfSymbol, ScopeOfSymbol
    <3> QED
      BY <1>1, <3>1, SymbolHome
  <2>2. CASE symbols[i].node # 0
    <3>1. PICK n \in Node : n = symbols[i].node /\ Homes(n) # {}
      BY <1>1, <2>2 DEF Tables, Entries
    <3>2. PICK g \in Node : g = Greatest(Homes(n)) /\ Kind(g) \in HomeKinds
      BY <1>1, <3>1, GreatestHome DEF Tables
    <3>3. HomeOfSymbol(i) = Canon(g) /\ ScopeOfSymbol(i) = scopeOf[g]
      BY <2>2, <3>1, <3>2 DEF HomeOfSymbol, ScopeOfSymbol, HomeOf, HomeScope
    <3>4. scopeOf[g] # 0
      BY <1>1, <3>3, TableFacts DEF Tables, Entries
    <3>5. \A h \in Node : Kind(h) \in HomeKinds /\ scopeOf[h] # 0 =>
            (HomeOfSymbol(j) = Canon(h) <=> ScopeOfSymbol(j) = scopeOf[h])
      BY <1>1, SymbolHome
    <3> QED
      BY <3>2, <3>3, <3>4, <3>5
  <2> QED
    BY <2>1, <2>2
<1> QED
  BY <1>2, <1>3

(* A name means one thing in a home, also if the home is a module spread   *)
(* over files (OneMeaning).                                                *)
THEOREM NamesMeanOneThing == Spec => []OneMeaning
BY HomesDiffer, InvariantHolds, PTL

(* A declaration without a symbol is not yet collected or reported, and a  *)
(* reported one has lost its name to another.                              *)
LEMMA ClashesAreReported == Inductive => ClashesReported
<1> SUFFICES ASSUME Inductive, NEW n \in Node, Kind(n) \in Opening \cup Leaf
             PROVE  /\ symbolOf[n] = 0 /\ n \notin reported => ~(IsCollected(FileOf(n)) /\ Reached(n))
                    /\ n \in reported => symbolOf[n] = 0 /\ Within(HomeOf(n), NameOf(n)) # {}
  BY DEF ClashesReported
<1>1. Control /\ Tables /\ Settled /\ InTree
  BY InductiveParts DEF WalksOK, Control
<1>f. PICK f \in File : f = FileOf(n) /\ n \in Subtree(Root(f))
  BY <1>1, EachNodeHasFile
<1>2. ASSUME symbolOf[n] = 0, n \notin reported, IsCollected(f), Reached(n)
      PROVE  FALSE
  <2>1. f \in compiled \/ \E i \in Depth : stack[i].unit = f /\ stack[i].op = "resolve"
    BY <1>1, <1>2, StackFacts DEF IsCollected
  <2>2. Reaches(f, 1)
    <3>1. CASE f \in compiled
      BY <3>1 DEF Reaches
    <3>2. ASSUME NEW i \in Depth, stack[i].unit = f, stack[i].op = "resolve" PROVE Reaches(f, 1)
      BY <1>1, <3>2, StageOfCall
    <3> QED
      BY <2>1, <3>1, <3>2
  <2>3. Kind(n) \in HomeKinds \cup Leaf
    BY DEF HomeKinds
  <2>4. ~Untouched(n) \/ Ahead(n)
    BY <1>1, <1>2, <1>f, <2>2, <2>3 DEF Settled
  <2>5. CASE ~Untouched(n)
    <3>1. scopeOf[n] # 0
      BY <1>2, <2>5 DEF Untouched
    <3>2. Kind(n) \in Opening
      BY <1>1, <3>1 DEF Tables, Scoped, HomeKinds, Opening, Leaf
    <3> QED
      BY <1>1, <1>2, <3>1, <3>2 DEF Tables, Entries
  <2>6. CASE Ahead(n)
    <3>1. PICK i \in Depth : /\ stack[i].op = "collect"
                             /\ \E k \in Collected(stack[i].node) : k > stack[i].at /\ n \in Subtree(k)
      BY <2>6 DEF Ahead
    <3>2. stack[i].node \in Node /\ stack[i].node \in Subtree(Root(stack[i].unit)) /\ stack[i].unit \in File
      BY <1>1, StackFacts DEF FrameOK
    <3>3. PICK k \in Kids(stack[i].node) : n \in Subtree(k)
      BY <1>1, <3>1, <3>2, VisitedKids
    <3>4. n \in Subtree(Root(stack[i].unit))
      <4>1. k \in Subtree(stack[i].node) /\ Root(stack[i].unit) \in Node
        BY <1>1, <3>2, KidFacts, RootFacts
      <4>2. n \in Subtree(stack[i].node)
        BY <1>1, <3>2, <3>3, <4>1, SubtreeFacts
      <4> QED
        BY <1>1, <3>2, <4>1, <4>2, SubtreeFacts
    <3>5. stack[i].unit = f
      BY <1>1, <1>f, <3>2, <3>4, FilesApart
    <3>6. ~Reaches(f, 2) /\ f \notin compiled
      BY <1>1, <3>1, <3>5, StageOfCall
    <3>7. PICK j \in Depth : stack[j].unit = f /\ stack[j].op = "resolve"
      BY <2>1, <3>6
    <3>8. Reaches(f, 2)
      BY <1>1, <3>7, StageOfCall
    <3> QED
      BY <3>6, <3>8
  <2> QED
    BY <2>4, <2>5, <2>6
<1>3. ASSUME n \in reported
      PROVE  symbolOf[n] = 0 /\ Within(HomeOf(n), NameOf(n)) # {}
  <2>1. symbolOf[n] = 0 /\ Homes(n) # {} /\ HomeScope(n) # 0 /\ scopes[HomeScope(n)].table[NameOf(n)] # 0
    BY <1>1, <1>3 DEF Tables, Accounted
  <2>2. PICK g \in Node : g = Greatest(Homes(n)) /\ Kind(g) \in HomeKinds
    BY <1>1, <2>1, GreatestHome
  <2>3. NameOf(n) \in Name /\ scopeOf[g] # 0 /\ scopes[scopeOf[g]].table[NameOf(n)] # 0
    BY <1>1, <2>1, <2>2, UseFacts DEF HomeScope
  <2>4. scopes[scopeOf[g]].table[NameOf(n)] \in Within(Canon(g), NameOf(n))
    BY <1>1, <2>2, <2>3, TableOfHome
  <2> QED
    BY <2>1, <2>2, <2>4 DEF HomeOf
<1> QED
  BY <1>2, <1>3, <1>f

(* Each clash is reported, and what is below a reported declaration stays  *)
(* out of the tables (Redeclarations).                                     *)
THEOREM RedeclarationsAreReported == Spec => []Redeclarations
<1>1. Inductive => Redeclarations
  BY ClashesAreReported DEF Redeclarations, Inductive
<1> QED
  BY <1>1, InvariantHolds, PTL
-----------------------------------------------------------------------------
(* What a name is bound to.                                                *)

(* The candidates for x among the homes in S.                              *)
Declaring(S, x) == {a \in S : Within(Canon(a), x) # {}}
Found(S, x) ==
  IF Declaring(S, x) # {} THEN Within(Canon(Greatest(Declaring(S, x))), x) ELSE Within(0, x)

(* A home is a module outside all homes, or in a home of its own.          *)
LEMMA HomeOfHome ==
  ASSUME Tables, NEW h \in Node, Kind(h) \in HomeKinds, Kids(h) # {}, scopeOf[h] # 0
  PROVE  /\ Kind(h) = "module" => /\ Inside(h) = {h}
                                  /\ scopes[scopeOf[h]].parent = IF NameOf(h) = Builtin THEN 0 ELSE 1
         /\ Kind(h) # "module" => \E g \in Node :
              /\ g < h /\ Kind(g) \in HomeKinds /\ Kids(g) # {} /\ scopeOf[g] # 0
              /\ Inside(h) = Inside(g) \cup {h} /\ h \notin Inside(g)
              /\ \A a \in Inside(h) : a <= h
              /\ scopes[scopeOf[h]].parent = scopeOf[g]
<1>1. InTree
  BY DEF Tables
<1>2. ASSUME Kind(h) = "module"
      PROVE  Inside(h) = {h} /\ scopes[scopeOf[h]].parent = IF NameOf(h) = Builtin THEN 0 ELSE 1
  <2>1. Homes(h) = {}
    BY <1>1, <1>2, ModuleAround
  <2> QED
    BY <1>2, <2>1 DEF Inside, Tables, ScopesFollowTree
<1>3. ASSUME Kind(h) # "module"
      PROVE  \E g \in Node :
              /\ g < h /\ Kind(g) \in HomeKinds /\ Kids(g) # {} /\ scopeOf[g] # 0
              /\ Inside(h) = Inside(g) \cup {h} /\ h \notin Inside(g)
              /\ \A a \in Inside(h) : a <= h
              /\ scopes[scopeOf[h]].parent = scopeOf[g]
  <2>1. Homes(h) # {} /\ HomeScope(h) # 0
    BY <1>3 DEF Tables, Scoped
  <2>2. PICK g \in Node : /\ g = Greatest(Homes(h)) /\ g \in Homes(h) /\ g < h /\ Kind(g) \in HomeKinds
                          /\ \A a \in Homes(h) : a <= g
    BY <1>1, <2>1, GreatestHome
  <2>3. Inside(h) = Homes(h) \cup {h} /\ h \notin Homes(h) /\ \A a \in Inside(h) : a <= h
    BY <1>1, HomeFacts DEF Inside
  <2>4. Inside(g) = {a \in Inside(h) : a <= g}
    BY <1>1, <2>2, <2>3, InsideOfHome
  <2>5. Inside(g) = Homes(h)
    <3>1. ~(h <= g)
      BY <1>1, <2>2, TreeFacts
    <3> QED
      BY <2>2, <2>3, <2>4, <3>1
  <2>6. Kids(g) # {}
    <3>1. h \in Subtree(g) /\ h # g
      BY <1>1, <2>2, AncestorFacts, TreeFacts DEF Homes
    <3> QED
      BY <1>1, <2>2, <3>1, BelowIsBelowKid
  <2>7. scopeOf[g] # 0
    BY <2>1, <2>2 DEF HomeScope
  <2>8. scopes[scopeOf[h]].parent = scopeOf[g]
    BY <1>3, <2>2 DEF Tables, Scoped, ScopesFollowTree, HomeKinds, Opening
  <2> QED
    BY <2>2, <2>3, <2>5, <2>6, <2>7, <2>8
<1> QED
  BY <1>2, <1>3

LEMMA FoundHere ==
  ASSUME NEW N \in Nat, NEW S \in SUBSET (0 .. N), NEW h \in S, \A a \in S : a <= h,
         NEW x, Within(Canon(h), x) # {}
  PROVE  Found(S, x) = Within(Canon(h), x)
<1>1. h \in Declaring(S, x) /\ Declaring(S, x) \in SUBSET (0 .. N)
  BY DEF Declaring
<1>2. Greatest(Declaring(S, x)) \in Declaring(S, x) /\ \A k \in Declaring(S, x) : k <= Greatest(Declaring(S, x))
  BY <1>1, GreatestMember
<1>3. Greatest(Declaring(S, x)) = h
  BY <1>1, <1>2 DEF Declaring
<1> QED
  BY <1>1, <1>3 DEF Found

(* Lookup goes from home to home, outwards.                                *)
LEMMA LookupFromHome ==
  ASSUME Tables, NEW x \in Name
  PROVE  \A h \in Node : Kind(h) \in HomeKinds /\ Kids(h) # {} /\ scopeOf[h] # 0 /\ Lookup(scopeOf[h], x) # 0 =>
           Lookup(scopeOf[h], x) \in Found(Inside(h), x)
<1> DEFINE Bad == {h \in Node : /\ Kind(h) \in HomeKinds /\ Kids(h) # {} /\ scopeOf[h] # 0
                                /\ Lookup(scopeOf[h], x) # 0
                                /\ Lookup(scopeOf[h], x) \notin Found(Inside(h), x)}
<1>1. InTree /\ Bad \in SUBSET Nat
  BY TreeFacts DEF Tables
<1> SUFFICES ASSUME Bad # {} PROVE FALSE
  OBVIOUS
<1>2. PICK h \in Bad : \A k \in Bad : h <= k
  BY <1>1, LeastMember
<1>3. /\ h \in Node /\ Kind(h) \in HomeKinds /\ Kids(h) # {} /\ scopeOf[h] # 0
      /\ Lookup(scopeOf[h], x) # 0 /\ Lookup(scopeOf[h], x) \notin Found(Inside(h), x)
  BY <1>2
<1>4. scopeOf[h] \in DOMAIN scopes /\ 1 \in DOMAIN scopes /\ scopes[1].parent = 0
  BY <1>3, TableFacts DEF Tables, Scoped
<1>5. /\ Lookup(scopeOf[h], x) = IF scopes[scopeOf[h]].table[x] # 0 THEN scopes[scopeOf[h]].table[x]
                                 ELSE Lookup(scopes[scopeOf[h]].parent, x)
      /\ Lookup(1, x) = scopes[1].table[x] /\ Lookup(0, x) = 0
  BY <1>4, LookupFacts
<1>6. h \in Nat /\ Inside(h) \in SUBSET (0 .. h) /\ h \in Inside(h) /\ \A a \in Inside(h) : a <= h
  BY <1>1, <1>3, HomeFacts DEF Inside
<1>7. CASE scopes[scopeOf[h]].table[x] # 0
  <2>1. scopes[scopeOf[h]].table[x] \in Within(Canon(h), x)
    BY <1>3, <1>7, TableOfHome
  <2>2. Found(Inside(h), x) = Within(Canon(h), x)
    BY <1>6, <2>1, FoundHere
  <2> QED
    BY <1>3, <1>5, <1>7, <2>1, <2>2
<1>8. CASE scopes[scopeOf[h]].table[x] = 0
  <2>1. Within(Canon(h), x) = {}
    BY <1>3, <1>8, TableOfHome
  <2>2. Lookup(scopeOf[h], x) = Lookup(scopes[scopeOf[h]].parent, x)
    BY <1>5, <1>8
  <2>3. CASE Kind(h) = "module"
    <3>1. Inside(h) = {h} /\ scopes[scopeOf[h]].parent \in {0, 1}
      BY <1>3, <2>3, HomeOfHome
    <3>2. Declaring(Inside(h), x) = {}
      BY <2>1, <3>1 DEF Declaring
    <3>3. Lookup(scopeOf[h], x) = scopes[1].table[x] /\ scopes[1].table[x] # 0
      BY <1>3, <1>5, <2>2, <3>1
    <3>4. scopes[1].table[x] \in Within(0, x)
      BY <3>3, TableOfHome
    <3> QED
      BY <1>3, <3>2, <3>3, <3>4 DEF Found
  <2>4. CASE Kind(h) # "module"
    <3>1. PICK g \in Node :
              /\ g < h /\ Kind(g) \in HomeKinds /\ Kids(g) # {} /\ scopeOf[g] # 0
              /\ Inside(h) = Inside(g) \cup {h} /\ h \notin Inside(g)
              /\ scopes[scopeOf[h]].parent = scopeOf[g]
      BY <1>3, <2>4, HomeOfHome
    <3>2. Declaring(Inside(h), x) = Declaring(Inside(g), x)
      BY <2>1, <3>1 DEF Declaring
    <3>3. Found(Inside(h), x) = Found(Inside(g), x)
      BY <3>2 DEF Found
    <3>4. g \notin Bad
      <4>1. ~(h <= g)
        BY <1>1, <1>3, <3>1, TreeFacts
      <4> QED
        BY <1>2, <4>1
    <3> QED
      BY <1>3, <2>2, <3>1, <3>3, <3>4
  <2> QED
    BY <2>3, <2>4
<1>9. scopes[scopeOf[h]].table[x] = 0 \/ scopes[scopeOf[h]].table[x] # 0
  OBVIOUS
<1> QED
  BY <1>7, <1>8, <1>9

(* A name bound is one of the candidates of the place it is used in.       *)
LEMMA UnqualifiedMeaning ==
  ASSUME Control, ContextTyped, InContext, Tables, stack # << >>, Top.op \in Walk,
         NEW n \in Kids(Top.node), Kind(n) \in Use, Of(n) = Unqualified, Meaning(n) # 0
  PROVE  Meaning(n) \in Candidates(n)
<1>1. InTree /\ Top.node \in Node
  BY TopFacts DEF Control
<1>2. n \in Node
  BY <1>1, KidFacts
<1>3. NameOf(n) \in Name
  BY <1>1, <1>2, UseFacts
<1>4. Homes(n) # {} /\ Current = HomeScope(n) /\ Homes(n) = Inside(Top.node)
  BY <1>1, MeaningBound, HomesOfKid
<1>5. Current # 0 /\ Meaning(n) = Lookup(Current, NameOf(n))
  BY DEF Meaning
<1>6. PICK g \in Node : g = Greatest(Homes(n)) /\ g \in Homes(n) /\ Kind(g) \in HomeKinds
  BY <1>1, <1>2, <1>4, GreatestHome
<1>7. Inside(g) = Homes(n)
  BY <1>1, <1>4, <1>6, InnermostHome
<1>8. Kids(g) # {}
  <2>1. n \in Subtree(g) /\ n # g
    BY <1>1, <1>2, <1>6, HomeFacts
  <2> QED
    BY <1>1, <2>1, BelowIsBelowKid
<1>9. scopeOf[g] = Current
  BY <1>4, <1>6 DEF HomeScope
<1>10. Meaning(n) \in Found(Homes(n), NameOf(n))
  BY <1>3, <1>5, <1>6, <1>7, <1>8, <1>9, LookupFromHome
<1> QED
  BY <1>4, <1>10 DEF Candidates, Around, Found, Declaring

LEMMA QualifiedMeaning ==
  ASSUME Tables, NEW n \in Node, Kind(n) \in Use, Of(n) # Unqualified,
         Lookup(modules[Of(n)], NameOf(n)) # 0
  PROVE  Lookup(modules[Of(n)], NameOf(n)) \in Candidates(n)
<1>1. InTree /\ NameOf(n) \in Name /\ Of(n) \in Module
  BY UseFacts DEF Tables
<1> DEFINE x == NameOf(n)
           found == Lookup(modules[Of(n)], x)
           declaring == {h \in Around(n) : Within(Canon(h), x) # {}}
<1>2. Candidates(n) = IF declaring # {} THEN Within(Canon(Greatest(declaring)), x)
                      ELSE IF Around(n) # {} \/ Of(n) = Builtin THEN Within(0, x)
                      ELSE {}
  BY DEF Candidates
<1>3. \A h \in Around(n) : h \in Node /\ Kind(h) = "module" /\ NameOf(h) = Of(n) /\ scopeOf[h] # 0
  BY DEF Around
<1>4. declaring # {} => Greatest(declaring) \in declaring
  <2>1. declaring \in SUBSET (0 .. Len(tree)) /\ Len(tree) \in Nat
    BY <1>1, <1>3, TreeFacts
  <2> QED
    BY <2>1, GreatestMember
<1>5. /\ modules[Of(n)] \in DOMAIN scopes /\ 1 \in DOMAIN scopes /\ scopes[1].parent = 0
      /\ modules[Builtin] = 1
  <2>1. modules[Of(n)] \in 0 .. Len(scopes) /\ DOMAIN scopes = 1 .. Len(scopes) /\ Len(scopes) \in Nat
    BY <1>1, TableFacts
  <2>2. modules[Of(n)] # 0
    BY <1>1, LookupFacts
  <2> QED
    BY <2>1, <2>2 DEF Tables, Scoped
<1>6. /\ found = IF scopes[modules[Of(n)]].table[x] # 0 THEN scopes[modules[Of(n)]].table[x]
                 ELSE Lookup(scopes[modules[Of(n)]].parent, x)
      /\ Lookup(1, x) = scopes[1].table[x] /\ Lookup(0, x) = 0
  BY <1>1, <1>5, LookupFacts
<1>7. CASE Of(n) = Builtin
  <2>1. found = scopes[1].table[x]
    BY <1>5, <1>6, <1>7
  <2>2. found \in Within(0, x)
    BY <1>1, <2>1, TableOfHome
  <2>3. \A h \in Around(n) : Canon(h) = 0
    BY <1>1, <1>3, <1>7, ModuleCanon
  <2> QED
    BY <1>2, <1>4, <1>7, <2>2, <2>3
<1>8. CASE Of(n) # Builtin
  <2>1. PICK m \in Node : Kind(m) = "module" /\ NameOf(m) = Of(n) /\ scopeOf[m] # 0
    BY <1>1, <1>5, <1>8, TableFacts DEF Tables, Scoped
  <2>2. m \in Around(n)
    BY <2>1 DEF Around
  <2>3. \A h \in Around(n) : scopeOf[h] = modules[Of(n)]
    BY <1>3 DEF Tables, ScopesFollowTree
  <2>4. \A h \in Around(n) : Canon(h) = Canon(m)
    <3>1. \A h \in Around(n) : Kind(h) \in HomeKinds
      BY <1>3 DEF HomeKinds
    <3> QED
      BY <1>3, <2>2, <2>3, <3>1, HomesByScope
  <2>5. /\ scopes[scopeOf[m]].table[x] # 0 => scopes[scopeOf[m]].table[x] \in Within(Canon(m), x)
        /\ scopes[scopeOf[m]].table[x] = 0 => Within(Canon(m), x) = {}
    BY <1>1, <2>1, TableOfHome DEF HomeKinds
  <2>6. CASE scopes[modules[Of(n)]].table[x] # 0
    <3>1. found \in Within(Canon(m), x)
      BY <1>6, <2>2, <2>3, <2>5, <2>6
    <3>2. m \in declaring
      BY <2>2, <3>1
    <3> QED
      BY <1>2, <1>4, <2>4, <3>1, <3>2
  <2>7. CASE scopes[modules[Of(n)]].table[x] = 0
    <3>1. declaring = {}
      BY <2>2, <2>3, <2>4, <2>5, <2>7
    <3>2. scopes[modules[Of(n)]].parent = 1
      BY <1>8, <2>1, <2>2, <2>3 DEF Tables, ScopesFollowTree
    <3>3. found = scopes[1].table[x] /\ scopes[1].table[x] # 0
      BY <1>6, <2>7, <3>2
    <3>4. found \in Within(0, x)
      BY <1>1, <3>3, TableOfHome
    <3> QED
      BY <1>2, <2>2, <3>1, <3>4
  <2> QED
    BY <2>6, <2>7
<1> QED
  BY <1>7, <1>8

(* What a step binds was unbound; a name that is looked up gets one of its *)
(* candidates.                                                             *)
BindsFirst(n) ==
  /\ symbolOf[n] = 0
  /\ Kind(n) \in Use => symbolOf'[n] \in Candidates(n)

LEMMA CollectBinds ==
  ASSUME Control, WalksOK, CollectOpening \/ CollectLeaf, NEW n \in Node, symbolOf'[n] # symbolOf[n]
  PROVE  BindsFirst(n)
<1>0. Collecting
  BY DEF CollectOpening, CollectLeaf
<1>1. PICK k \in Node : k = Collectee /\ Untouched(k)
  BY <1>0, CollectFacts
<1>2. Kind(k) \in Opening \cup Leaf /\ Declare(k)
  BY <1>1 DEF CollectOpening, CollectLeaf
<1>3. n = k
  BY <1>2 DEF Declare
<1>4. symbolOf[n] = 0 /\ Kind(n) \notin Use
  BY <1>1, <1>2, <1>3 DEF Untouched, Opening, Leaf, Use
<1> QED
  BY <1>4 DEF BindsFirst

LEMMA UseBinds ==
  ASSUME Control, WalksOK, ResolveUse, NEW n \in Node, symbolOf'[n] # symbolOf[n]
  PROVE  BindsFirst(n)
<1>0. Resolving
  BY DEF ResolveUse
<1>1. PICK k \in Node : k = Resolvee
  BY <1>0, ResolveeFacts
<1>2. stack # << >> /\ Top.op = "resolve" /\ k \in Kids(Top.node) /\ k > Top.at
  BY <1>0, <1>1, ResolveeFacts
<1>3. /\ Kind(k) \in Use
      /\ symbolOf' = IF Meaning(k) = 0 THEN symbolOf ELSE [symbolOf EXCEPT ![k] = Meaning(k)]
  BY <1>1 DEF ResolveUse
<1>4. n = k /\ Meaning(n) # 0 /\ symbolOf'[n] = Meaning(n)
  <2>1. symbolOf \in [Node -> 0 .. Len(symbols)]
    BY DEF WalksOK, Tables, TablesTyped
  <2> QED
    BY <1>3, <2>1
<1>5. InTree /\ Len(stack) \in Depth /\ Top = stack[Len(stack)]
  BY <1>2, TopFacts DEF Control
<1>6. symbolOf[n] = 0
  <2>1. \A m \in Subtree(k) : Unbound(m)
    BY <1>2, <1>5 DEF WalksOK, Pending
  <2>2. k \in Subtree(k)
    BY <1>5, SubtreeFacts
  <2> QED
    BY <1>3, <1>4, <2>1, <2>2 DEF Unbound, Bound
<1>7. Meaning(n) \in Candidates(n)
  <2>1. CASE Of(n) = Unqualified
    BY <1>2, <1>3, <1>4, <2>1, UnqualifiedMeaning DEF WalksOK, Walk
  <2>2. CASE Of(n) # Unqualified
    <3>1. Meaning(n) = Lookup(modules[Of(n)], NameOf(n))
      BY <1>4, <2>2 DEF Meaning
    <3> QED
      BY <1>3, <1>4, <2>2, <3>1, QualifiedMeaning DEF WalksOK
  <2> QED
    BY <2>1, <2>2
<1> QED
  BY <1>4, <1>6, <1>7 DEF BindsFirst

LEMMA ReturnBinds ==
  ASSUME Control, WalksOK, ResolveReturn, NEW n \in Node, symbolOf'[n] # symbolOf[n]
  PROVE  BindsFirst(n)
<1>1. stack # << >> /\ Top.op = "resolve"
  BY DEF ResolveReturn, In
<1>2. Len(stack) \in Depth /\ Top = stack[Len(stack)]
  BY <1>1, TopFacts DEF Control
<1>3. n = Top.node /\ Kind(n) = "member"
  BY DEF ResolveReturn
<1>4. symbolOf[n] = 0
  BY <1>1, <1>2, <1>3 DEF WalksOK, Pending
<1> QED
  BY <1>3, <1>4 DEF BindsFirst, Use

LEMMA StepBinds ==
  Inductive /\ [Next]_vars =>
    \A n \in Node : symbolOf'[n] # symbolOf[n] => symbolOf[n] = 0 /\ (Kind(n) \in Use => symbolOf'[n] \in Candidates(n))
<1> SUFFICES ASSUME Inductive, [Next]_vars, NEW n \in Node, symbolOf'[n] # symbolOf[n]
             PROVE  BindsFirst(n)
  BY DEF BindsFirst
<1>1. Control /\ WalksOK
  BY InductiveParts
<1>2. \/ CollectOpening \/ CollectLeaf \/ ResolveUse \/ ResolveReturn
      \/ symbolOf' = symbolOf
  BY DEF Next, Step, Ended, vars, tables, Compile, CollectRedeclared, CollectImpl, CollectModule, CollectInit,
         CollectOther, CollectReturn, ResolveEntered, ResolveImport, ResolveOther,
         LoadCompiled, LoadProvider, LoadCyclic, LoadReturn
<1> QED
  BY <1>1, <1>2, CollectBinds, UseBinds, ReturnBinds

(* A name is bound once, to the innermost declaration around it            *)
(* (BindsInnermost), however the walks of the files are nested.            *)
THEOREM NamesBindInnermost == Spec => BindsInnermost
<1>1. Inductive /\ [Next]_vars =>
        [\A n \in Node : symbolOf'[n] # symbolOf[n] =>
           /\ symbolOf[n] = 0
           /\ Kind(n) \in Use => symbolOf'[n] \in Candidates(n)]_vars
  BY StepBinds
<1> QED
  BY <1>1, InvariantHolds, PTL DEF BindsInnermost, Spec
=============================================================================
