---------------------------- MODULE TypeTableProofs ---------------------------
(***************************************************************************)
(* Theorems about TypeTable, for any symbols and tables of any size.       *)
(***************************************************************************)
EXTENDS TypeTable, SequenceTheorems, WellFoundedInduction, TLAPS

Type == [kind : SymbolKind \cup {Instance}, constructor : Nat, arguments : Seq(Nat)]

LEMMA TableAdded ==
  ASSUME NEW ts \in Seq(Type), NEW t \in Type
  PROVE  LET us == Append(ts, t)
         IN  /\ us \in Seq(Type)
             /\ Len(ts) \in Nat /\ Len(us) = Len(ts) + 1
             /\ DOMAIN us = 1 .. Len(ts) + 1 /\ DOMAIN ts = 1 .. Len(ts)
             /\ us[Len(ts) + 1] = t
             /\ \A i \in 1 .. Len(ts) : us[i] = ts[i] /\ ts[i] \in Type
<1>1. Len(ts) \in Nat /\ DOMAIN ts = 1 .. Len(ts) /\ \A i \in 1 .. Len(ts) : ts[i] \in Type
  BY LenProperties, ElementOfSeq
<1> QED
  BY <1>1, AppendProperties

LEMMA SymbolType ==
  ASSUME NEW kind \in SymbolKind
  PROVE  OfSymbol(kind) \in Type /\ OfSymbol(kind).kind # Instance
<1>1. << >> \in Seq(Nat)
  BY EmptySeq
<1>2. OfSymbol(kind) \in Type
  BY <1>1 DEF OfSymbol, Type, Invalid
<1>3. OfSymbol(kind).kind # Instance
  BY DEF OfSymbol, SymbolKind, Instance
<1> QED
  BY <1>2, <1>3

(* The ids that an instance is made of are ids of the table.               *)
LEMMA PartsOfInstance ==
  ASSUME NEW ts \in Seq(Type), NEW n \in Nat, NEW constructor \in DOMAIN ts, NEW arguments \in [1 .. n -> DOMAIN ts]
  PROVE  /\ OfParts(constructor, arguments) \in Type
         /\ OfParts(constructor, arguments).kind = Instance
         /\ OfParts(constructor, arguments).constructor = constructor
         /\ OfParts(constructor, arguments).arguments = arguments
         /\ DOMAIN arguments = 1 .. n
<1>1. DOMAIN ts = 1 .. Len(ts) /\ Len(ts) \in Nat
  BY LenProperties
<1>2. arguments \in [1 .. n -> Nat] /\ constructor \in Nat
  BY <1>1
<1>3. arguments \in Seq(Nat)
  BY <1>2, SeqDef
<1> QED
  BY <1>2, <1>3 DEF OfParts, Type

LEMMA InstanceIsItsParts ==
  ASSUME NEW t \in Type, t.kind = Instance
  PROVE  t = OfParts(t.constructor, t.arguments)
  BY DEF Type, OfParts
-----------------------------------------------------------------------------
LEMMA InitInterned == Init => Interned
<1> SUFFICES ASSUME Init PROVE Interned
  OBVIOUS
<1>1. types \in Seq(Type) /\ Len(types) = 0 /\ DOMAIN types = {}
  BY EmptySeq, LenProperties DEF Init
<1>2. bySymbol = [s \in Symbol |-> 0]
  BY DEF Init, Invalid
<1>3. TypeOK
  BY <1>1, <1>2 DEF TypeOK, Type
<1>4. OneOwner /\ PartsAreOlder
  BY <1>1, <1>2 DEF OneOwner, PartsAreOlder, Invalid
<1> QED
  BY <1>3, <1>4 DEF Interned

LEMMA CreateInterned ==
  ASSUME Interned, NEW s \in Symbol, NEW kind \in SymbolKind, Create(s, kind)
  PROVE  Interned'
<1> DEFINE t == OfSymbol(kind)
           id == Len(types) + 1
<1>1. types \in Seq(Type) /\ bySymbol \in [Symbol -> 0 .. Len(types)]
  BY DEF Interned, TypeOK, Type
<1>2. t \in Type /\ t.kind # Instance
  BY SymbolType
<1>3. types' = Append(types, t) /\ bySymbol' = [bySymbol EXCEPT ![s] = id] /\ bySymbol[s] = 0
  BY DEF Create, Known, Invalid
<1> HIDE DEF t
<1>4. /\ types' \in Seq(Type)
      /\ Len(types) \in Nat /\ Len(types') = id
      /\ DOMAIN types' = 1 .. id /\ DOMAIN types = 1 .. Len(types)
      /\ types'[id] = t
      /\ \A i \in 1 .. Len(types) : types'[i] = types[i] /\ types[i] \in Type
  BY <1>1, <1>2, <1>3, TableAdded
<1>5. /\ \A x \in Symbol : bySymbol'[x] = IF x = s THEN id ELSE bySymbol[x]
      /\ bySymbol' \in [Symbol -> 0 .. id]
  BY <1>1, <1>3, <1>4
<1>6. TypeOK'
  BY <1>4, <1>5 DEF TypeOK, Type
<1>7. OneOwner'
  <2>1. \A x, y \in Symbol : bySymbol'[x] # Invalid /\ bySymbol'[x] = bySymbol'[y] => x = y
    BY <1>1, <1>4, <1>5 DEF Interned, OneOwner, Invalid
  <2>2. \A x \in Symbol : bySymbol'[x] # Invalid => types'[bySymbol'[x]].kind # Instance
    BY <1>1, <1>2, <1>4, <1>5 DEF Interned, OneOwner, Invalid
  <2>3. \A i, j \in DOMAIN types' : types'[i].kind = Instance /\ types'[i] = types'[j] => i = j
    BY <1>2, <1>4 DEF Interned, OneOwner
  <2> QED
    BY <2>1, <2>2, <2>3 DEF OneOwner
<1>8. PartsAreOlder'
  BY <1>2, <1>4 DEF Interned, PartsAreOlder
<1> QED
  BY <1>6, <1>7, <1>8 DEF Interned

LEMMA CreateInstanceInterned ==
  ASSUME Interned, NEW constructor \in DOMAIN types, NEW arguments \in Arguments, CreateInstance(constructor, arguments)
  PROVE  Interned'
<1> DEFINE t == OfParts(constructor, arguments)
           id == Len(types) + 1
<1>1. types \in Seq(Type) /\ bySymbol \in [Symbol -> 0 .. Len(types)]
  BY DEF Interned, TypeOK, Type
<1>2. PICK n \in 1 .. MaxArity : arguments \in [1 .. n -> DOMAIN types]
  BY DEF Arguments
<1>3. n \in Nat
  BY TypeTableAssumption
<1>4. /\ t \in Type /\ t.kind = Instance
      /\ t.constructor = constructor /\ t.arguments = arguments /\ DOMAIN arguments = 1 .. n
  BY <1>1, <1>2, <1>3, PartsOfInstance
<1>5. types' = Append(types, t) /\ bySymbol' = bySymbol /\ \A i \in DOMAIN types : types[i] # t
  BY DEF CreateInstance, HasInstance, IsInstance
<1> HIDE DEF t
<1>6. /\ types' \in Seq(Type)
      /\ Len(types) \in Nat /\ Len(types') = id
      /\ DOMAIN types' = 1 .. id /\ DOMAIN types = 1 .. Len(types)
      /\ types'[id] = t
      /\ \A i \in 1 .. Len(types) : types'[i] = types[i] /\ types[i] \in Type
  BY <1>1, <1>4, <1>5, TableAdded
<1>7. TypeOK'
  BY <1>1, <1>5, <1>6 DEF TypeOK, Type
<1>8. OneOwner'
  <2>1. \A x, y \in Symbol : bySymbol'[x] # Invalid /\ bySymbol'[x] = bySymbol'[y] => x = y
    BY <1>5 DEF Interned, OneOwner
  <2>2. \A x \in Symbol : bySymbol'[x] # Invalid => types'[bySymbol'[x]].kind # Instance
    BY <1>1, <1>5, <1>6 DEF Interned, OneOwner, Invalid
  <2>3. \A i, j \in DOMAIN types' : types'[i].kind = Instance /\ types'[i] = types'[j] => i = j
    BY <1>5, <1>6 DEF Interned, OneOwner
  <2> QED
    BY <2>1, <2>2, <2>3 DEF OneOwner
<1>9. PartsAreOlder'
  <2>1. ASSUME NEW i \in DOMAIN types', types'[i].kind = Instance
        PROVE  /\ types'[i].constructor \in 1 .. i - 1
               /\ \A k \in DOMAIN types'[i].arguments : types'[i].arguments[k] \in 1 .. i - 1
    <3>1. CASE i = id
      BY <1>2, <1>4, <1>6, <3>1
    <3>2. CASE i # id
      <4>1. i \in DOMAIN types /\ types'[i] = types[i]
        BY <1>6, <3>2
      <4> QED
        BY <2>1, <4>1 DEF Interned, PartsAreOlder
    <3> QED
      BY <3>1, <3>2
  <2> QED
    BY <2>1 DEF PartsAreOlder
<1> QED
  BY <1>7, <1>8, <1>9 DEF Interned

(* An id has one owner, and the parts of an instance are older than it:    *)
(* comparing ids compares types, and going down into an instance ends.     *)
THEOREM TypesAreInterned == Spec => []Interned
<1>1. Interned /\ [Next]_table => Interned'
  <2> SUFFICES ASSUME Interned, [Next]_table PROVE Interned'
    OBVIOUS
  <2>1. CASE UNCHANGED table
    BY <2>1 DEF table, Interned, TypeOK, OneOwner, PartsAreOlder
  <2> QED
    BY <2>1, CreateInterned, CreateInstanceInterned DEF Next
<1> QED
  BY InitInterned, <1>1, PTL DEF Spec
-----------------------------------------------------------------------------
(* What a type is asked for by tells a symbol from an instance, and one    *)
(* symbol or instance from another.                                        *)
LEMMA KeysDiffer ==
  /\ \A s, t : BySymbol(s) = BySymbol(t) => s = t
  /\ \A s, c, a : BySymbol(s) # ByParts(c, a)
  /\ \A c, a, d, b : ByParts(c, a) = ByParts(d, b) => c = d /\ a = b
<1>1. \A s : BySymbol(s)[1] = "symbol" /\ BySymbol(s)[2] = s
  BY DEF BySymbol
<1>2. \A c, a : ByParts(c, a)[1] = "parts" /\ ByParts(c, a)[2] = c /\ ByParts(c, a)[3] = a
  BY DEF ByParts
<1> QED
  BY <1>1, <1>2

(* The table gives out types as Interning promises: asking twice for the   *)
(* same gives the same id, and an id once given keeps its meaning.         *)
THEOREM TableKeepsPromise == Spec => KeepsPromise
<1>1. Init => Interns!Init
  <2> SUFFICES ASSUME Init PROVE Given = {}
    BY DEF Interns!Init
  <2>1. DOMAIN types = {} /\ \A s \in Symbol : bySymbol[s] = Invalid
    BY EmptySeq, LenProperties DEF Init
  <2> QED
    BY <2>1 DEF Given
<1>2. Interned /\ [Next]_table => [Interns!Next]_Given
  <2> SUFFICES ASSUME Interned, [Next]_table PROVE [Interns!Next]_Given
    OBVIOUS
  <2> DEFINE id == Len(types) + 1
  <2>1. types \in Seq(Type) /\ bySymbol \in [Symbol -> 0 .. Len(types)] /\ Len(types) \in Nat
    BY LenProperties DEF Interned, TypeOK, Type
  <2>2. \A pair \in Given : pair[2] # id
    BY <2>1, LenProperties DEF Given
  <2>3. ASSUME NEW s \in Symbol, NEW kind \in SymbolKind, Create(s, kind) PROVE Interns!Next
    <3> DEFINE t == OfSymbol(kind)
    <3>1. t \in Type /\ t.kind # Instance
      BY SymbolType
    <3>2. types' = Append(types, t) /\ bySymbol' = [bySymbol EXCEPT ![s] = id] /\ bySymbol[s] = 0 /\ id \in Id
      BY <2>1, <2>3, TypeTableAssumption DEF Create, Known, Invalid, Id
    <3> HIDE DEF t
    <3>3. /\ DOMAIN types' = 1 .. id /\ DOMAIN types = 1 .. Len(types)
          /\ types'[id] = t
          /\ \A i \in 1 .. Len(types) : types'[i] = types[i]
      BY <2>1, <3>1, <3>2, TableAdded
    <3>4. \A x \in Symbol : bySymbol'[x] = IF x = s THEN id ELSE bySymbol[x]
      BY <2>1, <3>2
    <3>5. Given' = Given \cup {<<BySymbol(s), id>>}
      BY <2>1, <3>1, <3>2, <3>3, <3>4 DEF Given, Invalid
    <3>6. \A pair \in Given : pair[1] # BySymbol(s)
      BY <3>2, KeysDiffer DEF Given, Invalid
    <3>7. Interns!Give(BySymbol(s), id)
      BY <2>2, <3>5, <3>6 DEF Interns!Give
    <3>8. BySymbol(s) \in Key
      BY DEF Key
    <3> QED
      BY <3>2, <3>7, <3>8 DEF Interns!Next
  <2>4. ASSUME NEW constructor \in DOMAIN types, NEW arguments \in Arguments, CreateInstance(constructor, arguments)
        PROVE  Interns!Next
    <3> DEFINE t == OfParts(constructor, arguments)
    <3>1. PICK n \in 1 .. MaxArity : arguments \in [1 .. n -> DOMAIN types]
      BY DEF Arguments
    <3>2. /\ t \in Type /\ t.kind = Instance
          /\ t.constructor = constructor /\ t.arguments = arguments
      BY <2>1, <3>1, TypeTableAssumption, PartsOfInstance
    <3>3. types' = Append(types, t) /\ bySymbol' = bySymbol /\ id \in Id /\ \A i \in DOMAIN types : types[i] # t
      BY <2>1, <2>4, TypeTableAssumption DEF CreateInstance, HasInstance, IsInstance, Id
    <3>4. \A i \in DOMAIN types : types[i].kind = Instance =>
            types[i].constructor # constructor \/ types[i].arguments # arguments
      <4>1. ASSUME NEW i \in DOMAIN types, types[i].kind = Instance,
                   types[i].constructor = constructor, types[i].arguments = arguments
            PROVE  types[i] = t
        <5>1. types[i] \in Type
          BY <2>1, ElementOfSeq, LenProperties
        <5>2. types[i] = OfParts(types[i].constructor, types[i].arguments)
          BY <4>1, <5>1, InstanceIsItsParts
        <5> QED
          BY <4>1, <5>2
      <4> QED
        BY <3>3, <4>1
    <3> HIDE DEF t
    <3>5. /\ DOMAIN types' = 1 .. id /\ DOMAIN types = 1 .. Len(types)
          /\ types'[id] = t
          /\ \A i \in 1 .. Len(types) : types'[i] = types[i]
      BY <2>1, <3>2, <3>3, TableAdded
    <3>6. Given' = Given \cup {<<ByParts(constructor, arguments), id>>}
      BY <2>1, <3>2, <3>3, <3>5 DEF Given
    <3>7. \A pair \in Given : pair[1] # ByParts(constructor, arguments)
      BY <3>4, KeysDiffer DEF Given
    <3>8. Interns!Give(ByParts(constructor, arguments), id)
      BY <2>2, <3>6, <3>7 DEF Interns!Give
    <3>9. ByParts(constructor, arguments) \in Key
      <4>1. DOMAIN types \subseteq Id
        BY <2>1, <3>3, <3>5, TypeTableAssumption DEF Id
      <4>2. constructor \in Id /\ arguments \in [1 .. n -> Id]
        BY <3>1, <4>1
      <4> QED
        BY <4>2 DEF Key
    <3> QED
      BY <3>3, <3>8, <3>9 DEF Interns!Next
  <2>5. CASE UNCHANGED table
    BY <2>5 DEF table, Given
  <2> QED
    BY <2>3, <2>4, <2>5 DEF Next
<1> QED
  BY <1>1, <1>2, TypesAreInterned, PTL DEF Spec, KeepsPromise, Interns!Spec
-----------------------------------------------------------------------------
(* A nonempty set of ids has a least one.                                  *)
Smaller == {p \in Nat \X Nat : p[1] < p[2]}

LEMMA SmallerIsWellFounded == IsWellFoundedOn(Smaller, Nat)
BY NatLessThanWellFounded DEF Smaller, OpToRel

LEMMA LeastId ==
  ASSUME NEW T \in SUBSET Nat, T # {}
  PROVE  \E n \in T : \A k \in T : n <= k
<1>1. PICK n \in T : \A k \in T : ~(<<k, n>> \in Smaller)
  BY SmallerIsWellFounded, WFMin
<1>2. \A k \in T : n <= k
  <2> TAKE k \in T
  <2>1. k \in Nat /\ n \in Nat
    OBVIOUS
  <2>2. ~(k < n)
    BY <1>1, <2>1 DEF Smaller
  <2> QED
    BY <2>1, <2>2
<1> QED
  BY <1>2

(* is_assignable of two ids, with f for its calls of itself.               *)
Fits(ts, f, target, source) ==
  /\ target # Invalid /\ source # Invalid
  /\ \/ target = source
     \/ /\ ts[target].kind = Instance /\ ts[source].kind = Instance
        /\ ts[target].constructor = ts[source].constructor
        /\ Len(ts[target].arguments) = Len(ts[source].arguments)
        /\ \A k \in DOMAIN ts[target].arguments : f[<<ts[target].arguments[k], ts[source].arguments[k]>>]
Pairs(ts) == (0 .. Len(ts)) \X (0 .. Len(ts))
IsFit(ts, f) == f = [pair \in Pairs(ts) |-> Fits(ts, f, pair[1], pair[2])]

LEMMA AssignableIsChosen == \A ts : Assignable(ts) = CHOOSE f : IsFit(ts, f)
BY DEF Assignable, IsFit, Fits, Pairs

(* What the theorem uses of the table.                                     *)
Sound(ts) ==
  /\ ts \in Seq(Type)
  /\ \A i, j \in DOMAIN ts : ts[i].kind = Instance /\ ts[i] = ts[j] => i = j
  /\ \A i \in DOMAIN ts : ts[i].kind = Instance =>
       \A k \in DOMAIN ts[i].arguments : ts[i].arguments[k] \in 1 .. i - 1

LEMMA SameParts ==
  ASSUME NEW ts, Sound(ts), NEW i \in DOMAIN ts, NEW j \in DOMAIN ts,
         ts[i].kind = Instance, ts[j].kind = Instance, ts[i].constructor = ts[j].constructor,
         Len(ts[i].arguments) = Len(ts[j].arguments),
         \A k \in DOMAIN ts[i].arguments : ts[i].arguments[k] = ts[j].arguments[k]
  PROVE  i = j
<1>1. ts[i] \in Type /\ ts[j] \in Type
  BY ElementOfSeq, LenProperties DEF Sound
<1>2. ts[i].arguments \in Seq(Nat) /\ ts[j].arguments \in Seq(Nat)
  BY <1>1 DEF Type
<1>3. ts[i].arguments = ts[j].arguments
  BY <1>2, SeqEqual, LenProperties
<1>4. ts[i] = ts[j]
  BY <1>1, <1>3, InstanceIsItsParts
<1> QED
  BY <1>4 DEF Sound

(* Equality of ids is a solution of is_assignable's recursion ...          *)
LEMMA SameIdFits ==
  ASSUME NEW ts, Sound(ts)
  PROVE  \E f : IsFit(ts, f)
<1> DEFINE L == Len(ts)
           same == [pair \in Pairs(ts) |-> pair[1] # 0 /\ pair[1] = pair[2]]
<1>1. L \in Nat /\ DOMAIN ts = 1 .. L
  BY LenProperties DEF Sound
<1>2. ASSUME NEW t \in 0 .. L, NEW s \in 0 .. L
      PROVE  (t # 0 /\ t = s) <=> Fits(ts, same, t, s)
  <2>1. CASE t = 0 \/ s = 0 \/ t = s
    BY <2>1 DEF Fits, Invalid
  <2>2. CASE t # 0 /\ s # 0 /\ t # s
    <3> SUFFICES ASSUME Fits(ts, same, t, s) PROVE FALSE
      BY <2>2
    <3>1. t \in DOMAIN ts /\ s \in DOMAIN ts
      BY <1>1, <2>2
    <3>2. /\ ts[t].kind = Instance /\ ts[s].kind = Instance
          /\ ts[t].constructor = ts[s].constructor
          /\ Len(ts[t].arguments) = Len(ts[s].arguments)
          /\ \A k \in DOMAIN ts[t].arguments : same[<<ts[t].arguments[k], ts[s].arguments[k]>>]
      BY <2>2 DEF Fits
    <3>3. DOMAIN ts[t].arguments = DOMAIN ts[s].arguments
      <4>1. ts[t] \in Type /\ ts[s] \in Type
        BY <3>1, ElementOfSeq, LenProperties DEF Sound
      <4>2. ts[t].arguments \in Seq(Nat) /\ ts[s].arguments \in Seq(Nat)
        BY <4>1 DEF Type
      <4> QED
        BY <3>2, <4>2, LenProperties
    <3>4. \A k \in DOMAIN ts[t].arguments : ts[t].arguments[k] = ts[s].arguments[k]
      <4> TAKE k \in DOMAIN ts[t].arguments
      <4>1. ts[t].arguments[k] \in 1 .. t - 1 /\ ts[s].arguments[k] \in 1 .. s - 1
        BY <3>1, <3>2, <3>3 DEF Sound
      <4>2. ts[t].arguments[k] \in 0 .. L /\ ts[s].arguments[k] \in 0 .. L
        BY <1>1, <4>1
      <4>3. <<ts[t].arguments[k], ts[s].arguments[k]>> \in Pairs(ts)
        BY <4>2 DEF Pairs
      <4> QED
        BY <3>2, <4>3
    <3> QED
      BY <2>2, <3>1, <3>2, <3>4, SameParts
  <2> QED
    BY <2>1, <2>2
<1>3. same = [pair \in Pairs(ts) |-> Fits(ts, same, pair[1], pair[2])]
  <2>1. \A pair \in Pairs(ts) : (pair[1] # 0 /\ pair[1] = pair[2]) = Fits(ts, same, pair[1], pair[2])
    <3> TAKE pair \in Pairs(ts)
    <3>1. pair[1] \in 0 .. L /\ pair[2] \in 0 .. L
      BY DEF Pairs
    <3>2. (pair[1] # 0 /\ pair[1] = pair[2]) <=> Fits(ts, same, pair[1], pair[2])
      BY <1>2, <3>1
    <3> QED
      BY <3>2 DEF Fits
  <2> QED
    BY <2>1
<1>4. IsFit(ts, same)
  BY <1>3 DEF IsFit
<1> HIDE DEF same
<1> QED
  BY <1>4

(* ... and the only one: two ids that fit and differ would be instances    *)
(* with arguments that fit and differ, and that are smaller.               *)
LEMMA OnlySameIdFits ==
  ASSUME NEW ts, Sound(ts), NEW f, IsFit(ts, f)
  PROVE  \A i, j \in DOMAIN ts : f[<<i, j>>] <=> i = j
<1> DEFINE L == Len(ts)
<1>1. L \in Nat /\ DOMAIN ts = 1 .. L
  BY LenProperties DEF Sound
<1>2. \A t \in 0 .. L, s \in 0 .. L : f[<<t, s>>] = Fits(ts, f, t, s)
  <2> TAKE t \in 0 .. L, s \in 0 .. L
  <2>1. <<t, s>> \in Pairs(ts)
    BY DEF Pairs
  <2> QED
    BY <2>1 DEF IsFit
<1>3. \A i \in DOMAIN ts : f[<<i, i>>]
  <2> TAKE i \in DOMAIN ts
  <2>1. i \in 0 .. L /\ i # 0
    BY <1>1
  <2>2. Fits(ts, f, i, i)
    BY <2>1 DEF Fits, Invalid
  <2> QED
    BY <1>2, <2>1, <2>2
<1> DEFINE Wrong == {i \in 1 .. L : \E j \in 1 .. L : f[<<i, j>>] /\ i # j}
<1>4. Wrong = {}
  <2> SUFFICES ASSUME Wrong # {} PROVE FALSE
    OBVIOUS
  <2>1. PICK t \in Wrong : \A k \in Wrong : t <= k
    <3>1. Wrong \in SUBSET Nat
      BY <1>1
    <3> HIDE DEF Wrong
    <3> QED
      BY <3>1, LeastId
  <2>2. PICK s \in 1 .. L : f[<<t, s>>] /\ t # s
    OBVIOUS
  <2>3. t \in DOMAIN ts /\ s \in DOMAIN ts /\ t \in 0 .. L /\ s \in 0 .. L
    BY <1>1
  <2>4. Fits(ts, f, t, s)
    BY <1>2, <2>2, <2>3
  <2>5. /\ ts[t].kind = Instance /\ ts[s].kind = Instance
        /\ ts[t].constructor = ts[s].constructor
        /\ Len(ts[t].arguments) = Len(ts[s].arguments)
        /\ \A k \in DOMAIN ts[t].arguments : f[<<ts[t].arguments[k], ts[s].arguments[k]>>]
    BY <2>2, <2>4 DEF Fits
  <2>6. DOMAIN ts[t].arguments = DOMAIN ts[s].arguments
    <3>1. ts[t] \in Type /\ ts[s] \in Type
      BY <2>3, ElementOfSeq, LenProperties DEF Sound
    <3>2. ts[t].arguments \in Seq(Nat) /\ ts[s].arguments \in Seq(Nat)
      BY <3>1 DEF Type
    <3> QED
      BY <2>5, <3>2, LenProperties
  <2>7. \A k \in DOMAIN ts[t].arguments : ts[t].arguments[k] = ts[s].arguments[k]
    <3> TAKE k \in DOMAIN ts[t].arguments
    <3> DEFINE a == ts[t].arguments[k]
               b == ts[s].arguments[k]
    <3>1. a \in 1 .. t - 1 /\ b \in 1 .. s - 1
      BY <2>3, <2>5, <2>6 DEF Sound
    <3>2. a \in 1 .. L /\ b \in 1 .. L /\ a < t
      BY <1>1, <2>3, <3>1
    <3>3. f[<<a, b>>]
      BY <2>5
    <3>4. a \notin Wrong
      <4>1. ~(t <= a)
        BY <1>1, <2>3, <3>2
      <4> HIDE DEF Wrong, a
      <4> QED
        BY <2>1, <4>1
    <3> QED
      BY <3>2, <3>3, <3>4
  <2> QED
    BY <2>2, <2>3, <2>5, <2>7, SameParts
<1> QED
  BY <1>1, <1>3, <1>4

(* Going down into instances finds nothing that comparing ids has not      *)
(* found: is_assignable() of two types of any table is their equality,     *)
(* however deep the instances are nested.                                  *)
THEOREM OnlyItselfIsAssignable == Spec => []AssignableIsSame
<1>1. Interned => AssignableIsSame
  <2> SUFFICES ASSUME Interned PROVE AssignableIsSame
    OBVIOUS
  <2>1. Sound(types)
    BY DEF Sound, Interned, TypeOK, OneOwner, PartsAreOlder, Type
  <2>2. IsFit(types, Assignable(types))
    BY <2>1, SameIdFits, AssignableIsChosen
  <2> QED
    BY <2>1, <2>2, OnlySameIdFits DEF AssignableIsSame
<1> QED
  BY <1>1, TypesAreInterned, PTL
=============================================================================
