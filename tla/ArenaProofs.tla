------------------------------ MODULE ArenaProofs -----------------------------
(***************************************************************************)
(* Theorems about Arena, for blocks of any size, any requests and any heap.*)
(***************************************************************************)
EXTENDS Arena, SequenceTheorems, TLAPS

(* What is skipped is less than the alignment, and leads to an address     *)
(* that is aligned.                                                        *)
LEMMA PaddingAligns ==
  ASSUME NEW a \in Nat \ {0}, NEW n \in Nat
  PROVE  /\ (a - (n % a)) % a \in 0 .. a - 1
         /\ (n + ((a - (n % a)) % a)) % a = 0
<1>1. n % a \in 0 .. a - 1
  OBVIOUS
<1>2. CASE n % a = 0
  <2>1. (a - (n % a)) % a = 0
    BY <1>2
  <2> QED
    BY <2>1, <1>2
<1>3. CASE n % a # 0
  <2>1. (a - (n % a)) % a = a - (n % a)
    BY <1>1, <1>3
  <2>2. n = a * (n \div a) + (n % a) /\ n \div a \in Nat
    OBVIOUS
  <2>3. n + (a - (n % a)) = a * ((n \div a) + 1)
    BY <2>2
  <2>4. (a * ((n \div a) + 1)) % a = 0
    BY <2>2
  <2> QED
    BY <1>1, <2>1, <2>3, <2>4
<1> QED
  BY <1>2, <1>3

(* What allocate() does to the block it puts an object in.                 *)
LEMMA PlacedInBlock ==
  ASSUME NEW b \in MemoryBlock, b.offset <= b.size,
         NEW r \in [size : Nat \ {0}, alignment : Nat \ {0}],
         Fits(b, r)
  PROVE  /\ Behind(b, r) \in MemoryBlock
         /\ Behind(b, r).data = b.data /\ Behind(b, r).size = b.size
         /\ b.offset <= Behind(b, r).offset /\ Behind(b, r).offset <= b.size
         /\ Place(b, r) \in Object
         /\ Place(b, r).at >= b.data + b.offset
         /\ Place(b, r).at + Place(b, r).size = b.data + Behind(b, r).offset
         /\ Place(b, r).at % Place(b, r).alignment = 0
<1> DEFINE p == Padding(b, r.alignment)
<1>1. b.data \in Nat /\ b.offset \in Nat /\ b.size \in Nat /\ r.size \in Nat \ {0} /\ r.alignment \in Nat \ {0}
  BY DEF MemoryBlock
<1>2. p \in Nat /\ (b.data + b.offset + p) % r.alignment = 0
  BY <1>1, PaddingAligns, SMTT(20) DEF Padding
<1>3. p + r.size <= b.size - b.offset
  BY DEF Fits
<1> HIDE DEF p
<1>4. /\ Behind(b, r) = [data |-> b.data, offset |-> b.offset + p + r.size, size |-> b.size]
      /\ Place(b, r) = [at |-> b.data + b.offset + p, size |-> r.size, alignment |-> r.alignment]
  BY DEF Behind, Block, Place, p
<1> QED
  BY <1>1, <1>2, <1>3, <1>4 DEF MemoryBlock, Object

(* The sequence of blocks after its last element changed, and after a new  *)
(* block was added to it.                                                  *)
LEMMA LastReplaced ==
  ASSUME NEW s \in Seq(MemoryBlock), s # << >>, NEW b \in MemoryBlock
  PROVE  LET t == [s EXCEPT ![Len(s)] = b]
         IN  /\ t \in Seq(MemoryBlock) /\ t # << >>
             /\ Len(t) = Len(s) /\ DOMAIN t = 1 .. Len(s) /\ Len(s) \in 1 .. Len(s)
             /\ t[Len(s)] = b
             /\ \A i \in 1 .. Len(s) : i # Len(s) => t[i] = s[i]
<1> DEFINE t == [s EXCEPT ![Len(s)] = b]
<1>1. Len(s) \in Nat \ {0} /\ Len(s) \in 1 .. Len(s)
  BY EmptySeq
<1>2. /\ t \in Seq(MemoryBlock) /\ Len(t) = Len(s)
      /\ \A j \in 1 .. Len(s) : t[j] = IF j = Len(s) THEN b ELSE s[j]
  BY <1>1, ExceptSeq
<1> HIDE DEF t
<1>3. DOMAIN t = 1 .. Len(s) /\ t # << >>
  BY <1>1, <1>2, LenProperties, EmptySeq
<1>4. t[Len(s)] = b /\ \A i \in 1 .. Len(s) : i # Len(s) => t[i] = s[i]
  BY <1>1, <1>2
<1> QED
  BY <1>1, <1>2, <1>3, <1>4 DEF t

LEMMA BlockAdded ==
  ASSUME NEW s \in Seq(MemoryBlock), NEW b \in MemoryBlock
  PROVE  LET t == Append(s, b)
         IN  /\ t \in Seq(MemoryBlock) /\ t # << >>
             /\ Len(s) \in Nat /\ Len(t) = Len(s) + 1 /\ DOMAIN t = 1 .. Len(s) + 1 /\ DOMAIN s = 1 .. Len(s)
             /\ t[Len(s) + 1] = b
             /\ \A i \in 1 .. Len(s) : t[i] = s[i]
<1>1. Len(s) \in Nat /\ DOMAIN s = 1 .. Len(s)
  BY LenProperties
<1> QED
  BY <1>1, AppendProperties, EmptySeq

LEMMA FreshBlock ==
  ASSUME NEW data \in Address
  PROVE  /\ Fresh(data) \in Seq(MemoryBlock) /\ Fresh(data) # << >>
         /\ DOMAIN Fresh(data) = {1} /\ Len(Fresh(data)) = 1
         /\ Fresh(data)[1] = [data |-> data, offset |-> 0, size |-> BlockSize]
         /\ Fresh(data)[1].data \in Nat /\ Fresh(data)[1].offset = 0 /\ Fresh(data)[1].size \in Nat
  BY ArenaAssumption DEF Fresh, Block, MemoryBlock
-----------------------------------------------------------------------------
(* The steps on the blocks, one by one.                                    *)
LEMMA InitInductive == Init => Inductive
<1> SUFFICES ASSUME Init PROVE Inductive
  OBVIOUS
<1>1. PICK data \in Address : blocks = Fresh(data)
  BY DEF Init
<1>2. /\ blocks \in Seq(MemoryBlock) /\ blocks # << >> /\ DOMAIN blocks = {1}
      /\ blocks[1].offset = 0 /\ blocks[1].size \in Nat
  BY <1>1, FreshBlock
<1>3. objects = {} /\ request = NoRequest /\ calls = 0
  BY DEF Init
<1>4. TypeOK /\ Disjoint /\ SecondCallFits
  BY <1>2, <1>3 DEF TypeOK, Disjoint, SecondCallFits
<1>5. BlocksApart /\ InBlocks
  BY <1>2, <1>3 DEF BlocksApart, InBlocks
<1> QED
  BY <1>4, <1>5 DEF Inductive

LEMMA ResetInductive ==
  ASSUME Inductive, Reset PROVE Inductive'
<1>1. PICK data \in Address : blocks' = Fresh(data)
  BY DEF Reset
<1>2. /\ blocks' \in Seq(MemoryBlock) /\ blocks' # << >> /\ DOMAIN blocks' = {1}
      /\ blocks'[1].offset = 0 /\ blocks'[1].size \in Nat
  BY <1>1, FreshBlock
<1>3. objects' = {} /\ request' = request /\ calls' = 0
  BY DEF Reset
<1>4. TypeOK' /\ Disjoint' /\ SecondCallFits'
  BY <1>2, <1>3 DEF Inductive, TypeOK, Disjoint, SecondCallFits
<1>5. BlocksApart' /\ InBlocks'
  BY <1>2, <1>3 DEF BlocksApart, InBlocks
<1> QED
  BY <1>4, <1>5 DEF Inductive

LEMMA ResetOutOfMemoryInductive ==
  ASSUME Inductive, ResetOutOfMemory PROVE Inductive'
<1>1. blocks' = << >> /\ objects' = {} /\ request' = request /\ calls' = 0
  BY DEF ResetOutOfMemory
<1>2. blocks' \in Seq(MemoryBlock) /\ DOMAIN blocks' = {}
  BY <1>1, EmptySeq
<1>3. TypeOK' /\ Disjoint' /\ SecondCallFits'
  BY <1>1, <1>2 DEF Inductive, TypeOK, Disjoint, SecondCallFits
<1>4. BlocksApart' /\ InBlocks'
  BY <1>1, <1>2 DEF BlocksApart, InBlocks
<1> QED
  BY <1>3, <1>4 DEF Inductive

(* A call in progress has a last block.                                    *)
LEMMA LastIsBlock ==
  ASSUME Inductive, calls > 0
  PROVE  /\ blocks \in Seq(MemoryBlock) /\ blocks # << >>
         /\ Last \in MemoryBlock /\ Len(blocks) \in DOMAIN blocks
         /\ DOMAIN blocks = 1 .. Len(blocks) /\ Len(blocks) \in Nat
<1>1. blocks \in Seq(MemoryBlock) /\ blocks # << >>
  BY DEF Inductive, TypeOK
<1> QED
  BY <1>1, ElementOfSeq, EmptySeq, LenProperties DEF Last

LEMMA GrowInductive ==
  ASSUME Inductive, Grow PROVE Inductive'
<1> DEFINE size == GrownSize(request)
<1>1. PICK data \in Address : FreeFor(blocks, data, size) /\ blocks' = Append(blocks, Block(data, 0, size))
  BY DEF Grow
<1>2. request \in Request /\ request.size \in Nat \ {0} /\ request.alignment \in Nat \ {0}
  BY ArenaAssumption DEF Inductive, TypeOK, Grow
<1>3. size \in Nat /\ request.size + request.alignment <= size
  BY <1>2, ArenaAssumption DEF GrownSize
<1> HIDE DEF size
<1>4. data \in Nat /\ Block(data, 0, size) \in MemoryBlock
  BY <1>3, ArenaAssumption DEF Block, MemoryBlock
<1> DEFINE new == Block(data, 0, size)
<1>5. new.data = data /\ new.offset = 0 /\ new.size = size
  BY DEF Block
<1> HIDE DEF new
<1>6. /\ blocks' \in Seq(MemoryBlock) /\ blocks' # << >>
      /\ Len(blocks) \in Nat /\ Len(blocks') = Len(blocks) + 1
      /\ DOMAIN blocks' = 1 .. Len(blocks) + 1 /\ DOMAIN blocks = 1 .. Len(blocks)
      /\ blocks'[Len(blocks) + 1] = new
      /\ \A i \in 1 .. Len(blocks) : blocks'[i] = blocks[i] /\ blocks[i] \in MemoryBlock
  BY <1>1, <1>4, BlockAdded, ElementOfSeq DEF Inductive, TypeOK, new
<1>7. TypeOK'
  BY <1>2, <1>6 DEF Grow, Inductive, TypeOK
<1>8. BlocksApart'
  BY <1>1, <1>3, <1>4, <1>5, <1>6 DEF Inductive, BlocksApart, FreeFor
<1>9. InBlocks'
  <2>1. \A i \in DOMAIN blocks' : blocks'[i].offset <= blocks'[i].size
    BY <1>3, <1>5, <1>6 DEF Inductive, InBlocks
  <2>2. \A o \in objects : \E i \in DOMAIN blocks' : Within(o, blocks'[i])
    BY <1>6 DEF Inductive, InBlocks
  <2> QED
    BY <2>1, <2>2 DEF Grow, InBlocks
<1>10. Disjoint'
  BY DEF Grow, Inductive, Disjoint
<1>11. SecondCallFits'
  <2>1. calls = 1
    <3>1. CASE calls > 1
      <4>1. Last.offset = 0 /\ request.size + request.alignment <= Last.size
        BY <3>1 DEF Inductive, SecondCallFits
      <4>2. Last \in MemoryBlock
        BY LastIsBlock DEF Grow
      <4>3. Padding(Last, request.alignment) \in 0 .. request.alignment - 1
        BY <1>2, <4>2, PaddingAligns DEF Padding, MemoryBlock
      <4>4. Fits(Last, request)
        BY <1>2, <4>1, <4>2, <4>3 DEF Fits, MemoryBlock
      <4> QED
        BY <4>4 DEF Grow
    <3> QED
      BY <3>1 DEF Grow, Inductive, TypeOK
  <2>2. Last' = new
    BY <1>6 DEF Last
  <2> QED
    BY <1>3, <1>5, <2>1, <2>2 DEF Grow, SecondCallFits
<1> QED
  BY <1>7, <1>8, <1>9, <1>10, <1>11 DEF Inductive

(* The facts about AllocateHere that the invariant and the refinement need:*)
(* the new object is apart from all others.                                *)
LEMMA NewObjectApart ==
  ASSUME Inductive, AllocateHere
  PROVE  /\ Place(Last, request) \in Object
         /\ Place(Last, request).at % Place(Last, request).alignment = 0
         /\ \A o \in objects : \/ o.at + o.size <= Place(Last, request).at
                               \/ Place(Last, request).at + Place(Last, request).size <= o.at
<1>1. Last \in MemoryBlock /\ Len(blocks) \in DOMAIN blocks /\ DOMAIN blocks = 1 .. Len(blocks)
  BY LastIsBlock DEF AllocateHere
<1>2. Last.offset <= Last.size
  BY <1>1 DEF Inductive, InBlocks, Last
<1>3. request \in [size : Nat \ {0}, alignment : Nat \ {0}] /\ Fits(Last, request)
  BY ArenaAssumption DEF AllocateHere, Inductive, TypeOK
<1> DEFINE new == Place(Last, request)
           behind == Behind(Last, request)
<1>4. /\ new \in Object /\ new.at % new.alignment = 0
      /\ new.at >= Last.data + Last.offset
      /\ behind \in MemoryBlock
      /\ new.at + new.size = Last.data + behind.offset /\ behind.offset <= Last.size
  BY <1>1, <1>2, <1>3, PlacedInBlock
<1> HIDE DEF new, behind
<1>5. ASSUME NEW o \in objects
      PROVE  o.at + o.size <= new.at \/ new.at + new.size <= o.at
  <2>1. PICK i \in DOMAIN blocks : Within(o, blocks[i])
    BY DEF Inductive, InBlocks
  <2>2. blocks[i] \in MemoryBlock /\ blocks[i].offset <= blocks[i].size
    BY <1>1, ElementOfSeq DEF Inductive, TypeOK, InBlocks
  <2>3. o \in Object
    BY DEF Inductive, TypeOK
  <2>4. CASE i = Len(blocks)
    <3>1. o.at + o.size <= Last.data + Last.offset
      BY <2>1, <2>4 DEF Last, Within
    <3>2. o.at \in Nat /\ o.size \in Nat /\ new.at \in Nat
      BY <1>4, <2>3 DEF Object
    <3>3. Last.data \in Nat /\ Last.offset \in Nat
      BY <1>1, <2>2, <2>4 DEF Last, MemoryBlock
    <3> QED
      BY <1>4, <3>1, <3>2, <3>3
  <2>5. CASE i # Len(blocks)
    <3>1. \/ blocks[i].data + blocks[i].size <= Last.data
          \/ Last.data + Last.size <= blocks[i].data
      BY <1>1, <2>5 DEF Inductive, BlocksApart, Last
    <3>2. /\ o.at \in Nat /\ o.size \in Nat /\ new.at \in Nat /\ new.size \in Nat
          /\ Last.data \in Nat /\ Last.offset \in Nat /\ Last.size \in Nat /\ behind.offset \in Nat
          /\ blocks[i].data \in Nat /\ blocks[i].offset \in Nat /\ blocks[i].size \in Nat
      BY <1>1, <1>4, <2>2, <2>3 DEF MemoryBlock, Object
    <3>3. blocks[i].data <= o.at /\ o.at + o.size <= blocks[i].data + blocks[i].offset
      BY <2>1 DEF Within
    <3>4. Last.data <= new.at /\ new.at + new.size <= Last.data + Last.size
      BY <1>4, <3>2
    <3>5. o.at + o.size <= blocks[i].data + blocks[i].size
      BY <2>2, <3>2, <3>3
    <3> QED
      BY <3>1, <3>2, <3>3, <3>4, <3>5
  <2> QED
    BY <2>4, <2>5
<1> QED
  BY <1>4, <1>5 DEF new

LEMMA AllocateHereInductive ==
  ASSUME Inductive, AllocateHere PROVE Inductive'
<1> DEFINE n == Len(blocks)
           behind == Behind(Last, request)
           new == Place(Last, request)
<1>1. Last \in MemoryBlock /\ n \in DOMAIN blocks /\ DOMAIN blocks = 1 .. n /\ n \in Nat
  BY LastIsBlock DEF AllocateHere
<1>2. Last.offset <= Last.size
  BY <1>1 DEF Inductive, InBlocks, Last
<1>3. request \in [size : Nat \ {0}, alignment : Nat \ {0}] /\ Fits(Last, request)
  BY ArenaAssumption DEF AllocateHere, Inductive, TypeOK
<1>4. /\ behind \in MemoryBlock
      /\ behind.data = Last.data /\ behind.size = Last.size
      /\ Last.offset <= behind.offset /\ behind.offset <= Last.size
      /\ new \in Object /\ new.at >= Last.data + Last.offset
      /\ new.at + new.size = Last.data + behind.offset
  BY <1>1, <1>2, <1>3, PlacedInBlock
<1>5. blocks' = [blocks EXCEPT ![n] = behind] /\ objects' = objects \cup {new} /\ request' = NoRequest /\ calls' = 0
  BY DEF AllocateHere
<1>6. \A o \in objects : o.at + o.size <= new.at \/ new.at + new.size <= o.at
  BY NewObjectApart
<1> HIDE DEF behind, new
<1>7. /\ blocks' \in Seq(MemoryBlock) /\ blocks' # << >>
      /\ DOMAIN blocks' = 1 .. n
      /\ blocks'[n] = behind
      /\ \A i \in 1 .. n : i # n => blocks'[i] = blocks[i]
  <2>1. blocks \in Seq(MemoryBlock) /\ blocks # << >>
    BY DEF AllocateHere, Inductive, TypeOK
  <2> QED
    BY <1>4, <1>5, <2>1, LastReplaced
<1>8. \A i \in 1 .. n : blocks'[i].data = blocks[i].data /\ blocks'[i].size = blocks[i].size
  BY <1>1, <1>4, <1>7 DEF Last
<1>9. TypeOK'
  <2>1. objects' \subseteq Object
    BY <1>4, <1>5 DEF Inductive, TypeOK
  <2>2. request' = NoRequest /\ calls' \in Nat /\ ~(calls' > 0)
    BY <1>5
  <2> QED
    BY <1>7, <2>1, <2>2 DEF TypeOK
<1>10. BlocksApart'
  BY <1>1, <1>7, <1>8 DEF Inductive, BlocksApart
<1>11. InBlocks'
  <2>1. \A i \in DOMAIN blocks' : blocks'[i].offset <= blocks'[i].size
    BY <1>1, <1>4, <1>7 DEF Inductive, InBlocks, Last
  <2>2. ASSUME NEW o \in objects PROVE \E i \in DOMAIN blocks' : Within(o, blocks'[i])
    <3>1. PICK i \in DOMAIN blocks : Within(o, blocks[i])
      BY DEF Inductive, InBlocks
    <3>2. CASE i = n
      <4>1. o \in Object /\ o.at \in Nat /\ o.size \in Nat
        BY DEF Inductive, TypeOK, Object
      <4>2. Last.data \in Nat /\ Last.offset \in Nat /\ behind.offset \in Nat
        BY <1>1, <1>4 DEF MemoryBlock
      <4>3. Last.data <= o.at /\ o.at + o.size <= Last.data + Last.offset
        BY <3>1, <3>2 DEF Within, Last
      <4>4. o.at + o.size <= Last.data + behind.offset
        BY <1>4, <4>1, <4>2, <4>3
      <4>5. Within(o, behind)
        BY <1>4, <4>3, <4>4 DEF Within
      <4> QED
        BY <1>1, <1>7, <4>5
    <3>3. CASE i # n
      BY <1>1, <1>7, <3>1, <3>3
    <3> QED
      BY <3>2, <3>3
  <2>3. Within(new, blocks'[n])
    <3>1. /\ new.at \in Nat /\ new.size \in Nat
          /\ Last.data \in Nat /\ Last.offset \in Nat /\ behind.offset \in Nat
      BY <1>1, <1>4 DEF MemoryBlock, Object
    <3>2. Within(new, behind)
      BY <1>4, <3>1 DEF Within
    <3> QED
      BY <1>7, <3>2
  <2> QED
    BY <1>1, <1>5, <1>7, <2>1, <2>2, <2>3 DEF InBlocks
<1>12. Disjoint'
  BY <1>5, <1>6 DEF Inductive, Disjoint
<1>13. SecondCallFits'
  BY <1>5 DEF SecondCallFits
<1> QED
  BY <1>9, <1>10, <1>11, <1>12, <1>13 DEF Inductive

(* The steps that leave the blocks alone.                                  *)
LEMMA CallsInductive ==
  ASSUME Inductive, (\E r \in Request : Allocate(r)) \/ OutOfMemory \/ UNCHANGED vars
  PROVE  Inductive'
<1>1. CASE \E r \in Request : Allocate(r)
  BY <1>1 DEF Allocate, Inductive, TypeOK, BlocksApart, InBlocks, Disjoint, SecondCallFits, Last
<1>2. CASE OutOfMemory
  BY <1>2 DEF OutOfMemory, Inductive, TypeOK, BlocksApart, InBlocks, Disjoint, SecondCallFits, Last
<1>3. CASE UNCHANGED vars
  BY <1>3 DEF vars, Inductive, TypeOK, BlocksApart, InBlocks, Disjoint, SecondCallFits, Last
<1> QED
  BY <1>1, <1>2, <1>3
-----------------------------------------------------------------------------
(* The invariant: blocks and objects lie apart, objects in their blocks,   *)
(* and the second call of allocate() is the last.                          *)
THEOREM ArenaInvariant == Spec => []Inductive
<1>1. Inductive /\ [Next]_vars => Inductive'
  BY ResetInductive, ResetOutOfMemoryInductive, GrowInductive, AllocateHereInductive, CallsInductive DEF Next
<1> QED
  BY InitInductive, <1>1, PTL DEF Spec

(* No two objects of an arena share memory.                                *)
THEOREM ObjectsAreDisjoint == Spec => []Disjoint
<1>1. Inductive => Disjoint
  BY DEF Inductive
<1> QED
  BY <1>1, ArenaInvariant, PTL

(* Every object lies in a block, in front of what is handed out next.      *)
THEOREM ObjectsAreInBlocks == Spec => []InBlocks
<1>1. Inductive => InBlocks
  BY DEF Inductive
<1> QED
  BY <1>1, ArenaInvariant, PTL

(* The recursion of allocate() is at most one call deep.                   *)
THEOREM AllocateGrowsOnce == Spec => []GrowsOnce
<1>1. Inductive => GrowsOnce
  BY DEF Inductive, TypeOK, SecondCallFits, GrowsOnce
<1> QED
  BY <1>1, ArenaInvariant, PTL

(* Every object is where its type may be, wherever the heap puts blocks.   *)
THEOREM ObjectsAreAligned == Spec => []Aligned
<1>1. Init => Aligned
  BY DEF Init, Aligned
<1>2. Aligned /\ Inductive /\ [Next]_vars => Aligned'
  <2> SUFFICES ASSUME Aligned, Inductive, [Next]_vars PROVE Aligned'
    OBVIOUS
  <2>1. CASE AllocateHere
    BY <2>1, NewObjectApart DEF AllocateHere, Aligned
  <2>2. CASE Reset \/ ResetOutOfMemory
    BY <2>2 DEF Reset, ResetOutOfMemory, Aligned
  <2>3. CASE (\E r \in Request : Allocate(r)) \/ Grow \/ OutOfMemory \/ UNCHANGED vars
    BY <2>3 DEF Allocate, Grow, OutOfMemory, vars, Aligned
  <2> QED
    BY <2>1, <2>2, <2>3 DEF Next
<1> QED
  BY <1>1, <1>2, ArenaInvariant, PTL DEF Spec

(* An arena is an allocator: it gives the memory of an object to nobody    *)
(* else until it is reset.                                                 *)
THEOREM ArenaAllocates == Spec => Allocates
<1> DEFINE live == {RegionOf(o) : o \in objects}
<1>1. Init => Allocator!Init
  BY DEF Init, Allocator!Init
<1>2. Inductive /\ [Next]_vars => [Allocator!Next]_live
  <2> SUFFICES ASSUME Inductive, [Next]_vars PROVE [Allocator!Next]_live
    OBVIOUS
  <2>1. CASE AllocateHere
    <3> DEFINE new == Place(Last, request)
    <3>1. objects' = objects \cup {new}
      BY <2>1 DEF AllocateHere
    <3>2. live' = live \cup {RegionOf(new)}
      BY <3>1
    <3>3. \A o \in objects : o.at + o.size <= new.at \/ new.at + new.size <= o.at
      BY <2>1, NewObjectApart
    <3>4. \A s \in live : Allocator!Apart(RegionOf(new), s)
      BY <3>3 DEF Allocator!Apart, RegionOf
    <3>5. Allocator!Give(RegionOf(new))
      BY <3>2, <3>4 DEF Allocator!Give
    <3>6. RegionOf(new) \in live'
      BY <3>2
    <3> QED
      BY <3>5, <3>6 DEF Allocator!Next
  <2>2. CASE Reset \/ ResetOutOfMemory
    <3>1. live' = {}
      BY <2>2 DEF Reset, ResetOutOfMemory
    <3> QED
      BY <3>1 DEF Allocator!Next, Allocator!ReleaseAll
  <2>3. CASE (\E r \in Request : Allocate(r)) \/ Grow \/ OutOfMemory \/ UNCHANGED vars
    BY <2>3 DEF Allocate, Grow, OutOfMemory, vars
  <2> QED
    BY <2>1, <2>2, <2>3 DEF Next
<1> QED
  BY <1>1, <1>2, ArenaInvariant, PTL DEF Spec, Allocates, Allocator!Spec
=============================================================================
