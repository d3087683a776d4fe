--------------------------------- MODULE Arena --------------------------------
(***************************************************************************)
(* core::memory::Arena: objects are put one after the other in the last    *)
(* block, at the alignment of their type; when it is full, a new block is  *)
(* made and allocate() calls itself.  Nothing is freed but by reset().     *)
(***************************************************************************)
EXTENDS Naturals, Sequences

CONSTANTS BlockSize, \* DEFAULT_BLOCK_SIZE
          Request,   \* [size, alignment]: sizeof and alignof of a type
          Address    \* where the heap may put a block

ASSUME ArenaAssumption ==
  /\ BlockSize \in Nat
  /\ Request \subseteq [size : Nat \ {0}, alignment : Nat \ {0}]
  /\ Address \subseteq Nat

VARIABLES blocks,  \* ArenaBlock: address of the data, offset of its free part, size
          objects, \* [at, size, alignment] of the objects made since the last reset
          request, \* the arguments of allocate()
          calls    \* how many calls of allocate() are in progress

vars == <<blocks, objects, request, calls>>

Block(data, offset, size) == [data |-> data, offset |-> offset, size |-> size]
NoRequest == [size |-> 0, alignment |-> 1]
Last == blocks[Len(blocks)]

(* operator new: anywhere outside the blocks there are.                    *)
FreeFor(bs, data, size) ==
  \A i \in DOMAIN bs : data + size <= bs[i].data \/ bs[i].data + bs[i].size <= data

Fresh(data) == <<Block(data, 0, BlockSize)>>

Init ==
  /\ \E data \in Address : blocks = Fresh(data)
  /\ objects = {}
  /\ request = NoRequest /\ calls = 0
-----------------------------------------------------------------------------
(* back() of an arena without a block is undefined.  Nothing catches the   *)
(* exception that leaves one behind (ResetOutOfMemory), so nobody comes to *)
(* ask it for an object.                                                   *)
Allocate(r) ==
  /\ calls = 0 /\ blocks # << >>
  /\ request' = r /\ calls' = 1
  /\ UNCHANGED <<blocks, objects>>

(* std::align: what has to be skipped at an address for an alignment, if   *)
(* the object then fits in the space that is left.                         *)
PaddingFromBlock(b, alignment) == \* Variant: aligns the offset and not the address.
  (alignment - (b.offset % alignment)) % alignment
Padding(b, alignment) == (alignment - ((b.data + b.offset) % alignment)) % alignment
Fits(b, r) == Padding(b, r.alignment) + r.size <= b.size - b.offset

Place(b, r) == [at |-> b.data + b.offset + Padding(b, r.alignment), size |-> r.size, alignment |-> r.alignment]
BehindUnpadded(b, r) == Block(b.data, b.offset + r.size, b.size) \* Variant: moves on by the size alone.
Behind(b, r) == Block(b.data, b.offset + Padding(b, r.alignment) + r.size, b.size)

AllocateHere ==
  /\ calls > 0
  /\ Fits(Last, request)
  /\ blocks' = [blocks EXCEPT ![Len(blocks)] = Behind(Last, request)]
  /\ objects' = objects \cup {Place(Last, request)}
  /\ request' = NoRequest /\ calls' = 0

(* A block of the default size, or one large enough for the object however *)
(* the heap aligns it.                                                     *)
GrownToSize(r) == IF r.size > BlockSize THEN r.size ELSE BlockSize \* Variant: forgets the alignment.
GrownSize(r) == IF r.size + r.alignment > BlockSize THEN r.size + r.alignment ELSE BlockSize
Grow ==
  /\ calls > 0
  /\ ~Fits(Last, request)
  /\ LET size == GrownSize(request)
     IN  \E data \in Address :
           /\ FreeFor(blocks, data, size)
           /\ blocks' = Append(blocks, Block(data, 0, size))
  /\ calls' = calls + 1
  /\ UNCHANGED <<objects, request>>

(* The heap may refuse: std::bad_alloc leaves through all the calls.       *)
OutOfMemory ==
  /\ calls > 0
  /\ ~Fits(Last, request)
  /\ request' = NoRequest /\ calls' = 0
  /\ UNCHANGED <<blocks, objects>>

Reset ==
  /\ calls = 0
  /\ \E data \in Address : blocks' = Fresh(data)
  /\ objects' = {}
  /\ UNCHANGED <<request, calls>>

(* The heap may refuse here as well, when the blocks are already gone.     *)
ResetOutOfMemory ==
  /\ calls = 0
  /\ blocks' = << >> /\ objects' = {}
  /\ UNCHANGED <<request, calls>>

Next == (\E r \in Request : Allocate(r)) \/ AllocateHere \/ Grow \/ OutOfMemory \/ Reset \/ ResetOutOfMemory
Spec == Init /\ [][Next]_vars
-----------------------------------------------------------------------------
MemoryBlock == [data : Nat, offset : Nat, size : Nat]
Object == [at : Nat, size : Nat \ {0}, alignment : Nat \ {0}]
TypeOK ==
  /\ blocks \in Seq(MemoryBlock)
  /\ objects \subseteq Object
  /\ calls \in Nat
  /\ request = NoRequest \/ request \in Request
  /\ calls > 0 => request \in Request /\ blocks # << >>

(* No two objects have a byte in common, in whichever blocks they are.     *)
Disjoint ==
  \A o, p \in objects : o # p => o.at + o.size <= p.at \/ p.at + p.size <= o.at

(* Every object lies within a block, before the part that is handed out    *)
(* next.                                                                   *)
Within(o, b) == b.data <= o.at /\ o.at + o.size <= b.data + b.offset
InBlocks ==
  /\ \A i \in DOMAIN blocks : blocks[i].offset <= blocks[i].size
  /\ \A o \in objects : \E i \in DOMAIN blocks : Within(o, blocks[i])

(* Every object is at an address that its type allows, wherever the heap   *)
(* puts the blocks.                                                        *)
Aligned == \A o \in objects : o.at % o.alignment = 0

(* allocate() calls itself once at most: a new block is large enough.      *)
GrowsOnce == calls <= 2

(* The parts of the invariant that the proofs rest on: blocks have no byte *)
(* in common, and the second call of allocate() has a block of its own.    *)
BlocksApart ==
  \A i, j \in DOMAIN blocks : i # j =>
    \/ blocks[i].data + blocks[i].size <= blocks[j].data
    \/ blocks[j].data + blocks[j].size <= blocks[i].data
SecondCallFits ==
  calls > 1 => /\ calls = 2
               /\ Last.offset = 0
               /\ request.size + request.alignment <= Last.size
Inductive == TypeOK /\ BlocksApart /\ InBlocks /\ Disjoint /\ SecondCallFits

(* The promise of an allocator.                                            *)
RegionOf(o) == [at |-> o.at, size |-> o.size]
Allocator == INSTANCE Allocating WITH live <- {RegionOf(o) : o \in objects}
Allocates == Allocator!Spec
=============================================================================
