-------------------------------- MODULE MCArena -------------------------------
(***************************************************************************)
(* A small instance of Arena: blocks of four bytes in a small memory,  *)
(* at even addresses.  A word and a page are aligned to more than the heap *)
(* aligns its blocks to; an array is larger than a block.                  *)
(***************************************************************************)
EXTENDS Arena

Byte  == [size |-> 1, alignment |-> 1]
Pair  == [size |-> 3, alignment |-> 2]
Word  == [size |-> 2, alignment |-> 4]
Array == [size |-> 5, alignment |-> 1]
Page  == [size |-> 4, alignment |-> 4]

SmallRequests == {Byte, Pair, Word, Array, Page}
EvenAddresses == {2 * n : n \in 0 .. 6}
=============================================================================
