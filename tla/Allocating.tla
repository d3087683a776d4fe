------------------------------ MODULE Allocating ------------------------------
(***************************************************************************)
(* What an allocator of objects promises: the memory it hands out belongs  *)
(* to one object until everything is given back at once.                   *)
(***************************************************************************)
EXTENDS Naturals

VARIABLE live \* the places in memory that objects have, each [at, size]

Apart(r, s) == r.at + r.size <= s.at \/ s.at + s.size <= r.at

Init == live = {}
Give(r) == (\A s \in live : Apart(r, s)) /\ live' = live \cup {r}
ReleaseAll == live' = {}
Next == (\E r \in live' : Give(r)) \/ ReleaseAll
Spec == Init /\ [][Next]_live
=============================================================================
