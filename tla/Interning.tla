------------------------------- MODULE Interning ------------------------------
(***************************************************************************)
(* What a table of types promises: whoever asks for a type twice gets the  *)
(* same id, nobody else ever gets that id, and what an id was given out for*)
(* never changes.  Two types may then be compared by comparing their ids.  *)
(***************************************************************************)
CONSTANTS Key, \* what a type is asked for by
          Id   \* what stands for a type

VARIABLE given \* the pairs <<key, id>> that have been given out

Init == given = {}
Give(key, id) ==
  /\ \A pair \in given : pair[1] # key /\ pair[2] # id
  /\ given' = given \cup {<<key, id>>}
Next == \E key \in Key, id \in Id : Give(key, id)
Spec == Init /\ [][Next]_given
=============================================================================
