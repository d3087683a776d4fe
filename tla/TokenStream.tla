----------------------------- MODULE TokenStream -----------------------------
(***************************************************************************)
(* TokenStream of core/token: the tokens of one file, what is next, and a  *)
(* stack of checkpoints.  A token is its kind, written as in the source.   *)
(* pos counts the tokens consumed, so token number pos is the last one and *)
(* pos + 1 the current one; a checkpoint is the position it was made at.   *)
(* (last_token_ is written and never read, and is left out.)               *)
(***************************************************************************)
EXTENDS Naturals, Sequences

CONSTANTS NewLine,  \* TokenKind::NEW_LINE, the only trivia
          EndOfFile \* the kind of what is past the last token

VARIABLES tokens, pos, checkpoints

stream == <<tokens, pos, checkpoints>>

(* kind(distance), is_end().                                               *)
Kind(distance) ==
  IF pos + distance < Len(tokens) THEN tokens[pos + distance + 1] ELSE EndOfFile
IsEnd == pos >= Len(tokens)

(* Where a loop stops that consumes tokens as long as they go on.          *)
PastAll(GoesOn(_)) ==
  CHOOSE p \in pos .. Len(tokens) :
    /\ \A i \in pos + 1 .. p : GoesOn(tokens[i])
    /\ p < Len(tokens) => ~GoesOn(tokens[p + 1])
PastTrivia == PastAll(LAMBDA k : k = NewLine)

(* Calls of consume(); at the end it does nothing.                         *)
Consume == IF IsEnd THEN pos ELSE pos + 1

(* add_checkpoint() and rollback_checkpoint().                             *)
AddCheckpoint == checkpoints' = Append(checkpoints, pos) /\ UNCHANGED <<tokens, pos>>
Kept == SubSeq(checkpoints, 1, Len(checkpoints) - 1)
Rollback ==
  /\ checkpoints # << >>
  /\ pos' = checkpoints[Len(checkpoints)]
  /\ checkpoints' = Kept
  /\ UNCHANGED tokens

StreamInit == pos = 0 /\ checkpoints = << >>
=============================================================================
