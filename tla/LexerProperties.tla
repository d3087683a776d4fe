---------------------------- MODULE LexerProperties ---------------------------
(***************************************************************************)
(* What the tokens of a source are, stated on its bytes.                   *)
(***************************************************************************)
EXTENDS Lexer, FiniteSets

(* UTF-8: a leading byte and its tail come together.                       *)
WellFormed ==
  /\ \A k \in DOMAIN text : (text[k] = "lead") = (k < Len(text) /\ text[k + 1] = "tail")
  /\ text # << >> => text[1] # "tail"

Least(S, otherwise) == IF S = {} THEN otherwise ELSE CHOOSE k \in S : \A j \in S : k <= j
End == Len(text)
Byte(k) == text[k + 1] \* the byte at offset k
Wordlike == {"i", "f", "n", "lead", "tail", "underscore", "1"}

(* The first quote after the one at b that an even number of backslashes   *)
(* precedes.                                                               *)
Backslashes(b, k) == k - Least({j \in b + 1 .. k : \A i \in j .. k - 1 : Byte(i) = "\\"}, k)
Closing(b) == Least({k \in b + 1 .. End - 1 : Byte(k) = Byte(b) /\ Backslashes(b, k) % 2 = 0}, End)

CommentEnd(b) ==
  IF Byte(b + 1) = "/" THEN Least({k \in b + 2 .. End - 1 : Byte(k) = "nl"}, End)
  ELSE Least({k + 2 : k \in {j \in b + 2 .. End - 2 : Byte(j) = "*" /\ Byte(j + 1) = "/"}}, End)
IsComment(b) == b + 1 < End /\ Byte(b) = "/" /\ Byte(b + 1) \in {"/", "*"}
Fits(o, b) == b + Len(o) <= End /\ SubSeq(text, b + 1, b + Len(o)) = o

(* Nothing between b and e is a token: there are only blanks, comments,    *)
(* characters of no token, and a string without an end.  Such a gap is cut *)
(* at places from each of which one of these leads to another.             *)
Vacant(c, d) ==
  \/ IsComment(c) /\ d = CommentEnd(c)
  \/ Byte(c) \in Quote /\ Closing(c) = End /\ d = End
  \/ /\ ~IsComment(c) /\ Byte(c) \notin Quote \cup Wordlike \cup {"nl"}
     /\ ~\E o \in Operators : Fits(o, c)
     /\ d = c + 1
Void(b, e) ==
  \E cuts \in SUBSET (b .. e) :
    /\ b \in cuts /\ e \in cuts
    /\ \A c \in cuts \ {e} : \E d \in cuts : c < d /\ Vacant(c, d)

(* The extent of a token, with the quotes of a string.                     *)
From(t) == IF t.kind = "string" THEN t.begin.offset - 1 ELSE t.begin.offset
To(t) == IF t.kind = "string" THEN t.end.offset + 1 ELSE t.end.offset
-----------------------------------------------------------------------------
(* The variables keep their types; only half a character at the end takes  *)
(* the stream beyond it.                                                   *)
Beyond == IF End > 0 /\ text[End] = "lead" THEN 1 ELSE 0
Position == [offset : 0 .. End + Beyond, line : 1 .. End + 1, column : 1 .. End + 1]
TypeOK ==
  /\ position \in Position
  /\ tokens \in Seq([kind : {"string", "number", "identifier", "keyword", "newline", "operator"}, begin : Position, end : Position])

(* What is not in a token is nothing, and tokens come in the order of the  *)
(* text without overlapping: the lexer drops characters silently           *)
(* (Lexer.hpp:60), but only those.                                         *)
Reach(i) == IF i = 0 THEN 0 ELSE To(tokens[i])
NothingLost ==
  WellFormed =>
    /\ \A i \in DOMAIN tokens : Void(Reach(i - 1), From(tokens[i]))
    /\ Void(Reach(Len(tokens)), position.offset)

(* A token is as long as it can be: a string up to its own quote, a word   *)
(* and a number to their last character, an operator to the longest.       *)
Inside(b, e) == {Byte(k) : k \in b .. e - 1}
Following(e) == IF e < End THEN Byte(e) ELSE Nothing
LongestNumber(b, e) ==
  /\ Inside(b, e) \subseteq Digit \cup {"."} /\ Byte(b) \in Digit
  /\ \A j, k \in b .. e - 1 : Byte(j) = "." /\ Byte(k) = "." => j = k
  /\ Following(e) \notin Digit /\ (Following(e) = "." => "." \in Inside(b, e))
LongestWord(b, e) == Inside(b, e) \subseteq Wordlike /\ Byte(b) \notin Digit /\ Following(e) \notin Wordlike
LongestOperator(b, e) ==
  /\ SubSeq(text, b + 1, e) \in Operators
  /\ ~\E o \in Operators : Fits(o, b) /\ Len(o) > e - b
Longest(kind, b, e) ==
  CASE kind = "string" -> Closing(b - 1) = e
    [] kind = "number" -> LongestNumber(b, e)
    [] kind \in {"identifier", "keyword"} ->
         LongestWord(b, e) /\ (kind = "keyword") = (SubSeq(text, b + 1, e) \in Keywords)
    [] OTHER -> (kind = "newline" /\ e = b + 1 /\ Byte(b) = "nl") \/ LongestOperator(b, e)
LongestMatch ==
  WellFormed => \A i \in DOMAIN tokens : Longest(tokens[i].kind, tokens[i].begin.offset, tokens[i].end.offset)

(* SourceBuffer cuts the text into lines by itself: where they begin.      *)
LineStarts == {k \in 0 .. End - 1 : k = 0 \/ Byte(k - 1) = "nl"}
HasLine(k) == k < End \/ (End > 0 /\ Byte(End - 1) # "nl")

(* The line by which a place goes is one more than the newlines before it, *)
(* its column counts characters from the last of them, and the line that   *)
(* SourceBuffer has at that number is the one the place is on, which is how*)
(* diagnostics find it; only behind a final newline, or in no text, there  *)
(* is none, and the number is the next (SourceBuffer.hpp:19).              *)
Ended(k) == {j \in 0 .. k - 1 : Byte(j) = "nl"}
OnLine(k) == {j \in 0 .. k - 1 : Byte(j) # "tail" /\ \A i \in j .. k - 1 : Byte(i) # "nl"}
Counted(p) ==
  /\ p.line = 1 + Cardinality(Ended(p.offset))
  /\ p.column = 1 + Cardinality(OnLine(p.offset))
Found(p) ==
  IF HasLine(p.offset)
  THEN \E start \in LineStarts :
         /\ p.line = 1 + Cardinality({s \in LineStarts : s < start})
         /\ start <= p.offset /\ \A j \in start .. p.offset - 1 : Byte(j) # "nl"
  ELSE p.line = 1 + Cardinality(LineStarts)
LinesAgree ==
  WellFormed =>
    /\ Counted(position) /\ Found(position)
    /\ \A i \in DOMAIN tokens : \A p \in {tokens[i].begin, tokens[i].end} : Counted(p) /\ Found(p)
=============================================================================
