--------------------------------- MODULE Lexer --------------------------------
(***************************************************************************)
(* Lexer::tokenize over the bytes of a source: one action for each way a   *)
(* round of its loop can end.  A byte is named by its character; "lead" and*)
(* "tail" are the bytes of a letter outside ASCII and "nl" ends a line.  A *)
(* position is what TextStream keeps.                                      *)
(***************************************************************************)
EXTENDS Naturals, Sequences

CONSTANTS Texts,    \* the sources
          Operators,\* the punctuation and operators of TokenTable, "\n" included
          Keywords  \* its keywords

(* No character of the tables is more than a byte, a keyword begins with a *)
(* letter, and no operator with a blank.  A byte is not a letter before it *)
(* is decoded.                                                             *)
ASSUME TablesAssumption ==
  /\ Texts \subseteq Seq(STRING) /\ Operators \cup Keywords \subseteq Seq(STRING)
  /\ \A t \in Texts : "letter" \notin {t[k] : k \in DOMAIN t}
  /\ \A o \in Operators \cup Keywords : o # << >> /\ {o[k] : k \in DOMAIN o} \cap {"lead", "tail", "letter", "nul"} = {}
  /\ \A o \in Operators : o[1] # "blank"
  /\ \A w \in Keywords : w[1] \in {"i", "f", "n", "underscore"}

VARIABLES text, position, tokens

vars == <<text, position, tokens>>

Space == {"blank"}
Digit == {"1"}
Letter == {"i", "f", "n", "letter"}
Quote == {"quote", "'"}
Nothing == "nul"
-----------------------------------------------------------------------------
(* TextStream and Utf8: what follows a leading byte is not looked at.      *)
Eof(p) == p.offset >= Len(text)
SizeAt(offset) == IF text[offset + 1] = "lead" THEN 2 ELSE 1
CharAt(offset) ==
  IF offset >= Len(text) THEN Nothing ELSE IF text[offset + 1] = "lead" THEN "letter" ELSE text[offset + 1]
Peek(p) == CharAt(p.offset)

AdvanceOver(p) == \* Variant: moves on at the end, too.
  IF Eof(p) THEN [p EXCEPT !.offset = @ + 1, !.column = @ + 1]
  ELSE IF Peek(p) = "nl" THEN [offset |-> p.offset + 1, line |-> p.line + 1, column |-> 1]
  ELSE [p EXCEPT !.offset = @ + SizeAt(@), !.column = @ + 1]
AdvanceByte(p) == \* Variant: the column counts the bytes.
  IF Eof(p) THEN p
  ELSE IF Peek(p) = "nl" THEN [offset |-> p.offset + 1, line |-> p.line + 1, column |-> 1]
  ELSE [p EXCEPT !.offset = @ + SizeAt(@), !.column = @ + SizeAt(p.offset)]
Advance(p) ==
  IF Eof(p) THEN p
  ELSE IF Peek(p) = "nl" THEN [offset |-> p.offset + 1, line |-> p.line + 1, column |-> 1]
  ELSE [p EXCEPT !.offset = @ + SizeAt(@), !.column = @ + 1]

AdvanceN(p, n) == LET after[i \in 0 .. n] == IF i = 0 THEN p ELSE Advance(after[i - 1]) IN after[n]
PeekN(p, n) == Peek(AdvanceN(p, n))

(* The loops of the match functions: from a state by way of move to the    *)
(* first of stop.                                                          *)
Place == [offset : Nat, line : Nat, column : Nat]
Until(states, stop, move, state) ==
  LET from[s \in states] == IF s \in stop THEN s ELSE from[move[s]] IN from[state]
Characters == [p \in Place |-> Advance(p)]
-----------------------------------------------------------------------------
(* match_comment: any number of comments; one that is not closed goes to   *)
(* the end.                                                                *)
Pair(p, first, second) == Peek(p) = first /\ PeekN(p, 1) = second
AfterLine(p) == Until(Place, {q \in Place : Peek(q) = "nl" \/ Eof(q)}, Characters, p)
BlockEnd(p) == Until(Place, {q \in Place : Eof(q) \/ Pair(q, "*", "/")}, Characters, p)
AfterBlockShort(p) == \* Variant: the slash of the end is left.
  LET end == BlockEnd(p) IN IF Eof(end) THEN end ELSE Advance(end)
AfterBlock(p) ==
  LET end == BlockEnd(p) IN IF Eof(end) THEN end ELSE AdvanceN(end, 2)
AfterComment(p) ==
  IF Pair(p, "/", "/") THEN AfterLine(AdvanceN(p, 2)) ELSE AfterBlock(AdvanceN(p, 2))
AfterComments(p) ==
  Until(Place, {q \in Place : ~Pair(q, "/", "/") /\ ~Pair(q, "/", "*")}, [q \in Place |-> AfterComment(q)], p)

(* match_string: the place of the closing quote, or the end.  A backslash  *)
(* takes the next character with it.                                       *)
StringEnd(p, quote) ==
  Until(Place, {q \in Place : Eof(q) \/ Peek(q) = quote},
        [q \in Place |-> IF Peek(q) = "\\" THEN AdvanceN(q, 2) ELSE Advance(q)], p)

(* match_number: one dot, wherever it stands after the first digit.        *)
DigitsEnd(p) == Until(Place, {q \in Place : Peek(q) \notin Digit}, Characters, p)
NumberEnd(p) ==
  LET whole == DigitsEnd(p) IN IF Peek(whole) = "." THEN DigitsEnd(Advance(whole)) ELSE whole

(* match_identifier: a slice that goes past the end, where get_view does   *)
(* not assert, has the terminating zero in it and names no keyword.        *)
IdentifierEnd(p) ==
  Until(Place, {q \in Place : Peek(q) \notin Letter \cup Digit \cup {"underscore"}}, Characters, p)
IdentifierKind(begin, end) ==
  IF end.offset <= Len(text) /\ SubSeq(text, begin.offset + 1, end.offset) \in Keywords THEN "keyword" ELSE "identifier"

(* find_operator: down the trie as far as it goes; the last entry passed.  *)
(* A node of the trie is the beginning of a key.                           *)
Begins(key) == \E o \in Operators \cup Keywords : Len(key) <= Len(o) /\ SubSeq(o, 1, Len(key)) = key
Ahead(p, n) == [i \in 1 .. n |-> PeekN(p, i - 1)]
FindFirst(p) == \* Variant: the shortest entry is taken.
  IF Ahead(p, 1) \in Operators THEN Ahead(p, 1)
  ELSE IF Ahead(p, 2) \in Operators THEN Ahead(p, 2) ELSE << >>
Walk == [depth : Nat, best : Nat]
FindOperator(p) ==
  LET last == Until(Walk,
        {w \in Walk : PeekN(p, w.depth) = Nothing \/ ~Begins(Ahead(p, w.depth + 1))},
        [w \in Walk |->
          [depth |-> w.depth + 1,
           best |-> IF Ahead(p, w.depth + 1) \in Operators \cup Keywords THEN w.depth + 1 ELSE w.best]],
        [depth |-> 0, best |-> 0])
  IN  Ahead(p, last.best)
OperatorKind(o) == IF o = <<"\\", "n">> THEN "newline" ELSE "operator"
-----------------------------------------------------------------------------
Init ==
  /\ text \in Texts
  /\ position = [offset |-> 0, line |-> 1, column |-> 1]
  /\ tokens = << >>

Emit(kind, begin, end) == tokens' = Append(tokens, [kind |-> kind, begin |-> begin, end |-> end])
Blank == Peek(position) \in Space
Start == AfterComments(position)
Matching == ~Eof(position) /\ ~Blank /\ UNCHANGED text

SkipSpace == ~Eof(position) /\ Blank /\ position' = Advance(position) /\ UNCHANGED <<text, tokens>>

(* The slice is what stands between the quotes.                            *)
MatchString ==
  LET begin == Advance(Start) end == StringEnd(begin, Peek(Start))
  IN  /\ Matching /\ Peek(Start) \in Quote /\ ~Eof(end)
      /\ Emit("string", begin, end)
      /\ position' = Advance(end)

(* A string that is not closed takes the rest of the source and leaves no  *)
(* token and no diagnostic.                                                *)
SwallowString ==
  LET end == StringEnd(Advance(Start), Peek(Start))
  IN  Matching /\ Peek(Start) \in Quote /\ Eof(end) /\ position' = end /\ UNCHANGED tokens

MatchNumber ==
  /\ Matching /\ Peek(Start) \in Digit
  /\ position' = NumberEnd(Start)
  /\ Emit("number", Start, position')

MatchIdentifier ==
  /\ Matching /\ Peek(Start) \in Letter \cup {"underscore"}
  /\ position' = IdentifierEnd(Start)
  /\ Emit(IdentifierKind(Start, position'), Start, position')

MatchNewLine ==
  /\ Matching /\ Peek(Start) = "nl"
  /\ position' = Advance(Start)
  /\ Emit("newline", Start, position')

OtherChar == Peek(Start) \notin Quote \cup Digit \cup Letter \cup {"underscore", "nl"}
MatchOperator ==
  LET o == FindOperator(Start)
  IN  /\ Matching /\ OtherChar /\ o # << >>
      /\ position' = AdvanceN(Start, Len(o))
      /\ Emit(OperatorKind(o), Start, position')

(* What is no token is passed over, one character at a time.               *)
SkipUnknown == Matching /\ OtherChar /\ FindOperator(Start) = << >> /\ position' = Advance(Start) /\ UNCHANGED tokens

Next ==
  \/ SkipSpace \/ MatchString \/ SwallowString \/ MatchNumber \/ MatchIdentifier
  \/ MatchNewLine \/ MatchOperator \/ SkipUnknown

Spec == Init /\ [][Next]_vars
=============================================================================
