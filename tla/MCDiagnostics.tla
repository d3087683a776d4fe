----------------------------- MODULE MCDiagnostics ----------------------------
(***************************************************************************)
(* Short source files for Diagnostics: words of narrow, wide and combining *)
(* characters of one to four bytes, blanks and newlines.                   *)
(***************************************************************************)
EXTENDS DiagnosticsProperties

Char(size, width) == [k \in 1 .. size |-> [size |-> IF k = 1 THEN size ELSE 0, width |-> width, newline |-> FALSE]]
Letter == Char(1, 1)
Accented == Char(2, 1)
Ideograph == Char(3, 2)
Emoji == Char(4, 2)
Combining == Letter \o Char(2, 0)
Long == Letter \o Accented \o Letter
Newline == <<[size |-> 1, width |-> 1, newline |-> TRUE]>>
Space == Char(1, 1)

(* A text is a sequence of pieces, all but the blanks tokens.              *)
Blanks == [token |-> FALSE, bytes |-> Space]
Word(bytes) == [token |-> TRUE, bytes |-> bytes]
Pieces == {Blanks} \cup {Word(b) : b \in {Letter, Ideograph, Emoji, Combining, Long, Newline}}
FewPieces == {Word(b) : b \in {Letter, Accented, Newline}}

EndOf(text, k) == FoldLeft(LAMBDA sum, piece : sum + Len(piece.bytes), 0, SubSeq(text, 1, k))
Program(text) ==
  LET extents == [k \in DOMAIN text |-> <<EndOf(text, k - 1), EndOf(text, k)>>]
      tokenAt == SelectSeq([k \in DOMAIN text |-> k], LAMBDA k : text[k].token)
  IN  [bytes |-> FlattenSeq([k \in DOMAIN text |-> text[k].bytes]), words |-> [n \in DOMAIN tokenAt |-> extents[tokenAt[n]]]]
TextsOf(pieces, n) == [1 .. n -> pieces]
HasToken(text) == \E k \in DOMAIN text : text[k].token
ManyPrograms == {Program(t) : t \in {x \in TextsOf(Pieces, 3) \cup TextsOf(FewPieces, 5) : HasToken(x)}}
TwoLines == {Program(<<Word(Letter), Word(Newline), Word(Letter)>>)}
=============================================================================
