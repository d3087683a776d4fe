------------------------- MODULE DiagnosticsProperties ------------------------
(***************************************************************************)
(* What a diagnostic should look like, read off the source character by    *)
(* character.                                                              *)
(***************************************************************************)
EXTENDS Diagnostics

Chars(begin, end) == {p \in begin .. end - 1 : ~Continues(p)}
Printed == phase = "printed" /\ HasLine(report.primary.line)

(* What is shown around a slice of one line is a piece of that line, made  *)
(* of whole characters, as much of it as the context allows, and dots stand*)
(* exactly where something was left out.                                   *)
OnOneLine(slice) == \A p \in slice.begin .. slice.end - 1 : ~Byte(p).newline
Left == Chars(cut.start, report.primary.begin)
Right == Chars(report.primary.end, cut.end)
CutIsOfTheLine ==
  phase \in {"labels", "printed"} /\ HasLine(report.primary.line) /\ OnOneLine(report.primary) =>
    /\ cut.start <= report.primary.begin /\ report.primary.end <= cut.end
    /\ \A p \in cut.start .. cut.end - 1 : ~Byte(p).newline
    /\ \A p \in {cut.start, cut.end} : p < Size => ~Continues(p)
    /\ Cardinality(Left) <= StartContext /\ Cardinality(Right) <= EndContext
    /\ cut.before <=> cut.start > 0 /\ ~Byte(cut.start - 1).newline
    /\ cut.after <=> cut.end < Size /\ ~Byte(cut.end).newline
    /\ cut.before => Cardinality(Left) = StartContext
    /\ cut.after => Cardinality(Right) = EndContext

(* The columns of a character, counted from the first that is printed.     *)
Width(chars) == MapThenSumSet(LAMBDA p : Byte(p).width, chars)
ColumnsOf(p) ==
  LET first == PrefixOf(cut) + Width(Chars(cut.start, p)) IN first .. first + Byte(p).width - 1
Covered(slice) == UNION {ColumnsOf(p) : p \in Chars(cut.start, cut.end) \cap (slice.begin .. slice.end - 1)}

(* A mark stands under every character of a label that is shown, and under *)
(* nothing else; where labels overlap the later one is seen.               *)
MarksUnderLabels ==
  Printed => \A k \in 0 .. Len(markers) + 4 :
    LET over == {n \in DOMAIN report.labels : k \in Covered(report.labels[n].slice)}
        mark == IF k + 1 \in DOMAIN markers THEN markers[k + 1] ELSE Blank
    IN  mark = IF over = {} THEN Blank ELSE report.labels[Max(over)].code

(* Every label with a text that is seen is explained once, at its first    *)
(* column, and each line of explanation has room for the connectors of     *)
(* those printed after it.                                                 *)
EachLabelOnce ==
  Printed =>
    /\ {<<a.column, a.code>> : a \in {annotations[i] : i \in DOMAIN annotations}}
         = {<<Min(Covered(l.slice)), l.code>> :
              l \in {x \in {report.labels[n] : n \in DOMAIN report.labels} : Covered(x.slice) # {} /\ x.code \notin Unlabelled}}
    /\ \A i, j \in DOMAIN annotations : i < j => annotations[i].column <= annotations[j].column

(* Every label with a text is explained: DiagnosticMessages.hpp gives it to*)
(* the reader of a redeclaration ("conflicting declaration is here", line  *)
(* 242) and of a type mismatch ("found", line 228).                        *)
LabelsAreShown ==
  phase = "printed" =>
    \A n \in DOMAIN report.labels :
      report.labels[n].code \in Unlabelled \cup {annotations[i].code : i \in DOMAIN annotations}
=============================================================================
