------------------------------ MODULE Diagnostics -----------------------------
(***************************************************************************)
(* From a report to what is printed under the line: the slices that the    *)
(* reports of the stages carry (DiagnosticContext), LineCutter, which cuts *)
(* the line around the primary slice, and MarkerBuilder, which underlines  *)
(* the labels in it.  The wording of messages and their colors are left    *)
(* out.  A pointer is an offset from the begin of the buffer.              *)
(***************************************************************************)
EXTENDS Integers, Sequences, FiniteSets, FiniteSetsExt, SequencesExt

CONSTANTS Programs, \* source files: [bytes, words], a word is where a token begins and ends
          StartContext, EndContext \* LineCutter::start_context, end_context

VARIABLES source,   \* SourceBuffer: bytes, each [size, width, newline]
          tokens,   \* the slices of the unit's tokens, in order
          report,   \* the Diagnostic that is printed: [kind, primary, labels]
          cut,      \* LineCut: [start, end, before, after]
          markers,  \* PreparedLabels::markers: a sequence of LabelCodes, or Blank
          pending,  \* the labels that prepare_labels has not come to
          annotations, \* PreparedLabels::annotations: [column, code]
          phase     \* where print_diagnostic is

vars == <<source, tokens, report, cut, markers, pending, annotations, phase>>

(* A byte that starts a character knows its size and the columns it takes; *)
(* one that continues a character has size 0.                              *)
Size == Len(source)
Byte(p) == source[p + 1]
Continues(p) == Byte(p).size = 0
NewlinesIn(bytes) == {p \in 0 .. Len(bytes) - 1 : bytes[p + 1].newline}
Newlines == NewlinesIn(source)

Blank == "none"
Unlabelled == {"ExpectedHere", "Location"} \* without an entry in label_messages
NoCut == [start |-> 0, end |-> 0, before |-> FALSE, after |-> FALSE]
SliceIn(bytes, begin, end) ==
  [begin |-> begin, end |-> end, line |-> 1 + Cardinality({p \in NewlinesIn(bytes) : p < begin})]
Empty == [begin |-> 0, end |-> 0, line |-> 0] \* SourceSlice{}
Label(slice, code) == [slice |-> slice, code |-> code]

(* diagnostic_slice(): the parser reports at the token it stands at; the   *)
(* semantic stages find the parser behind the last token, and get that one.*)
LastToken == tokens[Len(tokens)]

(* Nodes begin with a token and end with one.                              *)
Node(i, j) == [tokens[i] EXCEPT !.end = tokens[j].end] \* extend_to
Nodes == UNION {{Node(i, j) : j \in i .. Len(tokens)} : i \in DOMAIN tokens}
-----------------------------------------------------------------------------
(* Reports.  The parser and the collector give no primary slice.           *)
Report(kind, primary, labels) ==
  /\ phase = "run"
  /\ report' = [kind |-> kind, primary |-> primary, labels |-> labels]
  /\ phase' = "cut"
  /\ UNCHANGED <<source, tokens, cut, markers, pending, annotations>>

ReportSyntax == \E i \in DOMAIN tokens : Report("syntax", Empty, <<Label(tokens[i], "ExpectedHere")>>)
ReportRedeclaration == \E name \in Nodes : Report("redeclaration", Empty, <<Label(name, "ConflictingDeclaration")>>)
(* What an if statement expects of its condition or branch has no place in *)
(* the text (SourceSlice::EMPTY).                                          *)
ReportTypeMismatch ==
  \E expected \in Nodes \cup {Empty}, actual \in Nodes :
    Report("mismatch", LastToken, <<Label(expected, "ExpectedType"), Label(actual, "FoundType")>>)
ReportInvalidBinary ==
  \E i, j, k, l \in DOMAIN tokens :
    /\ i <= j /\ j + 1 < k /\ k <= l
    /\ Report("binary", LastToken, <<Label(Node(i, j), "LeftOperand"), Label(Node(k, l), "RightOperand")>>)
ReportCannotInfer == \E node \in Nodes : Report("cannot_infer", node, <<Label(node, "Location")>>)
-----------------------------------------------------------------------------
(* SourceBuffer: the lines, without the newlines that end them.  Line 0    *)
(* and lines behind the end are empty views, whose data() is null.         *)
LineStarts == {p \in {0} \cup {q + 1 : q \in Newlines} : p < Size}
HasLine(n) == n \in 1 .. Cardinality(LineStarts)
LineBegin(n) == CHOOSE p \in LineStarts : Cardinality({q \in LineStarts : q < p}) = n - 1
LineEnd(n) == LET ends == {p \in Newlines : p >= LineBegin(n)} IN IF ends = {} THEN Size ELSE Min(ends)

(* compute_start: back over characters, to the begin of the line or for as *)
(* many as the context has.                                                *)
ComputeStartBytes(line_begin, span_begin) == \* Variant: goes back byte by byte.
  Max({line_begin, span_begin - StartContext})
ComputeStart(line_begin, span_begin) ==
  LET Lead(p) == Max({q \in 0 .. p - 1 : ~Continues(q)})
      back[p \in 0 .. Size, n \in 0 .. StartContext] ==
        IF p > line_begin /\ n < StartContext THEN back[Lead(p), n + 1] ELSE p
  IN  back[span_begin, 0]

(* compute_end: forward over characters.                                   *)
ComputeEnd(line_end, span_end) ==
  LET forward[p \in 0 .. Size, n \in 0 .. EndContext] ==
        IF p < line_end /\ n < EndContext THEN forward[p + Byte(p).size, n + 1] ELSE p
  IN  forward[span_end, 0]

(* LineCutter::cut.                                                        *)
Cut(slice) ==
  LET start == ComputeStart(LineBegin(slice.line), slice.begin)
      end == ComputeEnd(LineEnd(slice.line), slice.end)
  IN  [start |-> start, end |-> end, before |-> start # LineBegin(slice.line), after |-> end # LineEnd(slice.line)]

CutLine ==
  /\ phase = "cut"
  /\ HasLine(report.primary.line)
  /\ cut' = Cut(report.primary)
  /\ pending' = report.labels /\ phase' = "labels"
  /\ UNCHANGED <<source, tokens, report, markers, annotations>>

(* No line: line_begin is null, so compute_start goes back from the begin  *)
(* of the buffer through whatever memory is in front of it; the bytes that *)
(* continue a character there make it go farther.                          *)
CutNothing ==
  /\ phase = "cut"
  /\ ~HasLine(report.primary.line)
  /\ \E start \in -2 * StartContext .. -StartContext :
       cut' = [start |-> start, end |-> 0, before |-> TRUE, after |-> TRUE]
  /\ pending' = report.labels /\ phase' = "labels"
  /\ UNCHANGED <<source, tokens, report, markers, annotations>>

(* MarkerBuilder::underline: for each column of the text, whether its      *)
(* character begins in the span.  In front of the buffer nothing is in it. *)
PrefixOf(c) == IF c.before THEN 3 ELSE 0
UnderlineNarrow(c, span) == \* Variant: one column for each character.
  [k \in 1 .. PrefixOf(c) |-> FALSE]
    \o [k \in 1 .. c.end - Max({c.start, 0}) |-> c.start + k - 1 \in span.begin .. span.end - 1]
Underline(c, span) ==
  LET columns[p \in 0 .. Size] ==
        IF p < c.end
        THEN [k \in 1 .. Byte(p).width |-> p >= span.begin /\ p < span.end] \o columns[p + Byte(p).size]
        ELSE << >>
  IN  [k \in 1 .. PrefixOf(c) |-> FALSE] \o (IF c.start < 0 THEN << >> ELSE columns[c.start])

(* prepare_labels, one label at a time: the marks of a visible label go    *)
(* over those of the labels before it.                                     *)
Combined(underline, code) ==
  [k \in 1 .. Max({Len(markers), Len(underline)}) |->
     IF k \in DOMAIN underline /\ underline[k] THEN code
     ELSE IF k \in DOMAIN markers THEN markers[k] ELSE Blank]

Annotated(underline, code) ==
  IF code \in Unlabelled THEN << >> ELSE <<[column |-> SelectInSeq(underline, LAMBDA marked : marked) - 1, code |-> code]>>

PrepareLabel ==
  /\ phase = "labels" /\ pending # << >>
  /\ LET label == Head(pending)
         underline == Underline(cut, label.slice)
     IN  IF \E k \in DOMAIN underline : underline[k]
         THEN /\ markers' = Combined(underline, label.code)
              /\ annotations' = annotations \o Annotated(underline, label.code)
         ELSE UNCHANGED <<markers, annotations>>
  /\ pending' = Tail(pending)
  /\ UNCHANGED <<source, tokens, report, cut, phase>>

SortedAsReported(list) == list \* Variant: leaves the annotations in the order of the labels.
Sorted(list) == SortSeq(list, LAMBDA a, b : a.column < b.column)
SortAnnotations ==
  /\ phase = "labels" /\ pending = << >>
  /\ annotations' = Sorted(annotations)
  /\ phase' = "printed"
  /\ UNCHANGED <<source, tokens, report, cut, markers, pending>>

Next ==
  \/ ReportSyntax \/ ReportRedeclaration \/ ReportTypeMismatch \/ ReportInvalidBinary \/ ReportCannotInfer
  \/ CutLine \/ CutNothing \/ PrepareLabel \/ SortAnnotations

Init ==
  /\ \E program \in Programs :
       /\ source = program.bytes
       /\ tokens = [i \in DOMAIN program.words |-> SliceIn(program.bytes, program.words[i][1], program.words[i][2])]
  /\ report = [kind |-> Blank, primary |-> Empty, labels |-> << >>]
  /\ cut = NoCut /\ markers = << >> /\ pending = << >> /\ annotations = << >>
  /\ phase = "run"

Spec == Init /\ [][Next]_vars
=============================================================================
