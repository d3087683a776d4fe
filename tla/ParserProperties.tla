--------------------------- MODULE ParserProperties --------------------------
(***************************************************************************)
(* What must hold of Parser, whatever the tokens.                          *)
(***************************************************************************)
EXTENDS Parser, FiniteSets, SequencesExt

CONSTANT Sound \* texts that the functions of the parser are written for

ASSUME SoundAssumption == Sound \subseteq Texts

Done == outcome # "running"
NodesOf(kinds) == {n \in DOMAIN built : built[n].kind \in kinds}

(* Parser::run returns, on every text.                                     *)
Terminates == <>Done

-----------------------------------------------------------------------------
Opens == {"(", "[", "{"}
Closes == {")", "]", "}"}
(* How many brackets are open after token i.                               *)
Depth ==
  LET depth[i \in 0 .. Len(tokens)] ==
        IF i = 0 THEN 0
        ELSE depth[i - 1] + (IF tokens[i] \in Opens THEN 1 ELSE 0) - (IF tokens[i] \in Closes THEN 1 ELSE 0)
  IN  depth

(* The operator of a binary expression is the one that binds its parts     *)
(* last: of the operators of the same bracket in its slice, the others bind*)
(* tighter or, at the same level, stand on the side of its associativity.  *)
(* The operand of a prefix operator is no binary expression, but in        *)
(* parentheses.                                                            *)
OperatorsNest ==
  Done =>
    LET depth == Depth
        SameBracket(i, j) == depth[i] = depth[j] /\ \A k \in i .. j : depth[k] >= depth[i]
        Together(i, j) == IF i < j THEN SameBracket(i, j) ELSE SameBracket(j, i)
        Later(op, other) ==
          \/ Precedence[tokens[other]] > Precedence[tokens[op]]
          \/ /\ Precedence[tokens[other]] = Precedence[tokens[op]]
             /\ IF tokens[op] \in RightAssociative THEN other > op ELSE other < op
        Bracketed(n) == depth[built[n].op] > depth[built[n].from - 1]
    IN  /\ \A n \in NodesOf({"binary"}) :
             \A j \in built[n].from .. built[n].to :
               tokens[j] \in Infix /\ j # built[n].op /\ Together(built[n].op, j) => Later(built[n].op, j)
        /\ \A n \in NodesOf({"unary"}) :
             LET operand == built[n].kids[1] IN built[operand].kind = "binary" => Bracketed(operand)

(* The expressions of identifiers, prefix and infix operators and          *)
(* parentheses: an operand where one is expected, an operator elsewhere.   *)
IsOperand(i) == tokens[i - 1] \in Infix \cup Prefix \cup {"("}
IsProper ==
  LET depth == Depth IN
  /\ ~(tokens[Len(tokens)] \in Infix \cup Prefix \cup {"("}) /\ depth[Len(tokens)] = 0
  /\ \A i \in 4 .. Len(tokens) :
       /\ depth[i] >= 0
       /\ IF IsOperand(i) THEN tokens[i] \in Prefix \cup {"identifier", "("} ELSE tokens[i] \in Infix \cup {")"}
(* "(" after an operand is a call.                                         *)
NoPostfix ==
  \A i \in 4 .. Len(tokens) :
    /\ tokens[i] \in Infix \cup Prefix \cup {"identifier", "(", ")"} /\ tokens[i] # "<"
    /\ tokens[i] = "(" => IsOperand(i)

(* let x = E is read, to its end and without complaint, if and only if E is*)
(* such an expression.                                                     *)
ExpressionsRead ==
  Done /\ IsPrefix(<<"let", "identifier", "=">>, tokens) /\ NoPostfix =>
    (IsProper <=> reports = << >> /\ \E n \in NodesOf({"variable"}) : Len(built[n].kids) = 2 /\ built[n].to = Len(tokens))
-----------------------------------------------------------------------------
(* The slice of an expression covers those of its parts, which follow one  *)
(* another: parentheses widen a slice only when it belongs to nobody yet.  *)
SlicesNest ==
  Done =>
    \A n \in NodesOf(ExpressionNodes) :
      LET parts == SelectSeq(built[n].kids, IsExpression) IN
      \A i \in DOMAIN parts :
        /\ built[n].from <= built[parts[i]].from /\ built[parts[i]].to <= built[n].to
        /\ i > 1 => built[parts[i - 1]].to < built[parts[i]].from

(* A call without type arguments, an index and a member access are written *)
(* with their first token twice: the loop consumes it, and then the function*)
(* demands it.                                                             *)
PostfixIsDoubled ==
  \A n \in NodesOf({"call", "index", "member"}) :
    LET next == built[built[n].kids[1]].to + 1
    IN  \/ tokens[next] \in Postfix /\ tokens[next + 1] = tokens[next]
        \/ tokens[next] = "<" /\ built[n].kind = "call"

(* "<" after an operand always begins type arguments, so that the operator *)
(* Less of the table is never built.                                       *)
LessIsNoComparison == \A n \in NodesOf({"binary"}) : tokens[built[n].op] # "<"

(* A block has at most one item, its value included: the newline that      *)
(* separates two items has been skipped before it is demanded.             *)
BlocksHoldOne == \A n \in NodesOf({"block"}) : Len(built[n].kids) <= 1

(* The forms of the language that the parser has functions for and never   *)
(* builds, whatever the text.                                              *)
UnbuiltForms == PostfixIsDoubled /\ LessIsNoComparison /\ BlocksHoldOne

(* A function that answers NoMatch has consumed nothing, so that its caller*)
(* can try something else; but for specifiers, empty lines, a qualified    *)
(* name where an identifier was wanted, and the name of a member that a    *)
(* capability cannot have.                                                 *)
AnswersNoMatch == DOMAIN Rule \ (ExpressionNodes \cup {"expression", "primary", "grouped", "postfix", "type arguments",
                                                        "statement", "return", "run", "explicit module"})
NoMatchConsumesNothing ==
  stack # << >> /\ Now.do = "return" /\ Top.rule \in AnswersNoMatch =>
    LET consumed == SubSeq(tokens, Top.start, pos) IN
    Now.status = "none" =>
      \/ \A i \in DOMAIN consumed : consumed[i] \in SpecifierKinds \cup {NewLine}
      \/ \E i \in DOMAIN consumed : consumed[i] = "."
      \/ Top.rule = "capability member"

(* A sound text gets its root, without a diagnostic, even one reported and *)
(* forgotten by a speculation, and without a token passed over.            *)
SoundIsAccepted ==
  /\ Done /\ tokens \in Sound => outcome = "ok" /\ reports = << >> /\ pos = Len(tokens)
  /\ stack # << >> /\ Now.do = "consume" /\ Top.rule \in {"run", "module body"} /\ Kind(0) # NewLine
       => tokens \notin Sound
=============================================================================
