----------------------------- MODULE ParserSteps -----------------------------
(***************************************************************************)
(* The vocabulary in which the functions of Parser are written down: each  *)
(* is a sequence of steps, carried out by the machine in module Parser.    *)
(* A function owns the list of nodes it has so far (its locals: the nodes  *)
(* passed to it, then what its calls gave it, in order).                   *)
(***************************************************************************)
EXTENDS Naturals, Sequences

(* Tests on the stream.  Match is match(): it consumes what it finds.      *)
IsOne(kinds) == [on |-> "next", kinds |-> kinds]
Is(kind) == IsOne({kind})
AfterIs(kind) == [on |-> "after next", kinds |-> {kind}]
MatchOne(kinds) == [on |-> "match", kinds |-> kinds]
Match(kind) == MatchOne({kind})
AtEnd == [on |-> "end", kinds |-> {}]
(* Tests on the nodes of the call: the kind of the last, how many.         *)
LastIs(kinds) == [on |-> "last node", kinds |-> kinds]
OnlyOne == [on |-> "one node", kinds |-> {}]
(* The next token is an infix operator with lbp >= min_bp.                 *)
InfixNext == [on |-> "infix", kinds |-> {}]

If(test, yes, no) == [do |-> "if", test |-> test, yes |-> yes, no |-> no]
When(test, yes) == If(test, yes, << >>)
Expect(kind, otherwise) == If(Match(kind), << >>, otherwise)
(* cases is a sequence of pairs, a set of kinds and the steps for them.    *)
Switch(cases, other) == [do |-> "switch", cases |-> cases, other |-> other]

Loop(body) == [do |-> "loop", body |-> body]
Until(test, body) == Loop(<<When(test, <<[do |-> "break"]>>)>> \o body)
Break == <<[do |-> "break"]>>
Continue == <<[do |-> "continue"]>>

(* The three results of a ParseResult.  A null pointer is NoMatch: nobody  *)
(* distinguishes why an expression was not found.                          *)
Return(status) == <<[do |-> "return", status |-> status]>>
Ok == Return("ok")
NoMatch == Return("none")
Null == NoMatch
Fail == Return("error")
(* A null pointer is dereferenced.                                         *)
Undefined == <<[do |-> "undefined"]>>

(* A call hands over none, the last, or all of the caller's nodes, and goes*)
(* on with the steps for its result.                                       *)
Calls(rule, give, ok, none, error) ==
  [do |-> "call", rule |-> rule, give |-> give, ok |-> ok, none |-> none, error |-> error]
Try(rule, none, error) == Calls(rule, "none", << >>, none, error)
Need(rule, otherwise) == Try(rule, otherwise, otherwise)
Pass(rule, otherwise) == Calls(rule, "all", << >>, otherwise, otherwise)
(* return upcast(f(...)).                                                  *)
ReturnOf(rule) == <<Calls(rule, "all", << >>, NoMatch, Fail)>> \o Ok

Step(do) == [do |-> do]
Skip == Step("skip")                  \* skip_trivia()
Consume1 == Step("consume")           \* consume()
Specifiers == Step("specifiers")      \* parse_specifiers()
Synchronize == Step("synchronize")    \* synchronize_declaration()
SaveStream == Step("checkpoint")      \* add_checkpoint()
RestoreStream == Step("rollback")     \* rollback_checkpoint()
TakeOperator == Step("operator")      \* consume(), and the operator is kept
Right == Step("right")                \* parse_binary_expression(rbp, right)
Widen == Step("widen")                \* the slice of the last node is the call's
Report(expected) == [do |-> "report", expected |-> expected]
(* speculate(): the parser's result decides what to do back at the start.  *)
Speculate(rule, ok, none, error) ==
  <<SaveStream, Calls(rule, "none", <<RestoreStream>> \o ok, <<RestoreStream>> \o none, <<RestoreStream>> \o error)>>

(* alloc: a node over the last n nodes, or all of them, with its slice.    *)
BuildLast(kind, n, slice) == [do |-> "build", kind |-> kind, over |-> n, slice |-> slice]
All == 0
Build(kind, slice) == BuildLast(kind, All, slice)
(* Expressions among the items of a block become statements, but the last  *)
(* may be kept as the block's value; those of a module make up its init.   *)
WrapItems(value) == [do |-> "wrap", value |-> value]
Attach(init) == [do |-> "attach", init |-> init]
=============================================================================
