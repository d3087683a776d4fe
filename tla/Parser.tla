-------------------------------- MODULE Parser -------------------------------
(***************************************************************************)
(* Parser on the tokens of one file, a recursive descent with a precedence *)
(* climb for the operators.  The functions of the parser are data here,    *)
(* sequences of steps; a state has a frame for each call in progress, with *)
(* the steps it has left, and an action carries out the next step.         *)
(***************************************************************************)
EXTENDS TokenStream, ParserExpressions, ParserDeclarations

CONSTANT Texts \* the token sequences to parse

(* The functions by name; instances of a template have a name each.        *)
Rule ==
  [expression |-> Expression, primary |-> Primary, grouped |-> Grouped, unary |-> Unary, binary |-> Binary,
   postfix |-> PostfixExpression, member |-> Member, index |-> Index, call |-> CallExpression,
   block |-> Block, statement |-> Statement, number |-> Number, string |-> String, bool |-> Bool, array |-> Array,
   name |-> Name, identifier |-> Identifier, type |-> Type, pattern |-> Pattern, declaration |-> Declaration,
   import |-> Import, module |-> ModuleDeclaration, variable |-> Variable, enum |-> Enum, field |-> Field,
   variants |-> DelimitedItems("{", "}", "enum variant"), struct |-> Struct, capability |-> Capability, impl |-> Impl,
   function |-> Function(TRUE), signature |-> Function(FALSE), parameter |-> Parameter, run |-> Run,
   parameters |-> DelimitedList("(", ")", ",", "parameter"), constraints |-> DelimitedList("{", "}", ",", "type")]
  @@ ("type arguments" :> TypeArguments) @@ ("type arguments list" :> DelimitedList("<", ">", ",", "type"))
  @@ ("type list" :> DelimitedList("(", ")", ",", "type"))
  @@ ("if" :> If_) @@ ("while" :> While_) @@ ("match" :> Match_) @@ ("return" :> Return_) @@ ("block items" :> BlockItems)
  @@ ("identifier expression" :> IdentifierExpression) @@ ("identifier name" :> IdentifierName)
  @@ ("generic type" :> GenericType) @@ ("function type" :> FunctionType)
  @@ ("named pattern" :> NamedPattern) @@ ("enum variant pattern" :> EnumVariantPattern)
  @@ ("generic parameters" :> GenericParameters) @@ ("generic parameter" :> GenericParameter)
  @@ ("enum variant" :> EnumVariant) @@ ("type declaration" :> TypeDeclaration)
  @@ ("capability member" :> CapabilityMember) @@ ("impl member" :> ImplMember)
  @@ ("explicit module" :> ExplicitModule) @@ ("module body" :> ModuleBody)

SpecifierKinds == {"public", "private", "static", "export", "extern"}
DeclarationStart == {"fun", "struct", "cap", "impl", "type", "module", "import"}

VARIABLES
  stack,   \* the calls in progress, innermost last
  built,   \* the nodes allocated: kind, children, slice in tokens (0 to 0: never set), operator
  reports, \* the diagnostics: what was expected, and the token the label is at
  outcome  \* "running", "ok" (root set), "no root", or "undefined"

vars == <<stream, stack, built, reports, outcome>>

(* min is min_bp, op the operator token last taken.                        *)
Frame(rule, kids, min) ==
  [rule |-> rule, todo |-> Rule[rule], kids |-> kids, start |-> pos + 1, min |-> min, op |-> 0]

Init ==
  /\ tokens \in Texts
  /\ StreamInit
  /\ stack = <<[rule |-> "run", todo |-> Rule["run"], kids |-> << >>, start |-> 1, min |-> 0, op |-> 0]>>
  /\ built = << >>
  /\ reports = << >>
  /\ outcome = "running"
-----------------------------------------------------------------------------
Top == stack[Len(stack)]
Below == SubSeq(stack, 1, Len(stack) - 1)
Now == Top.todo[1]
Doing(do) == outcome = "running" /\ Now.do = do
Rest == SubSeq(Top.todo, 2, Len(Top.todo))
LastKid == Top.kids[Len(Top.kids)]
Stacked(frame) == Append(Below, frame)
Go(todo) == Stacked([Top EXCEPT !.todo = todo])
Hold(todo, kids) == Stacked([Top EXCEPT !.todo = todo, !.kids = kids])

Holds(test) ==
  CASE test.on \in {"next", "match"} -> Kind(0) \in test.kinds
    [] test.on = "after next"        -> Kind(1) \in test.kinds
    [] test.on = "end"               -> IsEnd
    [] test.on = "infix"             -> Kind(0) \in Infix /\ Lbp(Kind(0)) >= Top.min
    [] test.on = "last node"         -> built[LastKid].kind \in test.kinds
    [] test.on = "one node"          -> Len(Top.kids) = 1

(* Tests, with the consumption of what match() finds.                      *)
Branch ==
  /\ Doing("if")
  /\ LET holds == Holds(Now.test) IN
       /\ pos' = IF holds /\ Now.test.on = "match" THEN pos + 1 ELSE pos
       /\ stack' = Go((IF holds THEN Now.yes ELSE Now.no) \o Rest)
  /\ UNCHANGED <<tokens, checkpoints, built, reports, outcome>>

Choose ==
  /\ Doing("switch")
  /\ LET chosen == SelectSeq(Now.cases, LAMBDA case : Kind(0) \in case[1])
     IN  stack' = Go((IF chosen = << >> THEN Now.other ELSE chosen[1][2]) \o Rest)
  /\ UNCHANGED <<stream, built, reports, outcome>>

(* A loop writes its body out once more and remembers where that began.    *)
Again(loop) == [do |-> "again", body |-> loop.body, at |-> pos]
Repeat ==
  /\ outcome = "running" /\ Now.do \in {"loop", "again"}
  /\ stack' = Go(Now.body \o <<Again(Now)>> \o Rest)
  /\ UNCHANGED <<stream, built, reports, outcome>>
NextRound == CHOOSE i \in DOMAIN Top.todo : Top.todo[i].do = "again" /\ \A j \in 1 .. i - 1 : Top.todo[j].do # "again"
Leave ==
  /\ outcome = "running" /\ Now.do \in {"break", "continue"}
  /\ stack' = Go(SubSeq(Top.todo, NextRound + (IF Now.do = "break" THEN 1 ELSE 0), Len(Top.todo)))
  /\ UNCHANGED <<stream, built, reports, outcome>>

(* The callee starts with the nodes it is given, which the caller gives up.*)
Enter(rule, n, min) ==
  LET kept == Len(Top.kids) - n
  IN  Append(Stacked([Top EXCEPT !.kids = SubSeq(Top.kids, 1, kept)]),
             Frame(rule, SubSeq(Top.kids, kept + 1, Len(Top.kids)), min))
Invoke ==
  /\ Doing("call")
  /\ stack' = Enter(Now.rule, IF Now.give = "all" THEN Len(Top.kids) ELSE 0, 0)
  /\ UNCHANGED <<stream, built, reports, outcome>>
(* parse_binary_expression(info->rbp, right).                              *)
ClimbRight ==
  /\ Doing("right")
  /\ stack' = Enter("binary", 1, Rbp(tokens[Top.op]))
  /\ UNCHANGED <<stream, built, reports, outcome>>

(* Back in the caller, which goes on with the steps for the result.        *)
Resumed(caller, status, value) ==
  LET call == caller.todo[1]
      steps == CASE call.do = "right" -> IF status = "ok" THEN << >> ELSE Null
                 [] status = "ok"     -> call.ok
                 [] status = "none"   -> call.none
                 [] status = "error"  -> call.error
  IN  [caller EXCEPT !.todo = steps \o SubSeq(@, 2, Len(@)), !.kids = IF status = "ok" THEN @ \o value ELSE @]
GiveBack ==
  /\ Doing("return")
  /\ IF Len(stack) = 1
     THEN /\ outcome' = IF Now.status = "ok" THEN "ok" ELSE "no root"
          /\ stack' = << >>
     ELSE /\ stack' = Append(SubSeq(stack, 1, Len(stack) - 2), Resumed(stack[Len(stack) - 1], Now.status, Top.kids))
          /\ UNCHANGED outcome
  /\ UNCHANGED <<stream, built, reports>>
Crash ==
  /\ Doing("undefined")
  /\ outcome' = "undefined"
  /\ UNCHANGED <<stream, stack, built, reports>>
-----------------------------------------------------------------------------
MoveTo(step, p) ==
  /\ Doing(step)
  /\ pos' = p
  /\ stack' = Go(Rest)
  /\ UNCHANGED <<tokens, checkpoints, built, reports, outcome>>
SkipTrivia == MoveTo("skip", PastTrivia)
TakeOne == MoveTo("consume", Consume)
TakeSpecifiers == MoveTo("specifiers", PastAll(LAMBDA k : k \in SpecifierKinds))
(* On to the next declaration keyword or closing brace.                    *)
SynchronizeDeclaration == MoveTo("synchronize", PastAll(LAMBDA k : k \notin DeclarationStart \cup {"}"}))
TakeBinaryOperator ==
  /\ Doing("operator")
  /\ pos' = pos + 1
  /\ stack' = Stacked([Top EXCEPT !.todo = Rest, !.op = pos + 1])
  /\ UNCHANGED <<tokens, checkpoints, built, reports, outcome>>

BeginSpeculation == Doing("checkpoint") /\ AddCheckpoint /\ stack' = Go(Rest) /\ UNCHANGED <<built, reports, outcome>>
EndSpeculation == Doing("rollback") /\ Rollback /\ stack' = Go(Rest) /\ UNCHANGED <<built, reports, outcome>>

(* The label is at the current token, or at the last one at the end.       *)
ReportExpected ==
  /\ Doing("report")
  /\ reports' = Append(reports, [expected |-> Now.expected, at |-> IF IsEnd THEN pos ELSE pos + 1])
  /\ stack' = Go(Rest)
  /\ UNCHANGED <<stream, built, outcome>>
-----------------------------------------------------------------------------
(* slice = begin of one thing, then extend_to another, which takes over the*)
(* end whatever it is.  extend_to of a node without a slice ends at 0.     *)
Slice(slice, kids) ==
  LET first == built[kids[1]]
      last == built[kids[Len(kids)]]
  IN  CASE slice = "token"       -> [from |-> Top.start, to |-> Top.start]
        [] slice = "start..here" -> [from |-> Top.start, to |-> pos]
        [] slice = "start..kid"  -> [from |-> Top.start, to |-> last.to]
        [] slice = "kids"        -> [from |-> first.from, to |-> last.to]
        [] slice = "kid"         -> [from |-> first.from, to |-> first.to]
        [] slice = "kid..here"   -> [from |-> first.from, to |-> pos]
        [] slice = "none"        -> [from |-> 0, to |-> 0]

NewNode(kind, kids, slice, op) == [kind |-> kind, kids |-> kids, from |-> slice.from, to |-> slice.to, op |-> op]
MakeNode ==
  /\ Doing("build")
  /\ LET n == IF Now.over = All THEN Len(Top.kids) ELSE Now.over
         kept == Len(Top.kids) - n
         kids == SubSeq(Top.kids, kept + 1, Len(Top.kids))
     IN  /\ built' = Append(built, NewNode(Now.kind, kids, Slice(Now.slice, kids), Top.op))
         /\ stack' = Hold(Rest, Append(SubSeq(Top.kids, 1, kept), Len(built) + 1))
  /\ UNCHANGED <<stream, reports, outcome>>

WidenLast ==
  /\ Doing("widen")
  /\ built' = [built EXCEPT ![LastKid].from = Top.start, ![LastKid].to = pos]
  /\ stack' = Go(Rest)
  /\ UNCHANGED <<stream, reports, outcome>>

IsExpression(n) == built[n].kind \in ExpressionNodes
NoSlice == [from |-> 0, to |-> 0]
(* The items are wrapped in their order; the value is left as it is.       *)
Wrap ==
  /\ Doing("wrap")
  /\ LET kids == Top.kids
         wrapped == SelectSeq(kids, LAMBDA n : IsExpression(n) /\ ~(Now.value /\ n = kids[Len(kids)]))
         Statement_(n) == Len(built) + CHOOSE i \in DOMAIN wrapped : wrapped[i] = n
     IN  /\ built' = built \o [i \in DOMAIN wrapped |-> NewNode("statement", <<wrapped[i]>>, NoSlice, 0)]
         /\ stack' = Hold(Rest, [i \in DOMAIN kids |->
                                   IF \E j \in DOMAIN wrapped : wrapped[j] = kids[i] THEN Statement_(kids[i]) ELSE kids[i]])
  /\ UNCHANGED <<stream, reports, outcome>>

(* module->declarations, and the init declaration if there is one.         *)
AttachDeclarations ==
  /\ Doing("attach")
  /\ LET module == Top.kids[1]
         declarations == SelectSeq(Top.kids, LAMBDA n : n # module /\ ~IsExpression(n))
         items == SelectSeq(Top.kids, IsExpression)
         withName == built[module].kids
     IN  /\ built' = IF Now.init /\ items # << >>
                     THEN [built EXCEPT ![module].kids = withName \o declarations \o <<Len(built) + 1>>]
                            \o <<NewNode("init", items, NoSlice, 0)>>
                     ELSE [built EXCEPT ![module].kids = withName \o declarations]
         /\ stack' = Hold(Rest, <<module>>)
  /\ UNCHANGED <<stream, reports, outcome>>
-----------------------------------------------------------------------------
Next ==
  \/ Branch \/ Choose \/ Repeat \/ Leave
  \/ Invoke \/ ClimbRight \/ GiveBack \/ Crash
  \/ SkipTrivia \/ TakeOne \/ TakeSpecifiers \/ SynchronizeDeclaration \/ TakeBinaryOperator
  \/ BeginSpeculation \/ EndSpeculation \/ ReportExpected
  \/ MakeNode \/ WidenLast \/ Wrap \/ AttachDeclarations

(* The parser is one thread that nothing makes wait.                       *)
Spec == Init /\ [][Next]_vars /\ WF_vars(Next)
=============================================================================
