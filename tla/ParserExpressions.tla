-------------------------- MODULE ParserExpressions --------------------------
(***************************************************************************)
(* The functions of Parser that read expressions, statements and literals. *)
(* The tables of operators are those of ayla/language/Operators.cpp.       *)
(***************************************************************************)
EXTENDS ParserSteps, TLC

Prefix == {"!"}
Postfix == {"(", "[", "."}
(* The precedence of an infix operator; only "=" is right associative.     *)
Precedence == ("=" :> 1) @@ ("==" :> 5) @@ ("!=" :> 5) @@ ("<" :> 6) @@ ("<=" :> 6) @@ (">" :> 6) @@ (">=" :> 6)
                @@ ("+" :> 10) @@ ("-" :> 10) @@ ("*" :> 20) @@ ("/" :> 20)
Infix == DOMAIN Precedence
RightAssociative == {"="}
(* OperatorTable::add_infix.                                               *)
Lbp(op) == Precedence[op]
RbpEqual(op) == Precedence[op] \* Variant: the same on both sides.
Rbp(op) == IF op \in RightAssociative THEN Precedence[op] - 1 ELSE Precedence[op] + 1

(* NodeKinds of the classes derived from Expression that the parser makes. *)
ExpressionNodes == {"number", "string", "bool", "array", "identifier expression", "unary", "binary", "call", "index",
                    "member", "block", "if", "while", "match"}

Expression == <<Need("unary", Null), Pass("binary", Null)>> \o Ok
Primary ==
  <<Switch(<<<<{"number"}, ReturnOf("number")>>,
             <<{"string"}, ReturnOf("string")>>,
             <<{"true", "false"}, ReturnOf("bool")>>,
             <<{"identifier"}, ReturnOf("identifier expression")>>,
             <<{"("}, ReturnOf("grouped")>>,
             <<{"["}, ReturnOf("array")>>,
             <<{"{"}, ReturnOf("block")>>,
             <<{"if"}, ReturnOf("if")>>,
             <<{"while"}, ReturnOf("while")>>,
             <<{"match"}, ReturnOf("match")>>>>, Null)>>

GroupedAnyClose == \* Variant: the closing parenthesis is not demanded.
  <<Expect("(", Null), Need("expression", Null), When(Match(")"), << >>), Widen>> \o Ok
Grouped == <<Expect("(", Null), Need("expression", Null), Expect(")", Null), Widen>> \o Ok

Unary ==
  <<If(MatchOne(Prefix), <<Need("unary", Null), Build("unary", "start..kid")>> \o Ok, ReturnOf("postfix"))>>

(* left op right op right ..., each right with what binds tighter than op. *)
BinaryLeft == \* Variant: the slice of left, not extended.
  <<Loop(<<If(InfixNext, << >>, Break), TakeOperator, Need("unary", Null), Right, Build("binary", "kid")>>)>> \o Ok
Binary ==
  <<Loop(<<If(InfixNext, << >>, Break), TakeOperator, Need("unary", Null), Right, Build("binary", "kids")>>)>> \o Ok

(* The operator is consumed here, and each function wants one of its own.  *)
PostfixExpression ==
  <<Need("primary", Null),
    Loop(<<When(Is("<"), <<Need("type arguments", Null), If(Is("("), << >>, Null), Pass("call", Null)>> \o Continue),
           If(IsOne(Postfix), << >>, Break),
           Switch(<<<<{"("}, <<Consume1, Pass("call", Null)>>>>,
                    <<{"["}, <<Consume1, Pass("index", Null)>>>>,
                    <<{"."}, <<Consume1, Pass("member", Null)>>>>>>, Null)>>)>> \o Ok
Member == <<Expect(".", Null), Need("identifier", Null), Build("member", "kids")>> \o Ok
Index == <<Expect("[", Null), Need("expression", Null), Expect("]", Null), Build("index", "kid..here")>> \o Ok
TypeArguments ==
  <<Expect("<", Null),
    Until(AtEnd, <<Need("type", Null), If(Match(">"), Break, <<Expect(",", Null)>>)>>)>> \o Ok
CallExpression ==
  <<Expect("(", Null),
    Until(AtEnd, <<When(Match(")"), Break), Need("expression", Null),
                   If(Match(","), << >>, <<Expect(")", Null)>> \o Break)>>),
    Build("call", "kid..here")>> \o Ok

If_ ==
  <<Expect("if", Null), Skip, Need("expression", <<Report("expression")>> \o Null), When(LastIs({"assignment"}), Null),
    Skip, Need("block", Null), Skip,
    When(Match("else"), <<Skip, If(Is("if"), <<Need("if", Null)>>, <<Need("block", Null)>>)>>),
    Build("if", "start..kid")>> \o Ok
While_ ==
  <<Expect("while", Null), Skip, Need("expression", Null), When(LastIs({"assignment"}), Null),
    Skip, Need("block", Null), Build("while", "start..kid")>> \o Ok
Match_ ==
  <<Expect("match", Null), Need("expression", Null), Expect("{", Null), Skip,
    Until(AtEnd, <<When(Is("}"), Break), Need("pattern", Null), Expect("->", Null), Need("expression", Null),
                   BuildLast("match arm", 2, "none"), Skip>>),
    Expect("}", Null), Build("match", "start..here")>> \o Ok

(* { items }, with "_" before the "}" if the block has no value.           *)
Block ==
  <<Expect("{", Null), Skip, Need("block items", Null),
    If(Match("_"), <<Skip, Expect("}", Null), WrapItems(FALSE)>>, <<Expect("}", Null), WrapItems(TRUE)>>),
    Build("block", "start..here")>> \o Ok
BlockItemsByLine == \* Variant: the newline is left for the test that demands it.
  <<Until(AtEnd,
      <<Skip, When(IsOne({"}", "_"}), Break),
        Need("declaration", <<Need("statement", <<Need("expression", Fail)>>)>>),
        When(IsOne({"}", "_"}), Break),
        Expect("newline", Fail), Skip>>)>> \o Ok
(* After an item skip_trivia() has consumed the newline demanded next.     *)
BlockItems ==
  <<Until(AtEnd,
      <<Skip, When(IsOne({"}", "_"}), Break),
        Need("declaration", <<Need("statement", <<Need("expression", Fail)>>)>>),
        Skip, When(IsOne({"}", "_"}), Break),
        Expect("newline", Fail), Skip>>)>> \o Ok
Statement == <<Switch(<<<<{"return"}, ReturnOf("return")>>>>, Null)>>
Return_ ==
  <<When(Match("return"), << >>), When(IsOne({"}", "newline"}), <<Build("return", "none")>> \o Ok),
    Need("expression", Null), Build("return", "none")>> \o Ok

Number == <<Expect("number", Null), Build("number", "token")>> \o Ok
String == <<Expect("string", Null), Build("string", "token")>> \o Ok
Bool == <<Consume1, Build("bool", "token")>> \o Ok
IdentifierExpression == <<Need("identifier name", Null), Build("identifier expression", "token")>> \o Ok
Array ==
  <<Expect("[", Null), Skip, When(Match("]"), <<Build("array", "start..here")>> \o Ok),
    Until(Is("]"), <<Skip, Need("expression", Null), Skip,
                     When(Match(","), <<Skip, If(Is("]"), Break, Continue)>>), If(Is("]"), << >>, Null)>>),
    Expect("]", Null), Build("array", "start..here")>> \o Ok
=============================================================================
