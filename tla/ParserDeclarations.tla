-------------------------- MODULE ParserDeclarations -------------------------
(***************************************************************************)
(* The functions of Parser that read names, types, patterns, declarations  *)
(* and modules.                                                            *)
(***************************************************************************)
EXTENDS ParserSteps

(* parse_delimited_list and parse_delimited_items, for elements read by    *)
(* the function element; the items' separator is optional.                 *)
DelimitedList(open, close, separator, element) ==
  <<Expect(open, NoMatch), Skip, When(Match(close), Ok),
    Until(AtEnd, <<Need(element, Fail), Skip, When(Match(close), Ok),
                   Expect(separator, <<Report(separator)>> \o Fail), Skip, When(Match(close), Ok)>>),
    Report(close)>> \o Fail
DelimitedItems(open, close, element) ==
  <<Expect(open, NoMatch), Skip, When(Match(close), Ok),
    Until(AtEnd, <<Need(element, Fail), Skip,
                   When(Match(","), <<Skip, When(Match(close), Ok)>> \o Continue), When(Match(close), Ok)>>),
    Report(close)>> \o Fail

(* Names.  parse_identifier_name has consumed a qualified name when it says*)
(* that there is no identifier.                                            *)
Name ==
  <<Try("identifier", NoMatch, Fail), If(Is("."), << >>, Ok),
    Loop(<<Expect(".", Break), Try("identifier", <<Report("identifier")>> \o Fail, Fail)>>),
    Build("qualified name", "kids")>> \o Ok
Identifier == <<Expect("identifier", NoMatch), Build("identifier", "token")>> \o Ok
IdentifierName == <<Try("name", NoMatch, Fail), If(LastIs({"identifier"}), Ok, NoMatch)>>

(* Types.                                                                  *)
TypeSimple == \* Variant: without generic types.
  <<Switch(<<<<{"("}, ReturnOf("function type")>>,
             <<{"identifier"}, <<Try("name", NoMatch, Fail), Build("named type", "kids")>> \o Ok>>>>, NoMatch)>>
Type ==
  <<Switch(<<<<{"("}, ReturnOf("function type")>>,
             <<{"identifier"}, <<Try("name", NoMatch, Fail), When(Is("<"), ReturnOf("generic type")),
                                 Build("named type", "kids")>> \o Ok>>>>, NoMatch)>>
GenericType ==
  <<Try("type arguments list", NoMatch, Fail), When(OnlyOne, <<Report("type")>> \o Fail),
    Build("generic type", "kid")>> \o Ok
FunctionType ==
  <<Expect("(", NoMatch), Skip,
    If(Match(")"), << >>,
       <<Until(AtEnd, <<Try("type", <<Report("type")>> \o Fail, Fail), Skip, When(Match(")"), Break),
                        Expect(",", <<Report(",")>> \o Fail), Skip, When(Match(")"), Break)>>),
         When(AtEnd, <<Report(")")>> \o Fail)>>),
    Expect("->", <<Report("->")>> \o Fail),
    Try("type", <<Report("type")>> \o Fail, Fail), Build("function type", "none")>> \o Ok

(* Patterns.  The token after the identifier is looked at even if there is *)
(* none.                                                                   *)
Pattern ==
  <<If(Is("identifier"), << >>, NoMatch), Try("identifier", NoMatch, Fail), When(AtEnd, Undefined),
    If(Is("."), ReturnOf("enum variant pattern"), ReturnOf("named pattern"))>>
NamedPattern ==
  <<If(Match(":"), <<Try("type", <<Report("type")>> \o Fail, Fail)>>,
       Speculate("type", <<Report(":")>> \o Fail, << >>, << >>)),
    Build("named pattern", "kids")>> \o Ok
EnumVariantPattern ==
  <<Loop(<<Expect(".", Break), Try("identifier", <<Report("identifier")>> \o Fail, Fail)>>),
    Build("qualified name", "none"),
    When(Match("("),
         <<Until(AtEnd, <<When(Match(")"), Break), Need("pattern", Fail), When(Match(")"), Break), Expect(",", Fail)>>)>>),
    Build("enum variant pattern", "none")>> \o Ok

(* Generic parameters, T or T: {A, B}.                                     *)
GenericParameters == DelimitedList("<", ">", ",", "generic parameter")
GenericParameter ==
  <<Try("identifier name", <<Report("identifier")>> \o Fail, Fail), Skip,
    When(Match(":"), <<Skip, Try("constraints", <<Report("{")>> \o Fail, Fail)>>),
    Build("generic parameter", "none")>> \o Ok

(* A declaration begins with its keyword, or with its name and a colon.    *)
Declaration ==
  <<Specifiers,
    Switch(<<<<{"module"}, ReturnOf("module")>>,
             <<{"import"}, ReturnOf("import")>>,
             <<{"impl"}, ReturnOf("impl")>>,
             <<{"let", "mut", "const"}, ReturnOf("variable")>>>>, << >>),
    If(AfterIs(":"), << >>, NoMatch),
    Try("identifier name", NoMatch, Fail), Skip,
    Expect(":", <<Report(":"), Synchronize>> \o Fail), Skip,
    Switch(<<<<{"fun"}, ReturnOf("function")>>,
             <<{"cap"}, ReturnOf("capability")>>,
             <<{"struct"}, ReturnOf("struct")>>,
             <<{"type"}, ReturnOf("type declaration")>>,
             <<{"enum"}, ReturnOf("enum")>>>>, <<Synchronize>> \o Fail)>>
Import ==
  <<Expect("import", NoMatch), Need("name", <<Report("identifier")>> \o Fail),
    When(Match("from"), <<Skip, Need("string", Undefined)>>), Build("import", "none")>> \o Ok
ModuleDeclaration ==
  <<Expect("module", NoMatch), Try("name", <<Report("identifier")>> \o Fail, Fail), Build("module", "none")>> \o Ok
Variable ==
  <<If(MatchOne({"let", "mut", "const"}), << >>, NoMatch), Need("pattern", Fail),
    When(Match("="), <<Need("expression", <<Report("expression")>> \o Fail)>>), Build("variable", "kids")>> \o Ok

EnumVariant ==
  <<Skip, Try("identifier name", NoMatch, Fail), Skip, When(Is("("), <<Need("type list", Fail)>>),
    Build("enum variant", "none")>> \o Ok
Enum ==
  <<Expect("enum", NoMatch), Skip, Try("generic parameters", << >>, Fail), Skip,
    Try("variants", <<Report("{")>> \o Fail, Fail), Build("enum", "none")>> \o Ok
FieldQuiet == \* Variant: what has no colon is no field.
  <<Skip, Try("identifier name", NoMatch, Fail), Expect(":", NoMatch),
    Try("type", <<Report("type")>> \o Fail, Fail), Build("field", "none")>> \o Ok
Field ==
  <<Skip, Try("identifier name", NoMatch, Fail), Expect(":", <<Report(":")>> \o Fail),
    Try("type", <<Report("type")>> \o Fail, Fail), Build("field", "none")>> \o Ok

(* while (!is_end) { ... if (match("}")) { closed } ... }, and a report if *)
(* the end comes first.                                                    *)
UntilClosed(body) ==
  <<Loop(<<When(AtEnd, <<Report("}")>> \o Fail), Skip, When(Match("}"), Break)>> \o body)>>

Struct ==
  <<Expect("struct", NoMatch), Skip, Try("generic parameters", << >>, Fail), Skip,
    When(Match("("),
      <<Skip, If(Match(")"), << >>,
         <<Loop(<<Try("type", <<Report("type")>> \o Fail, Fail), Skip, If(Match(","), <<Skip>>, Break)>>),
           Expect(")", <<Report(")")>> \o Fail)>>)>>),
    Skip, Expect("{", <<Report("{")>> \o Fail)>>
  \o UntilClosed(<<Try("field", <<Report("identifier")>> \o Fail, Fail), Skip, When(Match(","), << >>)>>)
  \o <<Build("struct", "none")>> \o Ok

(* The results of the generic parameters are not looked at.                *)
TypeDeclaration ==
  <<Expect("type", NoMatch), Skip, Need("generic parameters", << >>), Build("type declaration", "none")>> \o Ok
Capability ==
  <<Expect("cap", NoMatch), Skip, Need("generic parameters", << >>), Expect("{", <<Report("{")>> \o Fail), Skip>>
  \o UntilClosed(<<Try("capability member", <<Report("fun")>> \o Fail, Fail)>>)
  \o <<Build("capability", "none")>> \o Ok
(* Here too what is not a member has been consumed, up to the colon.       *)
CapabilityMember ==
  <<Try("identifier name", NoMatch, Fail), Skip, Expect(":", <<Report(":")>> \o Fail), Skip,
    Switch(<<<<{"type"}, ReturnOf("type declaration")>>, <<{"fun"}, ReturnOf("signature")>>>>, NoMatch)>>
Impl ==
  <<Expect("impl", NoMatch), Skip, Need("type", <<Report("type")>> \o Fail), Skip,
    Expect("for", <<Report("for")>> \o Fail), Skip, Need("type", <<Report("type")>> \o Fail), Skip,
    Expect("{", <<Report("{")>> \o Fail), Skip>>
  \o UntilClosed(<<Need("impl member", Fail), Skip>>)
  \o <<Build("impl", "none")>> \o Ok
ImplMember ==
  <<Try("identifier name", <<Report("identifier")>> \o Fail, Fail), Skip,
    Expect(":", <<Report(":")>> \o Fail), Skip,
    Calls("function", "all", << >>, <<Report("fun")>> \o Fail, Fail)>> \o Ok

Function(requireBody) ==
  <<Expect("fun", NoMatch), Skip, Need("generic parameters", << >>),
    If(Is("("), << >>, <<Report("("), Synchronize>> \o Fail),
    Need("parameters", <<Synchronize>> \o Fail),
    If(Match("->"), <<Try("type", <<Report("type"), Synchronize>> \o Fail, <<Synchronize>> \o Fail)>>,
       Speculate("type", <<Report("->"), Synchronize>> \o Fail, << >>, Fail)),
    If(Is("{"), <<Need("block", <<Report("{")>> \o Fail)>>,
       IF requireBody THEN <<Report("{"), Synchronize>> \o Fail ELSE << >>),
    Build("function", "none")>> \o Ok
Parameter == <<Try("pattern", <<Report("pattern")>> \o Fail, Fail)>> \o Ok

(* Modules.  A file that does not begin with one has an implicit module.   *)
(* What is neither a declaration nor an expression is passed over.         *)
Run ==
  <<Skip, If(Is("module"), <<Need("explicit module", Null)>>, <<Build("module", "none"), Pass("module body", Null)>>),
    Until(AtEnd, <<Skip, When(AtEnd, Break), If(Is("module"), << >>, <<Consume1>> \o Continue),
                   Need("explicit module", Null)>>),
    Build("root", "none")>> \o Ok
ExplicitModule == <<Need("module", Null), Pass("module body", Null)>> \o Ok
ModuleBodyStuck == \* Variant: what is nothing is not passed over.
  <<Until(AtEnd, <<When(Is("module"), Break),
                   Calls("declaration", "none", Continue, << >>, <<Attach(FALSE)>> \o Ok),
                   Calls("expression", "none", Continue, << >>, << >>)>>),
    Attach(TRUE)>> \o Ok
ModuleBody ==
  <<Until(AtEnd, <<When(Is("module"), Break),
                   Calls("declaration", "none", Continue, << >>, <<Attach(FALSE)>> \o Ok),
                   Calls("expression", "none", Continue, << >>, << >>), Consume1>>),
    Attach(TRUE)>> \o Ok
=============================================================================
