-------------------------------- MODULE Checker -------------------------------
(***************************************************************************)
(* TypeChecker: the declarations of the units of a program are checked one *)
(* after the other, each as a whole.  A node of the tree is a record, and  *)
(* is identified by its path: unit, declaration, then the place of a part, *)
(* of the type or of the body.  The resolver's work is part of the input:  *)
(* a name has a symbol if it was declared in this unit or in an earlier.   *)
(***************************************************************************)
EXTENDS Naturals, Sequences, TLC

CONSTANTS Programs, \* sequences of units, each a sequence of declarations
          Builtins, \* names of the primitive types and of Array, in the order of their binding
          Symbol,   \* the names of all declarations, and Builtins
          MaxTypes  \* bound on the size of the table

VARIABLES program,  \* what is compiled
          at,       \* <<unit, declaration>>: what is checked next
          types, bySymbol, \* TypeManager (TypeTable)
          content,  \* what the checker has entered in each type
          typeOf,   \* Symbol::type
          node,     \* SemanticInfo::types, of all units
          fn,       \* current_function
          said,     \* errors written to stderr
          reports   \* diagnostics reported

vars == <<program, at, types, bySymbol, content, typeOf, node, fn, said, reports>>

Table == INSTANCE TypeTable WITH MaxArity <- 1
Invalid == Table!Invalid
None == [kind |-> "none"]
NoSymbol == ""
Node(kind, name, type, parts, body) == [kind |-> kind, name |-> name, type |-> type, parts |-> parts, body |-> body]

(* Paths of the type, of the body and of the pattern of a node.            *)
Part(p, i) == Append(p, i)
TypePath(p) == Append(p, 0)
BodyPath(p) == Append(p, 100)
PatternPath(p) == Append(p, 101)

(* LanguageBootstrap: ids are given in this order.                         *)
BuiltinId(name) == CHOOSE i \in DOMAIN Builtins : Builtins[i] = name
IntType == BuiltinId("Int")
StringType == BuiltinId("String")
BoolType == BuiltinId("Bool")
VoidType == BuiltinId("Void")
ArrayConstructor == BuiltinId("Array")
NoContent == [params |-> << >>, result |-> Invalid, members |-> << >>]

(* The resolver's answer: a redeclared name has no symbol.                 *)
IsBuiltin(name) == \E i \in DOMAIN Builtins : Builtins[i] = name
SymbolOf(name, p) ==
  IF IsBuiltin(name) \/ \E u \in 1 .. p[1] : \E i \in DOMAIN program[u] : program[u][i].name = name
  THEN name ELSE NoSymbol
Redeclared(name, p) ==
  \E u \in 1 .. p[1], i \in 1 .. 100 :
    i \in DOMAIN program[u] /\ program[u][i].name = name /\ (u < p[1] \/ i < p[2])
DeclaredSymbol(n, p) == IF Redeclared(n.name, p) THEN NoSymbol ELSE n.name
-----------------------------------------------------------------------------
(* A function of the checker takes the state and returns a type, or        *)
(* Invalid, with the state that it leaves.                                 *)
Result(type, s) == [type |-> type, state |-> s]
Fail(s) == Result(Invalid, s)
Error(s, p) == [s EXCEPT !.said = @ \cup {p}]
Mismatch(s, p) == Fail([s EXCEPT !.reports = @ \cup {p}])
SetType(s, p, type) == [s EXCEPT !.node = (p :> type) @@ @]

(* With goes on with whatever a call gave, Then only with a type.          *)
With(r, Next1(_, _)) == Next1(r.type, r.state)
Then(r, Next1(_, _)) == IF r.type = Invalid THEN r ELSE With(r, Next1)
Typed(r, p) == Then(r, LAMBDA t, s : Result(t, SetType(s, p, t)))

AssignableNotVoid(s, target, source) == \* Variant: Void is no target.
  target # Invalid /\ source # Invalid /\ target # VoidType /\ Table!Assignable(s.types)[<<target, source>>]
Assignable(s, target, source) ==
  target # Invalid /\ source # Invalid /\ Table!Assignable(s.types)[<<target, source>>]

(* TypeManager::get_or_create and get_or_create_generic_instance.          *)
Create(s, symbol, kind) ==
  [s EXCEPT !.types = Append(@, Table!OfSymbol(kind)), !.content = Append(@, NoContent),
            !.bySymbol[symbol] = Len(s.types) + 1]
GetOrCreate(s, symbol, kind) == IF s.bySymbol[symbol] # Invalid THEN s ELSE Create(s, symbol, kind)
ArrayOf(s, element) ==
  IF Table!HasInstance(s.types, ArrayConstructor, <<element>>)
  THEN Result(Table!InstanceId(s.types, ArrayConstructor, <<element>>), s)
  ELSE Result(Len(s.types) + 1,
              [s EXCEPT !.types = Append(@, Table!OfParts(ArrayConstructor, <<element>>)), !.content = Append(@, NoContent)])

(* TypeSystem                                                              *)
Arithmetic == {"Add", "Subtract", "Multiply", "Divide", "Modulo"}
Logic == {"And", "Or"}
BinaryResult(s, operation, l, r) ==
  CASE operation \in Arithmetic -> IF l = r THEN l ELSE Invalid
    [] operation \in Logic -> IF l = BoolType /\ r = BoolType THEN BoolType ELSE Invalid
    [] operation = "Assign" -> IF Assignable(s, l, r) THEN l ELSE Invalid
    [] OTHER -> IF l = r THEN BoolType ELSE Invalid
CommonRight(s, l, r) == r \* Variant: what the else block has is not compared.
CommonType(s, l, r) == IF Assignable(s, l, r) THEN l ELSE IF Assignable(s, r, l) THEN r ELSE Invalid
-----------------------------------------------------------------------------
(* infer(): no expectation, no diagnostic; what it does not know fails     *)
(* with a line on stderr.                                                  *)
RECURSIVE Infer(_, _, _), InferRest(_, _, _, _, _)

(* Every further element is assignable to the first.                       *)
InferRest(s, n, p, i, element) ==
  IF i > Len(n.parts) THEN ArrayOf(s, element)
  ELSE Then(Infer(s, n.parts[i], Part(p, i)), LAMBDA t, s1 :
         IF Assignable(s1, element, t) THEN InferRest(s1, n, p, i + 1, element) ELSE Fail(s1))

InferArray(s, n, p) ==
  IF n.parts = << >> THEN Fail(s)
  ELSE Then(Infer(s, n.parts[1], Part(p, 1)), LAMBDA t, s1 : InferRest(s1, n, p, 2, t))

InferBinary(s, n, p) ==
  Then(Infer(s, n.parts[1], Part(p, 1)), LAMBDA l, s1 :
    Then(Infer(s1, n.parts[2], Part(p, 2)), LAMBDA r, s2 : Result(BinaryResult(s2, n.name, l, r), s2)))

InferIf(s, n, p) ==
  Then(Infer(s, n.parts[1], Part(p, 1)), LAMBDA c, s1 :
    IF c # BoolType THEN Fail(s1) ELSE
    Then(Infer(s1, n.parts[2], Part(p, 2)), LAMBDA l, s2 :
      IF Len(n.parts) = 2 THEN Result(IF l = VoidType THEN VoidType ELSE Invalid, s2)
      ELSE Then(Infer(s2, n.parts[3], Part(p, 3)), LAMBDA r, s3 : Result(CommonType(s3, l, r), s3))))

InferWhile(s, n, p) ==
  Then(Infer(s, n.parts[1], Part(p, 1)), LAMBDA c, s1 :
    IF c # BoolType THEN Fail(s1)
    ELSE Then(Infer(s1, n.parts[2], Part(p, 2)), LAMBDA b, s2 : Result(VoidType, s2)))

(* The items of a block are not looked at.                                 *)
InferBlock(s, n, p) == IF n.body = None THEN Result(VoidType, s) ELSE Infer(s, n.body, BodyPath(p))

TypeOfName(s, name, p) == IF SymbolOf(name, p) = NoSymbol THEN Invalid ELSE s.typeOf[name]
InferIdentifier(s, n, p) == Result(TypeOfName(s, n.name, p), s)

Infer(s, n, p) ==
  Typed(CASE n.kind = "number" -> Result(IntType, s)
          [] n.kind = "string" -> Result(StringType, s)
          [] n.kind = "bool" -> Result(BoolType, s)
          [] n.kind = "array" -> InferArray(s, n, p)
          [] n.kind = "if" -> InferIf(s, n, p)
          [] n.kind = "while" -> InferWhile(s, n, p)
          [] n.kind = "binary" -> InferBinary(s, n, p)
          [] n.kind = "identifier" -> InferIdentifier(s, n, p)
          [] n.kind = "block" -> InferBlock(s, n, p)
          [] OTHER -> Fail(Error(s, p)),
        p)
-----------------------------------------------------------------------------
(* resolve_type()                                                          *)
ResolveNamed(s, n, p) ==
  LET type == TypeOfName(s, n.name, p) IN IF type = Invalid THEN Fail(Error(s, p)) ELSE Result(type, s)

(* The arguments are types, which infer() does not know.  Every generic of *)
(* these programs has one parameter.                                       *)
ResolveGeneric(s, n, p) ==
  LET constructor == TypeOfName(s, n.name, p)
  IN  IF constructor = Invalid \/ Len(n.parts) # 1 \/ s.types[constructor].kind # "Generic" THEN Fail(Error(s, p))
      ELSE With(Infer(s, n.parts[1], Part(p, 1)), LAMBDA argument, s1 :
             IF argument = Invalid THEN Fail(Error(s1, Part(p, 1))) ELSE ArrayOf(s1, argument))

Resolve(s, n, p) ==
  Typed(CASE n.kind = "named" -> ResolveNamed(s, n, p)
          [] n.kind = "generic" -> ResolveGeneric(s, n, p)
          [] OTHER -> Fail(Error(s, p)),
        p)

(* resolve_pattern_type(): silent without an annotation.                   *)
ResolvePattern(s, n, p) == IF n.type = None THEN Fail(s) ELSE Resolve(s, n.type, TypePath(p))
-----------------------------------------------------------------------------
(* build_type(): the type exists before what is in it.                     *)
RECURSIVE PushParams(_, _, _, _, _), AddMembers(_, _, _, _, _)

PushParams(s, n, p, id, i) ==
  IF i > Len(n.parts) THEN Result(id, s)
  ELSE With(ResolvePattern(s, n.parts[i], Part(p, i)), LAMBDA t, s1 :
         IF t = Invalid THEN Fail(Error(s1, Part(p, i)))
         ELSE PushParams(SetType([s1 EXCEPT !.content[id].params = Append(@, t)], Part(p, i), t), n, p, id, i + 1))

PushResult(s, n, p, id) ==
  IF n.type = None THEN Result(id, s)
  ELSE With(Resolve(s, n.type, TypePath(p)), LAMBDA t, s1 :
         IF t = Invalid THEN Fail(Error(s1, TypePath(p))) ELSE Result(id, [s1 EXCEPT !.content[id].result = t]))

FillFunctionEarly(s, n, p, symbol, id) == \* Variant: the symbol has the type before the type is complete.
  Then(PushParams([s EXCEPT !.content[id].params = << >>, !.typeOf[symbol] = id], n, p, id, 1), LAMBDA t, s1 :
    PushResult(s1, n, p, id))
FillFunction(s, n, p, symbol, id) ==
  Then(PushParams([s EXCEPT !.content[id].params = << >>], n, p, id, 1), LAMBDA t, s1 :
    Then(PushResult(s1, n, p, id), LAMBDA u, s2 : Result(id, [s2 EXCEPT !.typeOf[symbol] = id])))

FillExisting(s, n, p, symbol) == FillFunction(s, n, p, symbol, s.bySymbol[symbol])
BuildFunction(s, n, p) ==
  LET symbol == DeclaredSymbol(n, p)
  IN  IF symbol = NoSymbol THEN Fail(Error(s, p)) ELSE FillExisting(GetOrCreate(s, symbol, "Function"), n, p, symbol)

(* Compositions are types, which infer() does not know, and come first.    *)
(* Each part that cannot be entered is complained about and passed over.   *)
HasMember(s, id, name) == \E k \in DOMAIN s.content[id].members : s.content[id].members[k].name = name
AddField(s, f, q, id) ==
  IF HasMember(s, id, f.name) THEN Error(s, q)
  ELSE With(Resolve(s, f.type, TypePath(q)), LAMBDA t, s1 :
         IF t = Invalid THEN Error(s1, q)
         ELSE [s1 EXCEPT !.content[id].members = Append(@, [name |-> f.name, type |-> t])])
AddMember(s, f, q, id) == IF f.kind = "field" THEN AddField(s, f, q, id) ELSE Error(Infer(s, f, q).state, q)
AddMembers(s, n, p, id, i) ==
  IF i > Len(n.parts) THEN Result(id, s)
  ELSE AddMembers(AddMember(s, n.parts[i], Part(p, i), id), n, p, id, i + 1)

FillStruct(s, n, p, symbol, id) ==
  AddMembers([s EXCEPT !.typeOf[symbol] = id, !.content[id].members = << >>], n, p, id, 1)
FillExistingStruct(s, n, p, symbol) == FillStruct(s, n, p, symbol, s.bySymbol[symbol])
BuildStruct(s, n, p) ==
  LET symbol == DeclaredSymbol(n, p)
  IN  IF symbol = NoSymbol THEN Fail(Error(s, p)) ELSE FillExistingStruct(GetOrCreate(s, symbol, "Struct"), n, p, symbol)
-----------------------------------------------------------------------------
(* check(): a declaration or a return gives Void, whatever comes of it.    *)
RECURSIVE Check(_, _, _, _), CheckRest(_, _, _, _, _), CheckItems(_, _, _, _)

(* What has a type must fit the expected one, where there is one.          *)
Expect(s, p, expected, actual) ==
  IF expected # Invalid /\ ~Assignable(s, expected, actual) THEN Mismatch(s, p)
  ELSE Result(actual, SetType(s, p, actual))

CheckLiteral(s, n, p, expected) == With(Infer(s, n, p), LAMBDA t, s1 : Expect(s1, p, expected, t))

CheckBinary(s, n, p, expected) ==
  Then(Infer(s, n.parts[1], Part(p, 1)), LAMBDA l, s1 :
    Then(Infer(s1, n.parts[2], Part(p, 2)), LAMBDA r, s2 :
      LET actual == BinaryResult(s2, n.name, l, r)
      IN  IF actual = Invalid THEN Mismatch(s2, p) ELSE Expect(s2, p, expected, actual)))

CheckRestSilent(s, n, p, i, element) == \* Variant: an element of another type is not reported.
  IF i > Len(n.parts) THEN ArrayOf(s, element)
  ELSE Then(Check(s, n.parts[i], Part(p, i), Invalid), LAMBDA t, s1 :
         IF Assignable(s1, element, t) THEN CheckRest(s1, n, p, i + 1, element) ELSE Fail(s1))
CheckRest(s, n, p, i, element) ==
  IF i > Len(n.parts) THEN ArrayOf(s, element)
  ELSE Then(Check(s, n.parts[i], Part(p, i), Invalid), LAMBDA t, s1 :
         IF Assignable(s1, element, t) THEN CheckRest(s1, n, p, i + 1, element) ELSE Mismatch(s1, p))
CheckElements(s, n, p) ==
  IF n.parts = << >> THEN Fail(s)
  ELSE Then(Check(s, n.parts[1], Part(p, 1), Invalid), LAMBDA t, s1 : CheckRest(s1, n, p, 2, t))

(* No annotation resolves to an instance (ResolveGeneric): the expected    *)
(* type of an array, if there is one, is not an array.                     *)
CheckArray(s, n, p, expected) ==
  With(CheckElements(s, n, p), LAMBDA t, s1 :
    IF t # Invalid THEN Expect(s1, p, expected, t) ELSE IF n.parts = << >> THEN Mismatch(s1, p) ELSE Fail(s1))

CheckIf(s, n, p, expected) ==
  Then(Check(s, n.parts[1], Part(p, 1), BoolType), LAMBDA c, s1 :
    IF Len(n.parts) = 2
    THEN Then(Check(s1, n.parts[2], Part(p, 2), VoidType), LAMBDA t, s2 : Expect(s2, p, expected, VoidType))
    ELSE Then(Check(s1, n.parts[2], Part(p, 2), expected), LAMBDA l, s2 :
           Then(Check(s2, n.parts[3], Part(p, 3), expected), LAMBDA r, s3 :
             LET actual == IF expected # Invalid THEN expected ELSE CommonType(s3, l, r)
             IN  IF actual = Invalid THEN Mismatch(s3, p) ELSE Result(actual, SetType(s3, p, actual)))))

CheckItems(s, n, p, i) ==
  IF i > Len(n.parts) THEN Result(VoidType, s)
  ELSE Then(Check(s, n.parts[i], Part(p, i), Invalid), LAMBDA t, s1 : CheckItems(s1, n, p, i + 1))
CheckBlock(s, n, p, expected) ==
  Then(CheckItems(s, n, p, 1), LAMBDA t, s1 :
    IF n.body = None THEN Expect(s1, p, expected, VoidType)
    ELSE Typed(Check(s1, n.body, BodyPath(p), expected), p))

(* The type of what is returned is the one that its node has.              *)
TypeAt(s, p) == IF p \in DOMAIN s.node THEN s.node[p] ELSE Invalid
CheckValue(s, n, p, expected) ==
  With(Check(s, n.body, BodyPath(p), Invalid), LAMBDA t, s1 :
    IF expected = VoidType \/ ~Assignable(s1, expected, TypeAt(s1, BodyPath(p))) THEN Error(s1, p) ELSE s1)
CheckReturn(s, n, p) ==
  IF s.fn = Invalid \/ s.content[s.fn].result = Invalid THEN Error(s, p)
  ELSE IF n.body # None THEN CheckValue(s, n, p, s.content[s.fn].result)
  ELSE IF s.content[s.fn].result = VoidType THEN s ELSE Error(s, p)

(* Without an annotation, or with one that does not resolve, the           *)
(* initializer gives the type.                                             *)
CheckInitializer(s, n, p, declared) ==
  IF n.body # None THEN Check(s, n.body, BodyPath(p), declared)
  ELSE IF declared # Invalid THEN Result(declared, s) ELSE Mismatch(s, p)
SetBoth(s, p, type) == SetType(SetType(s, PatternPath(p), type), p, type)
CheckVariable(s, n, p) ==
  With(ResolvePattern(s, n, PatternPath(p)), LAMBDA declared, s1 :
    With(CheckInitializer(s1, n, p, declared), LAMBDA given, s2 :
      IF given = Invalid THEN s2 ELSE SetBoth(s2, p, IF declared # Invalid THEN declared ELSE given)))

CheckBody(s, n, p, id) == Check([s EXCEPT !.fn = id], n.body, BodyPath(p), Invalid)
CheckFunctionLeaving(s, n, p) == \* Variant: a body that fails leaves its function current.
  With(BuildFunction(s, n, p), LAMBDA id, s1 :
    IF id = Invalid \/ n.body = None THEN s1
    ELSE With(CheckBody(s1, n, p, id), LAMBDA t, s2 : IF t = Invalid THEN s2 ELSE [s2 EXCEPT !.fn = s.fn]))
CheckFunction(s, n, p) ==
  With(BuildFunction(s, n, p), LAMBDA id, s1 :
    IF id = Invalid \/ n.body = None THEN s1 ELSE [CheckBody(s1, n, p, id).state EXCEPT !.fn = s.fn])

CheckStruct(s, n, p) == BuildStruct(s, n, p).state
CheckModuleInit(s, n, p) == Check(s, n.body, BodyPath(p), Invalid).state

Check(s, n, p, expected) ==
  CASE n.kind \in {"number", "string", "bool"} -> CheckLiteral(s, n, p, expected)
    [] n.kind = "array" -> CheckArray(s, n, p, expected)
    [] n.kind = "binary" -> CheckBinary(s, n, p, expected)
    [] n.kind = "if" -> CheckIf(s, n, p, expected)
    [] n.kind = "block" -> CheckBlock(s, n, p, expected)
    [] n.kind = "return" -> Result(VoidType, CheckReturn(s, n, p))
    [] n.kind = "variable" -> Result(VoidType, CheckVariable(s, n, p))
    [] n.kind = "function" -> Result(VoidType, CheckFunction(s, n, p))
    [] n.kind = "struct" -> Result(VoidType, CheckStruct(s, n, p))
    [] n.kind = "init" -> Result(VoidType, CheckModuleInit(s, n, p))
    [] n.kind = "import" -> Result(VoidType, s)
    [] OTHER -> Fail(Error(s, p))
-----------------------------------------------------------------------------
Init ==
  /\ program \in Programs
  /\ at = <<1, 1>>
  /\ types = [i \in DOMAIN Builtins |-> Table!OfSymbol(IF i = ArrayConstructor THEN "Generic" ELSE "Primitive")]
  /\ content = [i \in DOMAIN Builtins |-> NoContent]
  /\ bySymbol = [x \in Symbol |-> IF IsBuiltin(x) THEN BuiltinId(x) ELSE Invalid]
  /\ typeOf = bySymbol
  /\ node = << >>
  /\ fn = Invalid
  /\ said = {} /\ reports = {}

State ==
  [types |-> types, bySymbol |-> bySymbol, content |-> content, typeOf |-> typeOf,
   node |-> node, fn |-> fn, said |-> said, reports |-> reports]

Finished == at[1] > Len(program)
UnitFinished == at[2] > Len(program[at[1]])

Leave(s) ==
  /\ Len(s.types) <= MaxTypes
  /\ types' = s.types /\ content' = s.content /\ bySymbol' = s.bySymbol
  /\ typeOf' = s.typeOf /\ node' = s.node /\ fn' = s.fn
  /\ said' = s.said /\ reports' = s.reports

(* check_module_declaration: the next declaration, whatever came of this.  *)
CheckDeclaration(kinds) ==
  /\ ~Finished /\ ~UnitFinished
  /\ program[at[1]][at[2]].kind \in kinds
  /\ Leave(Check(State, program[at[1]][at[2]], at, Invalid).state)
  /\ at' = <<at[1], at[2] + 1>>
  /\ UNCHANGED program

(* CheckStage: a TypeChecker of its own for each unit.                     *)
NextUnit ==
  /\ ~Finished /\ UnitFinished
  /\ at' = <<at[1] + 1, 1>>
  /\ fn' = Invalid
  /\ UNCHANGED <<program, types, bySymbol, content, typeOf, node, said, reports>>

Next ==
  \/ CheckDeclaration({"variable"})
  \/ CheckDeclaration({"function"})
  \/ CheckDeclaration({"struct"})
  \/ CheckDeclaration({"init"})
  \/ CheckDeclaration({"import"})
  \/ CheckDeclaration({"enum", "type", "capability", "impl"})
  \/ NextUnit

Spec == Init /\ [][Next]_vars
=============================================================================
