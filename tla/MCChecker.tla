------------------------------- MODULE MCChecker ------------------------------
(***************************************************************************)
(* Small programs for the checker.                                         *)
(***************************************************************************)
EXTENDS CheckerProperties

Leaf(kind) == Node(kind, "", None, << >>, None)
Number == Leaf("number")
String == Leaf("string")
Bool == Leaf("bool")
Call == Leaf("call")
Named(name) == Node("named", name, None, << >>, None)
Identifier(name) == Node("identifier", name, None, << >>, None)
Generic(name, argument) == Node("generic", name, None, <<Named(argument)>>, None)
Of(kind, parts) == Node(kind, "", None, parts, None)
Binary(operation, l, r) == Node("binary", operation, None, <<l, r>>, None)
Value(e) == Node("block", "", None, << >>, e)
Empty == Value(None)
Item(n) == Node("block", "", None, <<n>>, None)
Return(e) == Node("return", "", None, << >>, e)
Let(name, type, e) == Node("variable", name, type, << >>, e)
Parameter(type) == Node("parameter", "a", type, << >>, None)
Function(name, params, type, body) == Node("function", name, type, params, body)
Field(name, type) == Node("field", name, type, << >>, None)
Struct(name, parts) == Node("struct", name, None, parts, None)
ModuleInit(body) == Node("init", "", None, << >>, body)
Other(kind) == Node(kind, "", None, << >>, None)

(* What variables are initialized with.  An identifier that is the value of*)
(* a block is not resolved: it has no name here.                           *)
Expressions ==
  {Number, String, Of("array", << >>), Of("array", <<Number, Number>>), Of("array", <<Number, String>>),
   Of("array", <<Of("array", <<Number>>)>>),
   Binary("Add", Number, Number), Binary("Add", Number, String), Binary("Less", Number, Number),
   Binary("And", Bool, Binary("Equal", String, String)), Binary("Equal", Of("array", <<Number>>), Of("array", <<Number>>)),
   Binary("Equal", Identifier("f"), Identifier("f")), Binary("Add", Identifier("x"), Number), Binary("Assign", Number, Number),
   Of("if", <<Bool, Value(Number), Value(Number)>>), Of("if", <<Bool, Value(Number), Value(String)>>),
   Of("if", <<Bool, Value(Number)>>), Of("if", <<Bool, Empty>>), Of("if", <<Number, Empty>>),
   Of("if", <<Binary("Less", Number, Number), Item(Return(Number)), Value(Identifier(""))>>),
   Binary("Equal", Of("if", <<Bool, Empty>>), Of("while", <<Bool, Empty>>)),
   Binary("Equal", Of("if", <<Bool, Value(Number), Value(String)>>), Number),
   Value(String), Identifier("x"), Call}
Annotations == {None, Named("Int"), Named("Bool"), Named("S"), Generic("Array", "Int"), Of("functionType", << >>)}
Variables == {Let("x", a, e) : a \in Annotations, e \in Expressions} \cup {Let("x", a, None) : a \in Annotations}

Functions ==
  {Function("f", << >>, None, Empty),
   Function("f", <<Parameter(Named("Int"))>>, Named("Int"), Item(Return(Number))),
   Function("f", <<Parameter(Named("S"))>>, Named("S"), Item(Return(Number))),
   Function("f", <<Parameter(Named("Int")), Parameter(None)>>, Named("Int"), Empty),
   Function("f", <<Parameter(Named("Int"))>>, Generic("Array", "Int"), Empty),
   Function("f", << >>, Named("Void"), Item(Return(None))),
   Function("f", << >>, Named("Bool"), Item(Return(None))),
   Function("f", << >>, Named("Void"), Item(Return(Number))),
   Function("f", << >>, Named("Int"), Item(Return(Binary("Add", Identifier("x"), Number)))),
   Function("f", << >>, Named("Bool"), Item(Return(Binary("Equal", Identifier("f"), Identifier("f"))))),
   Function("f", << >>, Named("Int"), Item(Of("if", <<Bool, Item(Return(String))>>))),
   Function("f", << >>, Named("Int"), Value(Of("if", <<Bool, Item(Return(Number)), Item(Return(String))>>))),
   Function("f", << >>, Named("Int"), Value(Call)),
   Function("f", << >>, Named("String"), Item(Function("g", << >>, Named("Int"), Item(Return(Number))))),
   Function("f", << >>, None, Item(Return(Number)))}
Structs ==
  {Struct("S", << >>), Struct("S", <<Field("x", Named("Int")), Field("y", Named("S"))>>),
   Struct("S", <<Field("x", Named("f")), Field("x", Named("Bool")), Field("x", Named("Int"))>>),
   Struct("S", <<Named("Int"), Field("x", Generic("Array", "Int")), Field("y", Named("Bool"))>>)}
Inits == {ModuleInit(Item(Return(Number))), ModuleInit(Item(Let("z", Named("Int"), String))), ModuleInit(Value(Number))}
Others == {Other("import"), Other("enum")}

(* Any two or three declarations, in one unit or in two; the variables vary*)
(* most and so stand next to fewer.                                        *)
Shared == Functions \cup Structs \cup Inits \cup Others \cup {Let("x", Named("Int"), Number), Let("x", None, Identifier("f"))}
Pairs ==
  {<<<<a, b>>>> : a \in Shared \cup Variables, b \in Shared}
    \cup {<<<<a>>, <<b>>>> : a \in Shared, b \in Shared \cup Variables}
    \cup {<<<<a, b, c>>>> : a \in Functions \cup Structs, b \in Structs \cup Inits, c \in Functions \cup Inits}

ManyPrograms == Pairs

BuiltinNames == <<"Int", "String", "Bool", "Void", "Array">>
Symbols == {"Int", "String", "Bool", "Void", "Array", "f", "g", "S", "x", "z", ""}
=============================================================================
