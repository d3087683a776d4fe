--------------------------- MODULE CheckerProperties --------------------------
(***************************************************************************)
(* What the checker makes of a program, against a typing that is defined on*)
(* the text alone: every name means what it is declared as, wherever.      *)
(***************************************************************************)
EXTENDS Checker, FiniteSets

Prefix(p, q) == Len(p) <= Len(q) /\ SubSeq(q, 1, Len(p)) = p
Places == {<<u, i>> : u \in DOMAIN program, i \in 1 .. 100}
Declarations == {p \in Places : p[2] \in DOMAIN program[p[1]]}
DeclarationAt(p) == program[p[1]][p[2]]
Checked(p) == p[1] < at[1] \/ (p[1] = at[1] /\ p[2] < at[2])
Quiet(p) == ~\E q \in said \cup reports : Prefix(p, q)

(* The node at a path.                                                     *)
RECURSIVE Below(_, _)
Below(n, p) ==
  IF p = << >> THEN n
  ELSE LET i == Head(p) rest == SubSeq(p, 2, Len(p))
       IN  CASE i = 0 -> Below(n.type, rest)
             [] i = 100 -> Below(n.body, rest)
             [] i = 101 -> IF rest = << >> THEN n ELSE Below(n.type, SubSeq(rest, 2, Len(rest)))
             [] OTHER -> Below(n.parts[i], rest)
NodeAt(p) == Below(DeclarationAt(<<p[1], p[2]>>), SubSeq(p, 3, Len(p)))

(* A type written out: Array<Array<Int>> is <<"Array", "Array", "Int">>.   *)
RECURSIVE Written(_)
Written(id) ==
  IF id = Invalid THEN << >>
  ELSE IF types[id].kind = "GenericInstance" THEN <<"Array">> \o Written(types[id].arguments[1])
  ELSE <<CHOOSE x \in Symbol : bySymbol[x] = id>>
-----------------------------------------------------------------------------
(* The typing of the text.  A function and a struct are types of their own,*)
(* a variable and a generic parameter have no type.                        *)
Unknown == << >>
HasType(name) ==
  IsBuiltin(name) \/ \E p \in Declarations : DeclarationAt(p).name = name /\ DeclarationAt(p).kind \in {"function", "struct"}
Common(l, r) == IF l = r THEN l ELSE Unknown
Operation(name, l, r) ==
  CASE l = Unknown \/ r = Unknown \/ l # r -> Unknown
    [] name \in Arithmetic \cup {"Assign"} -> l
    [] name \in Logic -> IF l = <<"Bool">> THEN l ELSE Unknown
    [] OTHER -> <<"Bool">>

RECURSIVE Meaning(_)
Meaning(n) ==
  CASE n.kind = "none" -> <<"Void">>
    [] n.kind = "number" -> <<"Int">>
    [] n.kind = "string" -> <<"String">>
    [] n.kind = "bool" -> <<"Bool">>
    [] n.kind \in {"identifier", "named"} -> IF HasType(n.name) THEN <<n.name>> ELSE Unknown
    [] n.kind = "block" -> Meaning(n.body)
    [] n.kind = "binary" -> Operation(n.name, Meaning(n.parts[1]), Meaning(n.parts[2]))
    [] n.kind = "while" -> IF Meaning(n.parts[1]) = <<"Bool">> /\ Meaning(n.parts[2]) # Unknown THEN <<"Void">> ELSE Unknown
    [] n.kind = "if" ->
         IF Meaning(n.parts[1]) # <<"Bool">> THEN Unknown
         ELSE Common(Meaning(n.parts[2]), IF Len(n.parts) = 2 THEN <<"Void">> ELSE Meaning(n.parts[3]))
    [] n.kind = "array" ->
         IF n.parts # << >> /\ Meaning(n.parts[1]) # Unknown
            /\ \A i \in DOMAIN n.parts : Meaning(n.parts[i]) = Meaning(n.parts[1])
         THEN <<"Array">> \o Meaning(n.parts[1]) ELSE Unknown
    [] OTHER -> Unknown

(* Expressions that check() or infer() know, all parts included.           *)
RECURSIVE Inferable(_), Checkable(_), Names(_)
Inferable(n) ==
  /\ n.kind \in {"none", "number", "string", "bool", "identifier", "block", "binary", "while", "if", "array"}
  /\ n.kind = "block" => Inferable(n.body)
  /\ n.kind \in {"binary", "while", "if", "array"} => \A i \in DOMAIN n.parts : Inferable(n.parts[i])
Checkable(n) ==
  /\ n.kind \in {"none", "number", "string", "bool", "block", "binary", "if", "array"}
  /\ n.kind = "block" =>
       Checkable(n.body) /\ \A i \in DOMAIN n.parts : n.parts[i].kind \in {"return", "variable", "function", "struct"}
  /\ n.kind \in {"if", "array"} => \A i \in DOMAIN n.parts : Checkable(n.parts[i])
  /\ n.kind = "binary" => \A i \in DOMAIN n.parts : Inferable(n.parts[i])
Names(n) ==
  CASE n.kind = "none" -> {}
    [] n.kind \in {"identifier", "named"} -> {n.name}
    [] OTHER -> Names(n.body) \cup Names(n.type) \cup UNION {Names(n.parts[i]) : i \in DOMAIN n.parts}

(* Names that have a type when the declaration at p is checked.            *)
Before(q, p) == q[1] < p[1] \/ (q[1] = p[1] /\ q[2] < p[2])
Typing(p, name) == IsBuiltin(name) \/ \E q \in Declarations : Before(q, p) /\ DeclarationAt(q).name = name /\ typeOf[name] # Invalid
Ready(p, n) == \A name \in Names(n) : Typing(p, name)
-----------------------------------------------------------------------------
(* A type that a node of an expression is given is the one that the text   *)
(* gives it: neither the order of the declarations, nor an expectation,    *)
(* nor the path by which it was reached (check or infer), changes it.      *)
TypesAreRight ==
  \A p \in DOMAIN node :
    LET n == NodeAt(p)
    IN  n.kind \notin {"variable", "function", "parameter", "field", "generic"} =>
          Written(node[p]) = Meaning(n) /\ Meaning(n) # Unknown

(* What the checker knows it accepts: a variable whose initializer has a   *)
(* type, which fits the annotation, and speaks of nothing that comes later.*)
WellTypedIsAccepted ==
  \A p \in Declarations :
    LET n == DeclarationAt(p)
    IN  /\ Checked(p) /\ n.kind = "variable" /\ n.body # None
        /\ Checkable(n.body) /\ Meaning(n.body) # Unknown /\ Ready(p, n)
        /\ n.type # None => n.type.kind = "named" /\ Meaning(n.type) = Meaning(n.body)
        => p \in DOMAIN node

(* A variable without a type has been complained about, but for one way to *)
(* fail in silence: an operand without a type.                             *)
RECURSIVE LosesOperand(_, _)
LosesOperand(n, p) ==
  \/ n.kind = "binary" /\ \E i \in DOMAIN n.parts : Meaning(n.parts[i]) = Unknown \/ ~Ready(p, n.parts[i])
  \/ n.kind = "block" /\ n.body # None /\ LosesOperand(n.body, p)
  \/ n.kind \in {"if", "array"} /\ \E i \in DOMAIN n.parts : LosesOperand(n.parts[i], p)
OnlyOperandsFailSilently ==
  \A p \in Declarations :
    LET n == DeclarationAt(p)
    IN  Checked(p) /\ n.kind = "variable" /\ p \notin DOMAIN node /\ Quiet(p) => LosesOperand(n.body, p)

(* A variable has the type of its annotation, or else that annotation was  *)
(* complained about and the variable has the type of its initializer: a    *)
(* complaint is the only trace of an annotation that is not obeyed.        *)
AnnotationsBind ==
  \A p \in Declarations \cap DOMAIN node :
    LET n == DeclarationAt(p)
        annotation == TypePath(PatternPath(p))
    IN  n.kind = "variable" =>
          IF n.type = None \/ annotation \notin DOMAIN node
          THEN Written(node[p]) = Meaning(n.body) /\ (n.type # None => \E q \in said : Prefix(annotation, q))
          ELSE node[p] = node[annotation] /\ (n.body # None => Meaning(n.body) = Written(node[p]))

(* The members of a struct are its fields, in their order, each name once; *)
(* a part that is missing among them has been complained about.            *)
FieldsAccounted ==
  \A p \in Declarations :
    LET n == DeclarationAt(p)
        members == content[bySymbol[n.name]].members
        Entered(i) == \E k \in DOMAIN members : members[k].name = n.parts[i].name /\ Written(members[k].type) = Meaning(n.parts[i].type)
    IN  Checked(p) /\ n.kind = "struct" /\ ~Redeclared(n.name, p) =>
          /\ \A j, k \in DOMAIN members : members[j].name = members[k].name => j = k
          /\ \A i \in DOMAIN n.parts : Part(p, i) \notin said => n.parts[i].kind = "field" /\ Entered(i)
          /\ Len(members) + Cardinality({i \in DOMAIN n.parts : Part(p, i) \in said}) = Len(n.parts)

(* Nothing that a declaration loses, its type, its annotation or a part, is*)
(* lost without a complaint.                                               *)
LossesReported == OnlyOperandsFailSilently /\ AnnotationsBind /\ FieldsAccounted

(* A function's type is of use only when it is complete: one that a        *)
(* parameter or a result stopped half way can be reached from nowhere.     *)
Complete(id, n) ==
  /\ Len(content[id].params) = Len(n.parts)
  /\ \A i \in DOMAIN n.parts : Written(content[id].params[i]) = Meaning(n.parts[i].type)
  /\ (n.type # None) = (content[id].result # Invalid)
NoHalfBuilt ==
  \A p \in Declarations :
    LET n == DeclarationAt(p)
        id == bySymbol[n.name]
    IN  n.kind = "function" /\ ~Redeclared(n.name, p) /\ id # Invalid =>
          \/ typeOf[n.name] = id /\ Complete(id, n)
          \/ /\ typeOf[n.name] = Invalid
             /\ \A q \in DOMAIN node : node[q] # id
             /\ \A k \in DOMAIN content :
                  /\ content[k].result # id
                  /\ \A j \in DOMAIN content[k].params : content[k].params[j] # id
                  /\ \A j \in DOMAIN content[k].members : content[k].members[j].type # id

(* The returns that check() comes by in a declaration, each with the       *)
(* function it returns from; infer() comes by none.                        *)
RECURSIVE Returns(_, _)
Returns(n, owner) ==
  CASE n.kind = "return" -> {<<owner, n>>} \cup (IF owner = None THEN {} ELSE Returns(n.body, owner))
    [] n.kind = "function" -> Returns(n.body, n)
    [] n.kind \in {"variable", "init"} -> Returns(n.body, owner)
    [] n.kind = "block" -> Returns(n.body, owner) \cup UNION {Returns(n.parts[i], owner) : i \in DOMAIN n.parts}
    [] n.kind \in {"if", "array"} -> UNION {Returns(n.parts[i], owner) : i \in DOMAIN n.parts}
    [] OTHER -> {}

(* A return is accepted in a function only, with a value of its result; in *)
(* particular one in a module's init, or in a later function, is not taken *)
(* for a return of the function before it, even if that one failed. Behind *)
(* a nested function no return of the outer one is left to be confused: a  *)
(* block holds one item.                                                   *)
ReturnsMatch ==
  \A p \in Declarations : Checked(p) /\ Quiet(p) =>
    \A r \in Returns(DeclarationAt(p), None) :
      r[1] # None /\ r[1].type # None /\ Meaning(r[2].body) = Meaning(r[1].type)
=============================================================================
