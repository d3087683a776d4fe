------------------------------- MODULE MCNames -------------------------------
(***************************************************************************)
(* Small instances of Names.  The depth of a root is 0, of a module 1, of  *)
(* what stands in a module 2.                                              *)
(***************************************************************************)
EXTENDS NamesProperties

D(depth, kind, name) == [depth |-> depth, kind |-> kind, name |-> name, of |-> ""]
P(depth, kind) == D(depth, kind, "x")
I(depth, name) == D(depth, "identifier", name)
Ty(depth, name) == D(depth, "named type", name)
QTy(depth, module, name) == [depth |-> depth, kind |-> "named type", name |-> name, of |-> module]
Pat(depth, name) == D(depth, "pattern", name)
Fun(depth, name) == D(depth, "function", name)
Let(depth) == P(depth, "variable")
Do(depth) == P(depth, "statement")
Block(depth) == P(depth, "block")

(* Declarations of x and y, with uses of both, before, inside and after;   *)
(* a block has one item, for the parser builds no other.                   *)
Samples ==
  <<<<Let(2), Pat(3, "x"), I(3, "y")>>,
    <<Let(2), Pat(3, "y"), Ty(4, "x"), P(3, "expression"), I(4, "x"), I(4, "y")>>,
    <<Fun(2, "x"), Pat(3, "y"), Ty(4, "Int"), Ty(3, "x"), Block(3), Let(4), Pat(5, "x"), I(5, "y")>>,
    <<Fun(2, "y"), D(3, "generic", "x"), Ty(4, "y"), Pat(3, "y"), Ty(4, "x"), Pat(3, "x"), Ty(4, "Int"), Block(3),
        Fun(4, "x"), Pat(5, "f"), Ty(6, "x"), Block(5), Do(6), I(7, "y")>>,
    <<Fun(2, "f"), Block(3), Do(4), P(5, "expression"), I(6, "x"), Block(6), Let(7), Pat(8, "x"), I(8, "y"),
        Block(6), Let(7), Pat(8, "y"), P(8, "expression"), I(9, "x"), Block(9), I(10, "y")>>,
    <<D(2, "struct", "x"), D(3, "generic", "y"), Ty(4, "x"), D(3, "field", "x"), Ty(4, "y"), D(3, "field", "f"), Ty(4, "Int")>>,
    <<D(2, "struct", "y"), Ty(3, "x"), D(3, "field", "x"), D(4, "generic type", "y"), Ty(5, "Int"),
        D(3, "field", "x"), Ty(4, "x")>>,
    <<D(2, "enum", "x"), D(3, "generic", "Int"), D(3, "variant", "y"), Ty(4, "Int"), Ty(4, "x"), D(3, "variant", "y")>>,
    <<D(2, "type", "Int"), D(3, "generic", "y"), Ty(4, "x")>>,
    <<D(2, "capability", "y"), D(3, "generic", "x"), Fun(3, "x"), Fun(3, "y"), Ty(4, "x")>>,
    <<P(2, "impl"), Fun(3, "x"), Block(4), Do(5), I(6, "x"), Fun(3, "x"), Pat(4, "y"), Block(4)>>,
    <<Let(2), Pat(3, "x"), Block(3), Fun(4, "y"), Ty(5, "x"), Block(5), Let(6), Pat(7, "y"), I(7, "x")>>,
    <<Fun(2, "f"), Pat(3, "x"), P(4, "function type"), Ty(5, "y"), Block(3), Do(4), P(5, "member"), I(6, "x"),
      Fun(2, "g"), Ty(3, "y"), Block(3), P(4, "expression"), I(5, "x"), I(5, "y")>>>>

MCName == {"Int", "x", "y", "f", "g"}
MCModule == {"builtin", "M", "A", "B"}
MCBuiltinName == <<"Int">>
TwoListed == <<"a", "b">>

Mod(name) == D(1, "module", name)
Import(name) == D(2, "import", name)
Text(file, items) == <<D(0, "root", file)>> \o items

(* One file with two declarations out of Samples, before them one more use *)
(* of x, and then the expressions of the module: x, { let y = x } and y..m.*)
OneFileTexts ==
  LET n == Len(Samples)
      init == <<P(2, "init"), I(3, "x"), Block(3), Let(4), Pat(5, "y"), I(5, "x"), P(3, "member"), I(4, "y")>>
  IN  << >> \o [k \in 1 .. n * n |->
        Text("m", <<Mod("M"), Let(2), Pat(3, "f"), Ty(4, "x")>>
                    \o Samples[1 + ((k - 1) \div n)] \o Samples[1 + ((k - 1) % n)] \o init)
          \o Text("a", << >>) \o Text("b", << >>)]

(* A script and two files of modules: declarations that hide, repeat or    *)
(* add to what the other file of the module has, qualified names before    *)
(* and after the import.                                                   *)
Scripts ==
  <<<<Mod("M"), Import("A"), Let(2), Pat(3, "x"), QTy(4, "A", "x"), Import("B"),
        Let(2), Pat(3, "y"), QTy(4, "B", "x"), I(3, "x")>>,
    <<Mod("M"), Let(2), Pat(3, "x"), QTy(4, "B", "x"), Import("B"), Fun(2, "x"), Ty(3, "x"), QTy(3, "B", "Int")>>,
    <<Mod("A"), Let(2), Pat(3, "y"), QTy(4, "B", "y"), I(3, "x"), Import("A"), Let(2), Pat(3, "f"), QTy(4, "A", "x"),
      Mod("A"), Let(2), Pat(3, "y"), Let(2), Pat(3, "f"), QTy(4, "M", "Int")>>,
    <<Mod("builtin"), D(2, "type", "Int"), Let(2), Pat(3, "x"), Import("B"), Import("A")>>>>
Bodies ==
  <<<<Let(2), Pat(3, "x"), Ty(4, "Int")>>,
    <<D(2, "type", "Int"), Let(2), Pat(3, "y"), Ty(4, "Int"), I(3, "x"),
      P(2, "impl"), Fun(3, "x"), Block(4), D(5, "import", "B")>>,
    <<Import("A"), Let(2), Pat(3, "y"), QTy(4, "A", "Int"), I(3, "x")>>,
    <<Fun(2, "x"), QTy(3, "B", "y"), QTy(3, "builtin", "x"), Block(3), D(4, "import", "B"), P(2, "init"), I(3, "y")>>>>

(* A file is a module A or B of these bodies, or two modules.              *)
Libraries ==
  << >> \o [k \in 1 .. 2 * Len(Bodies) |->
              IF k % 2 = 0 THEN <<Mod("A")>> \o Bodies[k \div 2] ELSE <<Mod("B")>> \o Bodies[(k + 1) \div 2]]
        \o <<<<Mod("A")>> \o Bodies[2] \o <<Mod("B")>> \o Bodies[3],
             <<Mod("A")>> \o Bodies[4] \o <<Mod("A")>> \o Bodies[1]>>
ThreeFileTexts ==
  LET s == Len(Scripts)  l == Len(Libraries) IN
  << >> \o [k \in 1 .. s * l * l |->
     LET i == k - 1
     IN  Text("m", Scripts[1 + (i % s)]) \o Text("a", Libraries[1 + ((i \div s) % l)])
           \o Text("b", Libraries[1 + (i \div (s * l))])]

(* TLC evaluates a definition once, but what a constant is replaced by each*)
(* time it is used; and a concatenation at once, a function when applied.  *)
ManyPrograms == OneFileTexts \o ThreeFileTexts
MCPrograms == ManyPrograms
=============================================================================
