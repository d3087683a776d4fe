----------------------------- MODULE SourceText -----------------------------
(***************************************************************************)
(* What a source file is to the module machinery of the compiler.          *)
(*                                                                         *)
(* A file is a sequence of items, in source order.  Only the items that    *)
(* decide which modules exist and what is loaded are told apart:           *)
(*    module     a well formed `module M` header                           *)
(*    badheader  a `module` keyword with no usable name after it           *)
(*    import     `import M`                                                *)
(*    baddecl    a declaration that parse_declaration() rejects            *)
(* Other declarations and expressions change nothing here and are left     *)
(* out.  Two readers look at the same file and see different things: the   *)
(* ModuleIndexer scans every token for `module`, the Parser builds a tree. *)
(***************************************************************************)
EXTENDS Integers, Sequences

CONSTANT Module   \* names that a `module` header or an `import` can carry

ItemKind == {"module", "badheader", "import", "baddecl"}
Item == [kind : ItemKind, name : Module]

(* The modules the indexer finds: every header that parses, wherever it is.*)
Declared(text) == {text[i].name : i \in {j \in DOMAIN text : text[j].kind = "module"}}

(* The parser sets a root only if no header was malformed; until it does,  *)
(* every later stage finds a null tree and does nothing.                   *)
Parses(text) == \A i \in DOMAIN text : text[i].kind # "badheader"

(* A declaration before the first header belongs to an implicit module,    *)
(* which takes its name from the path of the file.                         *)
StartsImplicit(text) == text = << >> \/ text[1].kind # "module"

(* After a rejected declaration the body of the module is abandoned: what  *)
(* follows is skipped up to the next header.                               *)
Abandoned(text, i) ==
  \E j \in 1 .. i - 1 : /\ text[j].kind = "baddecl"
                        /\ \A k \in j + 1 .. i - 1 : text[k].kind # "module"

(* Item i is an import declaration of the tree the parser builds.          *)
IsImport(text, i) ==
  /\ Parses(text)
  /\ text[i].kind = "import"
  /\ ~Abandoned(text, i)

ImportsOf(text) == {text[i].name : i \in {j \in DOMAIN text : IsImport(text, j)}}
=============================================================================
