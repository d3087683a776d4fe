------------------------------- MODULE MCParser ------------------------------
(***************************************************************************)
(* Small instances of Parser.                                              *)
(***************************************************************************)
EXTENDS ParserProperties

id == "identifier"
nl == "newline"

(* Every expression of up to four tokens, and chains of three operators,   *)
(* with parentheses around any two operands and a prefix operator.         *)
Alphabet == {id, "+", "*", "=", "!", "(", ")"}
UpTo4 == UNION {[1 .. k -> Alphabet] : k \in 0 .. 4}
ChainOperators == {"=", "==", "<=", "-", "+", "/"}
Chains ==
  UNION {{<<id, o, id, p, id, q, id>>, <<"(", id, o, id, ")", p, id, q, "!", id>>, <<id, o, "(", id, p, id, ")", q, id>>,
          <<"!", id, o, id, p, "!", "(", id, q, id, ")">>} : o, p, q \in ChainOperators}
Operators == {<<"let", id, "=">> \o e : e \in UpTo4 \cup Chains}

(* One text, or two, for each kind of declaration and of expression.       *)
Sounds ==
  {<<"module", id, nl, "let", id, ":", id, "=", "number", nl, "export", "const", id, "=", id>>,
   <<id, ":", "fun", "<", id, ":", "{", id, "}", ">", "(", id, ":", id, ",", id, ")", "->", id, "{", id, "_", "}">>,
   <<id, ":", "struct", "<", id, ">", "(", id, ")", "{", id, ":", id, ",", nl, id, ":", "(", id, ")", "->", id, "}">>,
   <<id, ":", "enum", "{", id, ",", nl, id, "(", id, ",", id, ")", "}">>,
   <<"extern", id, ":", "cap", "<", id, ">", "{", id, ":", "type", nl, id, ":", "fun", "(", ")", "->", id, nl, "}">>,
   <<"impl", id, "<", id, ">", "for", id, "{", id, ":", "fun", "(", ")", "{", "}", "}">>,
   <<"import", id, ".", id, "from", "string", nl, "module", id, nl, id, "+", "number">>,
   <<"let", id, "=", "if", id, "{", "true", "}", "else", "{", id, "_", "}">>,
   <<"while", id, "{", nl, "return", id, nl, "}", "let", id, ".", id, "(", id, ")", "=", "{", "return", nl, "}">>,
   <<"let", id, "=", "match", id, "{", id, "->", "number", nl, id, ".", id, "(", id, ")", "->", id, nl, "}">>,
   <<"let", id, ":", "(", id, ",", id, ")", "->", id, "=", id, "<", id, ",", id, ">", "(", id, ",", "string", ")">>,
   <<"let", id, "=", "[", "number", ",", id, "]", "+", "[", "]", "==", "(", id, ")", ".", ".", id, "[", "[", id, "]">>}

(* With any one token dropped or replaced, and every beginning of it.      *)
Replacements == {id, "number", ":", "(", "}", ",", "<", ".", nl, "let", "fun", "=", "!"}
Without(t, k) == SubSeq(t, 1, k - 1) \o SubSeq(t, k + 1, Len(t))
Edited(t) ==
  {t} \cup {SubSeq(t, 1, k) : k \in 0 .. Len(t)} \cup {Without(t, k) : k \in DOMAIN t}
      \cup {[t EXCEPT ![k] = r] : k \in DOMAIN t, r \in Replacements}
(* And what the parser is not made for: two items in a block.              *)
Unsound == {<<id, ":", "fun", "(", ")", "{", id, nl, id, "}">>, <<"let", id, "=", "{", "return", "(", id, id, "}">>}
Declarations == Unsound \cup UNION {Edited(t) : t \in Sounds}

(* TLC evaluates a definition once, but what replaces a constant each time.*)
AllTexts == Operators \cup Declarations
ParserTexts == AllTexts
SoundTexts == Sounds
=============================================================================
