------------------------------- MODULE MCLexer --------------------------------
(***************************************************************************)
(* Short sources for the lexer, and a part of the language's tables.       *)
(***************************************************************************)
EXTENDS LexerProperties

Sources(bytes, n) == UNION {[1 .. k -> bytes] : k \in 0 .. n}
AllBytes == {"i", "f", "n", "1", ".", "quote", "\\", "/", "*", "nl", "blank", "=", "-", ">", "lead", "tail"}
QuotedBytes == {"quote", "'", "\\", "/", "*", "nl", "underscore"}
ShortSources == Sources(AllBytes, 4) \cup Sources(QuotedBytes, 5)

SomeOperators ==
  {<<".">>, <<"=">>, <<"=", "=">>, <<"-">>, <<"-", ">">>, <<">">>, <<">", "=">>, <<"*">>, <<"/">>, <<"\\", "n">>, <<"'">>}
SomeKeywords == {<<"i", "f">>, <<"underscore">>}
=============================================================================
