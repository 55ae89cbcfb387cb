------------------------------- MODULE MCLexer ------------------------------
(* A source may spell two keywords; multiplier 1 gives both the same slot. *)
EXTENDS Lexer

MCKeywords == {<<"d", "o">>, <<"i", "f">>}

MCSlot(m, word) == CASE m = 1 -> Len(word) [] m = 2 -> Head(word) [] m = 3 -> Last(word)
=============================================================================
