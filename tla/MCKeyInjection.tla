--------------------------- MODULE MCKeyInjection ---------------------------
(* An instance for TLC.                                                     *)
EXTENDS KeyInjection, TLC

\* The built-in table has the keys 1 to 3; a keymap says the same of 2 to 4.
MCUs == <<<<"a", "A">>, <<"b">>, <<"Shift_L">>>>
Numbered(rows) == [c \in 2..4 |-> rows[c - 1]]

\* Two layouts that exchange two keys, and one that is read in part only: a
\* level the parser drops, a character at the third level, and "b" missing.
MCSwapped == <<<<"b">>, <<"a", "A">>, <<"Shift_L">>>>
MCPartial == <<<<"NoSymbol", "A">>, <<"a", "A", "x">>, <<"Shift_L">>>>

MCKeymaps == {Numbered(MCUs), Numbered(MCSwapped), Numbered(MCPartial)}

MCTexts == {<<"a", "A">>, <<"A", "b">>, <<"b", "b">>, <<"A", "x">>, <<"a", "e">>, <<"e">>}
=============================================================================
