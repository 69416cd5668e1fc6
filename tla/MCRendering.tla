----------------------------- MODULE MCRendering -----------------------------
EXTENDS Rendering

MCGlyphs == {"b", "c", "d", "x", "(", ")", "[", "]", ">", "p", "m", " ", "\n"}
MCWidths == {4, 5}
MCPrompts == {<<">">>, <<"p", "\n", ">">>}
MCPreloads == {<<>>, <<"[", "\n", "(", "]">>}
MCCharacters == {"b"}
MCOptionVals ==
  {[hinter |-> FALSE, hintDelay |-> FALSE, indentMultiline |-> FALSE],
   [hinter |-> TRUE, hintDelay |-> FALSE, indentMultiline |-> FALSE],
   [hinter |-> TRUE, hintDelay |-> TRUE, indentMultiline |-> TRUE]}
MCMessages == {<<"m">>}
MCWordBreaks == {"\n", "(", ")", "[", "]"}
MCHints(c) ==
  CASE c = <<"b">> -> << <<"b", "c">>, <<"b", "d", "d", "d">> >>
    [] c = <<"b", "b">> -> << <<"b", "b", "x", "x">> >>
    [] OTHER -> <<>>

=============================================================================
