---------------------------- MODULE MCLineEditor ----------------------------
(* An instance of LineEditor for TLC. *)
EXTENDS LineEditor

MCUpper == [c \in Chars |-> IF c = "a" /\ "A" \in Chars THEN "A" ELSE c]
MCLower == [c \in Chars |-> IF c = "A" /\ "a" \in Chars THEN "a" ELSE c]
\* Lines of a word and a newline.
MCEntries == {<<"n">>, <<"a", "a">>}
MCOthers == {<<"a", "n">>}
=============================================================================
