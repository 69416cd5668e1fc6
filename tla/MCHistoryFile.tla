--------------------------- MODULE MCHistoryFile ---------------------------
(* Model checking of HistoryFile.                                           *)
EXTENDS HistoryFile

CONSTANTS p1, p2, a, b, NL, E, R, S

\* A text with a newline, and one that looks like a timestamp.
MCTexts == {<<a, NL>>, <<S>>}

\* A file without timestamps that another system wrote, with an ETB, a carriage
\* return and an empty line.
MCFiles == {<<<<a, E, R>>, <<>>>>}
=============================================================================
