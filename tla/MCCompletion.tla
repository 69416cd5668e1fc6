---------------------------- MODULE MCCompletion ----------------------------
EXTENDS Completion

\* Code points: "a" is 97, "b" 98, "c" 99, "d" 100, "B" 66, the space 32.
MCWords == << <<97, 98, 99>>, <<97, 98, 100>>, <<97, 66>>, <<98>>, <<98, 99>> >>
MCCharacters == {97, 66}
MCWordBreaks == {32}
MCPreloads == {<<>>, <<97>>, <<98, 32, 97, 98>>}
MCOptionVals ==
  {[ignoreCase |-> TRUE, immediate |-> TRUE, doubleTab |-> FALSE, completeOnEmpty |-> TRUE,
    cutoff |-> 9],
   [ignoreCase |-> FALSE, immediate |-> FALSE, doubleTab |-> TRUE, completeOnEmpty |-> TRUE,
    cutoff |-> 2],
   [ignoreCase |-> TRUE, immediate |-> FALSE, doubleTab |-> FALSE, completeOnEmpty |-> FALSE,
    cutoff |-> 1]}
MCSizes == {[columns |-> 4, rows |-> 2], [columns |-> 10, rows |-> 3]}

=============================================================================
