----------------------------- MODULE MCHistory -----------------------------
(* Model checking of History.  The lines that are never repeated are alike. *)
EXTENDS History, TLC

LineSymmetry == Permutations(Lines \ Repeatable)
=============================================================================
