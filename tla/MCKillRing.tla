----------------------------- MODULE MCKillRing -----------------------------
(* Model checking of KillRing: the characters are alike.                    *)
EXTENDS KillRing, TLC

CharSymmetry == Permutations(Chars)
=============================================================================
