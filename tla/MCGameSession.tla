--------------------------- MODULE MCGameSession ---------------------------
(* Small instances of GameSession for TLC. *)
EXTENDS GameSession, TLC

CONSTANTS t1, t2

TwoSearches == {t1, t2}
SearchSymmetry == Permutations(TwoSearches)
=============================================================================
