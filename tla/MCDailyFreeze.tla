--------------------------- MODULE MCDailyFreeze ---------------------------
(* Controllers and directories for DailyFreeze, which differ by name only. *)
EXTENDS DailyFreeze, TLC

CONSTANTS c1, c2, d1, d2

Symmetry == Permutations(Controller) \union Permutations(Directory)
=============================================================================
