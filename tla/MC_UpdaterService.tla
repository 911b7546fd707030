------------------------- MODULE MC_UpdaterService -------------------------
(* Model-checking instance of UpdaterService: reply objects are model     *)
(* values, interchangeable, so the safety runs use symmetry on them.       *)
EXTENDS UpdaterService, TLC

SlotSymmetry == Permutations(Slots)

=============================================================================
