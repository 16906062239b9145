--------------------------- MODULE MCClientSystem ---------------------------
(* Symmetry for model-checking ClientSystem. *)
EXTENDS ClientSystem, TLC

CONSTANTS p1, p2

\* Patterns are only compared with each other: sound for the safety runs.
PatternSymmetry == Permutations(Patterns)
=============================================================================
