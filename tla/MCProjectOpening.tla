---------------------------- MODULE MCProjectOpening ----------------------------
(***************************************************************************)
(* ProjectOpening for TLC: paths, directories and keys are interchangeable.*)
(***************************************************************************)
EXTENDS ProjectOpening, TLC

Symmetry == Permutations(Paths) \cup Permutations(Dirs) \cup Permutations(Keys)
=============================================================================
