---------------------------- MODULE MCHarnessRuns ----------------------------
(* Instances of HarnessRuns for TLC. *)
EXTENDS HarnessRuns, TLC

KeySymmetry ==
  Permutations(Runs) \cup Permutations(LaunchKeys)
    \cup Permutations(CancelKeys) \cup Permutations(RecoverKeys)
    \cup Permutations(Params)
=============================================================================
