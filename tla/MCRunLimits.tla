---------------------------- MODULE MCRunLimits ----------------------------
(* An instance of RunLimits for TLC: processes and runs are alike. *)
EXTENDS RunLimits, TLC

Alike == Permutations(Workers) \cup Permutations(Runs)
=============================================================================
