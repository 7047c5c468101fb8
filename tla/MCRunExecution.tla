--------------------------- MODULE MCRunExecution ---------------------------
(* Instances of RunExecution for TLC. *)
EXTENDS RunExecution, TLC

Symmetry == Permutations(Workers)

(* Snapshots: a zap with a filter in front of its action, and a zap with   *)
(* two actions.                                                            *)
FilterZap  == 0 :> "trigger" @@ 1 :> "filter" @@ 2 :> "action"
ActionsZap == 0 :> "trigger" @@ 1 :> "action" @@ 2 :> "action"
ShortZap   == 0 :> "trigger" @@ 1 :> "action"
=============================================================================
